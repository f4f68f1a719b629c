---------------------------- MODULE PluginsProofs ----------------------------
(***************************************************************************)
(* Proofs about the plugins and services of MCPlugins, each of which steps *)
(* alone: an inductive invariant per part, a lemma that it holds at the    *)
(* start and one that a step of the part keeps it, and at the end the      *)
(* properties of the composition.                                          *)
(***************************************************************************)
EXTENDS MCPlugins, FiniteSetTheorems, SequenceTheorems, TLAPS

-----------------------------------------------------------------------------
(* Files.                                                                  *)

(* The file behind a key: the attachment itself, or the part it was made   *)
(* for.                                                                    *)
FiFileOf(k) ==
  IF k \in FiFiles THEN k
  ELSE FiMessages[(CHOOSE r \in FiRequests : r.id = k.owner).message][k.part].file
FiIsCopy(n, k, p) == fiRemote[n].key = k /\ fiRemote[n].provider = p

(* Parts keep their places and their files, whatever stands for them.      *)
FiPartsKept ==
  /\ DOMAIN fiParts = DOMAIN FiMessages
  /\ \A m \in DOMAIN FiMessages :
       /\ fiParts[m] \in Seq({fiParts[m][i] : i \in DOMAIN FiMessages[m]})
       /\ DOMAIN fiParts[m] = DOMAIN FiMessages[m]
       /\ \A i \in DOMAIN FiMessages[m] :
            /\ fiParts[m][i].file = FiMessages[m][i].file
            /\ FiHasFileSource(fiParts[m][i]) => fiParts[m][i].type = FiMessages[m][i].type

(* Where a request is in its message, and what it is at: everything before *)
(* that is resolved, but for files that are not registered.                *)
FiPhases == {"idle", "walk", "upload", "ref", "sent", "rejected"}
FiPlaces ==
  [phase : FiPhases, i : Nat, began : Nat, startedAt : Nat, key : FiKeys \cup {"none"},
   file : {FiFileOf(k) : k \in FiKeys} \cup {"none"}]
FiAtOf(r) ==
  /\ fiAt[r].phase # "idle" => fiAt[r].i > 0
  /\ fiAt[r].phase \in {"walk", "upload", "ref", "sent"} =>
       \A i \in DOMAIN FiMessages[r.message] :
         (i < fiAt[r].i /\ FiHasFileSource(fiParts[r.message][i])) =>
           fiParts[r.message][i].type = "file" /\ fiParts[r.message][i].file \notin fiKnown
  /\ fiAt[r].phase = "sent" => fiAt[r].i > Len(FiMessages[r.message])
  /\ fiAt[r].phase \in {"upload", "ref"} =>
       /\ fiAt[r].i \in DOMAIN FiMessages[r.message] /\ fiAt[r].key \in FiKeys
       /\ fiAt[r].file = FiMessages[r.message][fiAt[r].i].file /\ fiAt[r].file = FiFileOf(fiAt[r].key)
       /\ r.provider \in FiAdapters
FiAtKept == fiAt \in [FiRequests -> FiPlaces] /\ \A r \in FiRequests : FiAtOf(r)

(* What a key and a provider are recorded with is the last copy of them    *)
(* that landed.                                                            *)
FiUploadsKept ==
  /\ fiUploads \in [FiKeys -> [FiProviders -> [status : {"none", "uploaded", "expired", "deleted"}, remote : Nat]]]
  /\ \A k \in FiKeys, p \in FiProviders :
       LET u == fiUploads[k][p] IN
         /\ u.status = "none" => u.remote = 0
         /\ u.status # "none" => u.remote \in 1 .. Len(fiRemote) /\ FiIsCopy(u.remote, k, p)
         /\ u.status = "expired" => FiExpired(u.remote)
         /\ u.status = "deleted" => \E d \in 1 .. Len(fiDeleting) : fiDeleting[d].key = k
         /\ \A n \in 1 .. Len(fiRemote) : FiIsCopy(n, k, p) => u.status # "none" /\ n <= u.remote

(* A copy is of its key's file, and later copies at a provider expire      *)
(* later, if they do.                                                      *)
FiCopies ==
  [key : FiKeys, file : {FiFileOf(k) : k \in FiKeys}, provider : FiProviders \cap FiAdapters,
   began : Nat, startedAt : Nat, expires : Int, gone : BOOLEAN]
FiRemoteKept ==
  /\ fiRemote \in Seq(FiCopies)
  /\ \A n \in 1 .. Len(fiRemote) :
       /\ fiRemote[n].file = FiFileOf(fiRemote[n].key) /\ fiRemote[n].began < n
       /\ fiRemote[n].expires = -1 <=> FiExpiry(fiRemote[n].provider) = -1
       /\ fiRemote[n].expires <= fiClock + FiLifetime
  /\ \A m, n \in 1 .. Len(fiRemote) :
       m < n /\ fiRemote[m].provider = fiRemote[n].provider => fiRemote[m].expires <= fiRemote[n].expires

FiOutcomes == {"asked", "answered", "failed"}
FiDeletingKept ==
  /\ fiDeleting \in Seq([key : FiFiles, provider : FiProviders, remote : Nat, at : FiOutcomes])
  /\ \A d \in 1 .. Len(fiDeleting) :
       LET del == fiDeleting[d] IN del.remote \in 1 .. Len(fiRemote) /\ FiIsCopy(del.remote, del.key, del.provider)

(* A copy whose deletion was answered is not recorded as uploaded.         *)
FiToldKept ==
  \A d \in 1 .. Len(fiDeleting) :
    LET del == fiDeleting[d] u == fiUploads[del.key][del.provider] IN
      del.at = "answered" /\ u.remote = del.remote => u.status # "uploaded"

(* When an upload was begun, no copy that had landed was of use.           *)
FiUseless(m, startedAt) ==
  \/ fiRemote[m].expires # -1 /\ startedAt > fiRemote[m].expires
  \/ \E d \in 1 .. Len(fiDeleting) : fiDeleting[d].key = fiRemote[m].key
FiNeedOf(r) ==
  fiAt[r].phase = "upload" =>
    /\ fiAt[r].began <= Len(fiRemote)
    /\ \A m \in 1 .. Len(fiRemote) :
         (FiIsCopy(m, fiAt[r].key, r.provider) /\ fiAt[r].began >= m) => FiUseless(m, fiAt[r].startedAt)
FiBegunInNeed == \A r \in FiRequests : FiNeedOf(r)

(* A reference was taken from a copy that was of use.                      *)
FiRefOf(part) ==
  /\ part.live /\ part.remote \in 1 .. Len(fiRemote)
  /\ fiRemote[part.remote].file = part.file /\ fiRemote[part.remote].provider = part.provider
FiRefsKept ==
  \A m \in DOMAIN FiMessages : \A i \in DOMAIN FiMessages[m] : FiIsRef(fiParts[m][i]) => FiRefOf(fiParts[m][i])

FiTypes == fiClock \in 0 .. FiEnd /\ fiKnown \subseteq FiKeys
FiInv ==
  /\ FiTypes /\ FiPartsKept /\ FiAtKept /\ FiUploadsKept /\ FiRemoteKept /\ FiDeletingKept /\ FiBegunInNeed
  /\ FiRefsKept /\ FiNoNeedlessUpload

LEMMA FiCopyType ==
  ASSUME FiRemoteKept
  PROVE  Len(fiRemote) \in Nat /\ \A n \in 1 .. Len(fiRemote) : fiRemote[n] \in FiCopies
  BY ElementOfSeq, LenProperties DEF FiRemoteKept

LEMMA FiDeletionType ==
  ASSUME FiInv, NEW d \in 1 .. Len(fiDeleting)
  PROVE  /\ fiDeleting[d].key \in FiKeys /\ fiDeleting[d].provider \in FiProviders
         /\ fiDeleting[d].remote \in 1 .. Len(fiRemote)
<1> DEFINE Dels == [key : FiFiles, provider : FiProviders, remote : Nat, at : FiOutcomes]
<1>1. fiDeleting[d] \in Dels
  BY ElementOfSeq DEF FiInv, FiDeletingKept
<1> QED BY <1>1 DEF FiKeys, FiInv, FiDeletingKept

LEMMA FiKeyOf ==
  ASSUME FiPartsKept, NEW r \in FiRequests, fiAt[r].i \in DOMAIN FiMessages[r.message], FiHasFileSource(FiPart(r))
  PROVE  FiKey(r) \in FiKeys /\ FiFileOf(FiKey(r)) = FiPart(r).file
<1> DEFINE m == r.message
           i == fiAt[r].i
<1>1. m \in DOMAIN FiMessages
  BY FiShapes
<1>2. FiPart(r).file = FiMessages[m][i].file /\ FiPart(r).type = FiMessages[m][i].type
  BY <1>1 DEF FiPartsKept, FiPart
<1>3. CASE FiPart(r).type = "file"
  <2>1. FiPart(r).file \in FiFiles
    BY <1>1, <1>2, <1>3, FiShapes
  <2> QED BY <1>3, <2>1 DEF FiKey, FiFileOf, FiKeys
<1>4. CASE FiPart(r).type # "file"
  <2>1. FiKey(r) = [owner |-> r.id, part |-> i]
    BY <1>4 DEF FiKey
  <2>2. FiKey(r) \notin FiFiles
    BY <2>1, FiShapes
  <2>3. i \in 1 .. Len(FiMessages[m])
    BY <1>1, FiShapes, LenProperties
  <2>4. FiKey(r) \in FiKeys
    BY <2>1, <2>3 DEF FiKeys
  <2>5. (CHOOSE q \in FiRequests : q.id = r.id) = r
    BY FiShapes
  <2>6. FiFileOf(FiKey(r)) = FiMessages[(CHOOSE q \in FiRequests : q.id = r.id).message][i].file
    BY <2>1, <2>2 DEF FiFileOf
  <2> QED BY <2>4, <2>5, <2>6, <1>2
<1> QED BY <1>3, <1>4

(* isAvailable's mark changes what is recorded only to what is so.         *)
LEMMA FiMarkKeeps ==
  ASSUME FiUploadsKept, FiRemoteKept, NEW k \in FiKeys, NEW p \in FiProviders,
         fiUploads' = [fiUploads EXCEPT ![k][p] = FiMarked(fiUploads[k][p])],
         UNCHANGED <<fiRemote, fiClock>>,
         \A d \in 1 .. Len(fiDeleting) : d \in 1 .. Len(fiDeleting') /\ fiDeleting'[d].key = fiDeleting[d].key
  PROVE  FiUploadsKept'
<1> DEFINE Rec == [status : {"none", "uploaded", "expired", "deleted"}, remote : Nat]
           u == fiUploads[k][p]
           v == FiMarked(fiUploads[k][p])
<1>1. u \in Rec
  BY DEF FiUploadsKept
<1>2. v \in Rec /\ v.remote = u.remote /\ (v.status = u.status \/ (u.status = "uploaded" /\ v.status = "expired" /\ FiExpired(u.remote)))
  BY <1>1 DEF FiMarked, FiAvailable
<1>3. fiUploads' \in [FiKeys -> [FiProviders -> Rec]]
  BY <1>2 DEF FiUploadsKept
<1>4. \A l \in FiKeys, q \in FiProviders : fiUploads'[l][q] = IF l = k /\ q = p THEN v ELSE fiUploads[l][q]
  BY DEF FiUploadsKept
<1>5. \A n : FiExpired(n)' = FiExpired(n)
  BY DEF FiExpired
<1>6. \A n, l, q : FiIsCopy(n, l, q)' = FiIsCopy(n, l, q)
  BY DEF FiIsCopy
<1> SUFFICES ASSUME NEW l \in FiKeys, NEW q \in FiProviders
             PROVE  LET w == fiUploads'[l][q] IN
                      /\ w.status = "none" => w.remote = 0
                      /\ w.status # "none" => w.remote \in 1 .. Len(fiRemote') /\ FiIsCopy(w.remote, l, q)
                      /\ w.status = "expired" => FiExpired(w.remote)
                      /\ w.status = "deleted" => \E d \in 1 .. Len(fiDeleting') : fiDeleting'[d].key = l
                      /\ \A n \in 1 .. Len(fiRemote') : FiIsCopy(n, l, q) => w.status # "none" /\ n <= w.remote
  BY <1>3, <1>5, <1>6, ZenonT(40) DEF FiUploadsKept
<1> DEFINE w == fiUploads'[l][q]
<1>7. w.remote = fiUploads[l][q].remote
  BY <1>2, <1>4
<1>8. w.status = fiUploads[l][q].status \/ (fiUploads[l][q].status = "uploaded" /\ w.status = "expired" /\ FiExpired(w.remote))
  BY <1>2, <1>4
<1>9. fiRemote' = fiRemote OBVIOUS
<1> DEFINE o == fiUploads[l][q]
<1>10. /\ o.status = "none" => o.remote = 0
       /\ o.status # "none" => o.remote \in 1 .. Len(fiRemote) /\ FiIsCopy(o.remote, l, q)
       /\ o.status = "expired" => FiExpired(o.remote)
       /\ o.status = "deleted" => \E d \in 1 .. Len(fiDeleting) : fiDeleting[d].key = l
       /\ \A n \in 1 .. Len(fiRemote) : FiIsCopy(n, l, q) => o.status # "none" /\ n <= o.remote
  BY DEF FiUploadsKept
<1>11. (\E d \in 1 .. Len(fiDeleting) : fiDeleting[d].key = l) => \E d \in 1 .. Len(fiDeleting') : fiDeleting'[d].key = l
  OBVIOUS
<1> HIDE DEF w, o
<1> USE DEF o
<1> QED BY <1>7, <1>8, <1>9, <1>10, <1>11 DEF w

FiPut(m, i, part) == fiParts' = [fiParts EXCEPT ![m][i] = part]
LEMMA FiReplaceKeeps ==
  ASSUME FiPartsKept, NEW m \in DOMAIN FiMessages, NEW i \in DOMAIN FiMessages[m], NEW part,
         part.file = FiMessages[m][i].file, ~FiHasFileSource(part),
         FiPut(m, i, part)
  PROVE  /\ FiPartsKept'
         /\ \A l \in DOMAIN FiMessages : \A j \in DOMAIN FiMessages[l] :
              fiParts'[l][j] = IF l = m /\ j = i THEN part ELSE fiParts[l][j]
<1> DEFINE ps == [fiParts[m] EXCEPT ![i] = part]
<1>1. fiParts' = [fiParts EXCEPT ![m] = ps]
  BY DEF FiPut
<1>2. DOMAIN fiParts[m] = DOMAIN FiMessages[m] /\ DOMAIN ps = DOMAIN FiMessages[m]
  BY DEF FiPartsKept
<1>3. \A j \in DOMAIN FiMessages[m] : ps[j] = IF j = i THEN part ELSE fiParts[m][j]
  BY <1>2
<1>4. ps \in Seq({ps[j] : j \in DOMAIN FiMessages[m]})
  <2>1. fiParts[m] \in Seq({fiParts[m][j] : j \in DOMAIN FiMessages[m]})
    BY DEF FiPartsKept
  <2>2. Len(fiParts[m]) \in Nat /\ DOMAIN fiParts[m] = 1 .. Len(fiParts[m])
    BY <2>1, LenProperties
  <2>3. ps = [j \in 1 .. Len(fiParts[m]) |-> ps[j]]
    BY <1>2, <2>2
  <2> HIDE DEF ps
  <2>4. ps \in [1 .. Len(fiParts[m]) -> {ps[j] : j \in DOMAIN FiMessages[m]}]
    BY <1>2, <2>2, <2>3
  <2> QED BY <2>2, <2>4, SeqDef
<1>5. DOMAIN fiParts = DOMAIN FiMessages
  BY DEF FiPartsKept
<1> HIDE DEF ps
<1>6. \A l \in DOMAIN FiMessages : fiParts'[l] = IF l = m THEN ps ELSE fiParts[l]
  BY <1>1, <1>5
<1>7. \A l \in DOMAIN FiMessages : \A j \in DOMAIN FiMessages[l] :
        fiParts'[l][j] = IF l = m /\ j = i THEN part ELSE fiParts[l][j]
  <2> SUFFICES ASSUME NEW l \in DOMAIN FiMessages, NEW j \in DOMAIN FiMessages[l]
        PROVE  fiParts'[l][j] = IF l = m /\ j = i THEN part ELSE fiParts[l][j]
    OBVIOUS
  <2>1. CASE l = m
    <3>1. fiParts'[l] = ps
      BY <1>6, <2>1
    <3>2. ps[j] = IF j = i THEN part ELSE fiParts[m][j]
      BY <1>3, <2>1
    <3> QED BY <2>1, <3>1, <3>2
  <2>2. CASE l # m
    <3>1. fiParts'[l] = fiParts[l]
      BY <1>6, <2>2
    <3> QED BY <2>2, <3>1
  <2> QED BY <2>1, <2>2
<1>8. FiPartsKept'
  <2>1. DOMAIN fiParts' = DOMAIN FiMessages
    BY <1>1, <1>5
  <2> SUFFICES ASSUME NEW l \in DOMAIN FiMessages
               PROVE  /\ fiParts'[l] \in Seq({fiParts'[l][j] : j \in DOMAIN FiMessages[l]})
                      /\ DOMAIN fiParts'[l] = DOMAIN FiMessages[l]
                      /\ \A j \in DOMAIN FiMessages[l] :
                           /\ fiParts'[l][j].file = FiMessages[l][j].file
                           /\ FiHasFileSource(fiParts'[l][j]) => fiParts'[l][j].type = FiMessages[l][j].type
    BY <2>1 DEF FiPartsKept
  <2>2. CASE l = m
    <3>1. fiParts'[m] = ps
      BY <1>6
    <3>2. fiParts'[m] \in Seq({fiParts'[m][j] : j \in DOMAIN FiMessages[m]}) /\ DOMAIN fiParts'[m] = DOMAIN FiMessages[m]
      BY <1>2, <1>4, <3>1, Zenon
    <3>3. \A j \in DOMAIN FiMessages[m] : fiParts'[m][j] = IF j = i THEN part ELSE fiParts[m][j]
      BY <1>3, <3>1
    <3>4. \A j \in DOMAIN FiMessages[m] :
            /\ fiParts'[m][j].file = FiMessages[m][j].file
            /\ FiHasFileSource(fiParts'[m][j]) => fiParts'[m][j].type = FiMessages[m][j].type
      <4> SUFFICES ASSUME NEW j \in DOMAIN FiMessages[m]
                   PROVE  /\ fiParts'[m][j].file = FiMessages[m][j].file
                          /\ FiHasFileSource(fiParts'[m][j]) => fiParts'[m][j].type = FiMessages[m][j].type
        OBVIOUS
      <4>1. CASE j = i
        <5>1. fiParts'[m][j] = part
          BY <3>3, <4>1
        <5> QED BY <4>1, <5>1
      <4>2. CASE j # i
        <5>1. fiParts'[m][j] = fiParts[m][j]
          BY <3>3, <4>2
        <5> QED BY <5>1 DEF FiPartsKept
      <4> QED BY <4>1, <4>2
    <3> QED BY <2>2, <3>2, <3>4
  <2>3. CASE l # m
    <3>1. fiParts'[l] = fiParts[l]
      BY <1>6, <2>3
    <3>2. fiParts[l] \in Seq({fiParts[l][j] : j \in DOMAIN FiMessages[l]}) /\ DOMAIN fiParts[l] = DOMAIN FiMessages[l]
      BY DEF FiPartsKept
    <3>3. \A j \in DOMAIN FiMessages[l] :
            /\ fiParts[l][j].file = FiMessages[l][j].file
            /\ FiHasFileSource(fiParts[l][j]) => fiParts[l][j].type = FiMessages[l][j].type
      BY DEF FiPartsKept
    <3> HIDE DEF FiHasFileSource
    <3> QED BY <3>1, <3>2, <3>3, Zenon
  <2> QED BY <2>2, <2>3
<1> QED BY <1>7, <1>8

(* Parts only turn into what is no file source, and no attachment that was *)
(* not registered is.                                                      *)
FiPartsStep ==
  \A m \in DOMAIN FiMessages : \A i \in DOMAIN FiMessages[m] :
    fiParts'[m][i] = fiParts[m][i] \/ ~FiHasFileSource(fiParts'[m][i])
FiKnownStep == \A f \in FiFiles : f \in fiKnown' => f \in fiKnown

LEMMA FiPassedStays ==
  ASSUME FiPartsKept, FiPartsStep, FiKnownStep, NEW m \in DOMAIN FiMessages, NEW i \in DOMAIN FiMessages[m],
         FiHasFileSource(fiParts[m][i]) => fiParts[m][i].type = "file" /\ fiParts[m][i].file \notin fiKnown,
         FiHasFileSource(fiParts'[m][i])
  PROVE  fiParts'[m][i].type = "file" /\ fiParts'[m][i].file \notin fiKnown'
<1>1. fiParts'[m][i] = fiParts[m][i]
  BY DEF FiPartsStep
<1>2. FiHasFileSource(fiParts[m][i])
  BY <1>1
<1>3. fiParts[m][i].type = "file" /\ fiParts[m][i].file \notin fiKnown
  BY <1>2
<1>4. FiMessages[m][i].type = "file" /\ fiParts[m][i].file = FiMessages[m][i].file
  BY <1>2, <1>3 DEF FiPartsKept
<1>5. fiParts[m][i].file \in FiFiles
  BY <1>4, FiShapes
<1> QED BY <1>1, <1>3, <1>5 DEF FiKnownStep

(* A step moves one request, or none.                                      *)
LEMMA FiAtFrame ==
  ASSUME FiPartsKept, FiPartsStep, FiKnownStep, FiAtKept, NEW R, fiAt' \in [FiRequests -> FiPlaces],
         \A q \in FiRequests \ R : fiAt'[q] = fiAt[q],
         \A q \in FiRequests \cap R : FiAtOf(q)'
  PROVE  FiAtKept'
<1> SUFFICES ASSUME NEW q \in FiRequests, q \notin R
      PROVE  FiAtOf(q)'
  BY DEF FiAtKept
<1>1. fiAt'[q] = fiAt[q] OBVIOUS
<1>2. FiAtOf(q)
  BY DEF FiAtKept
<1>3. q.message \in DOMAIN FiMessages
  BY FiShapes
<1>4. ASSUME NEW i \in DOMAIN FiMessages[q.message], fiAt[q].phase \in {"walk", "upload", "ref", "sent"}, i < fiAt[q].i,
             FiHasFileSource(fiParts'[q.message][i])
      PROVE  fiParts'[q.message][i].type = "file" /\ fiParts'[q.message][i].file \notin fiKnown'
  <2>1. FiHasFileSource(fiParts[q.message][i]) =>
          fiParts[q.message][i].type = "file" /\ fiParts[q.message][i].file \notin fiKnown
    BY <1>2, <1>4 DEF FiAtOf
  <2> QED BY <1>3, <1>4, <2>1, FiPassedStays
<1> HIDE DEF FiHasFileSource
<1>5. fiAt[q].phase \in {"walk", "upload", "ref", "sent"} =>
        \A i \in DOMAIN FiMessages[q.message] :
          (i < fiAt[q].i /\ FiHasFileSource(fiParts'[q.message][i])) =>
            fiParts'[q.message][i].type = "file" /\ fiParts'[q.message][i].file \notin fiKnown'
  BY <1>4
<1> QED BY <1>1, <1>2, <1>5 DEF FiAtOf

(* The same for what an upload was begun for.                              *)
LEMMA FiNeedFrame ==
  ASSUME FiAtKept, FiBegunInNeed, FiRemoteKept, FiDeletingKept, NEW R, \A q \in FiRequests \ R : fiAt'[q] = fiAt[q],
         \A q \in FiRequests \cap R : FiNeedOf(q)',
         Len(fiRemote') >= Len(fiRemote), Len(fiRemote') \in Nat,
         \A m \in 1 .. Len(fiRemote) : /\ fiRemote'[m].key = fiRemote[m].key /\ fiRemote'[m].provider = fiRemote[m].provider
                                       /\ fiRemote'[m].expires = fiRemote[m].expires,
         \A d \in 1 .. Len(fiDeleting) : d \in 1 .. Len(fiDeleting') /\ fiDeleting'[d].key = fiDeleting[d].key
  PROVE  FiBegunInNeed'
<1> SUFFICES ASSUME NEW q \in FiRequests, q \notin R, fiAt[q].phase = "upload"
             PROVE  /\ fiAt[q].began <= Len(fiRemote')
                    /\ \A m \in 1 .. Len(fiRemote') :
                         (fiRemote'[m].key = fiAt[q].key /\ fiRemote'[m].provider = q.provider /\ fiAt[q].began >= m) =>
                           \/ fiRemote'[m].expires # -1 /\ fiAt[q].startedAt > fiRemote'[m].expires
                           \/ \E d \in 1 .. Len(fiDeleting') : fiDeleting'[d].key = fiRemote'[m].key
  <2>1. \A q \in FiRequests : q \notin R => FiNeedOf(q)'
    BY DEF FiNeedOf, FiIsCopy, FiUseless
  <2> QED BY <2>1 DEF FiBegunInNeed
<1>1. Len(fiRemote) \in Nat
  BY LenProperties DEF FiRemoteKept
<1>2. fiAt[q].began \in Nat
  BY DEF FiAtKept, FiPlaces
<1>3. FiNeedOf(q)
  BY DEF FiBegunInNeed
<1>4. fiAt[q].began <= Len(fiRemote)
  BY <1>3 DEF FiNeedOf
<1>5. fiAt[q].began <= Len(fiRemote')
  BY <1>1, <1>2, <1>4
<1> SUFFICES ASSUME NEW m \in 1 .. Len(fiRemote'), fiRemote'[m].key = fiAt[q].key, fiRemote'[m].provider = q.provider,
                    fiAt[q].began >= m
             PROVE  \/ fiRemote'[m].expires # -1 /\ fiAt[q].startedAt > fiRemote'[m].expires
                    \/ \E d \in 1 .. Len(fiDeleting') : fiDeleting'[d].key = fiRemote'[m].key
  BY <1>5
<1>6. m \in 1 .. Len(fiRemote)
  BY <1>1, <1>2, <1>4
<1>7. FiUseless(m, fiAt[q].startedAt)
  BY <1>3, <1>6 DEF FiNeedOf, FiIsCopy
<1> QED BY <1>6, <1>7 DEF FiUseless

LEMMA FiCopiesStay ==
  ASSUME FiRemoteKept, FiDeletingKept, FiNoNeedlessUpload, UNCHANGED <<fiClock, fiRemote, fiDeleting>>
  PROVE  FiRemoteKept' /\ FiDeletingKept' /\ FiNoNeedlessUpload'
<1>1. FiRemoteKept'
  BY DEF FiRemoteKept, FiExpiry, FiUploadGoogle, FiUploadOpenAI, FiUploadAnthropic, FiUploadXAI
<1>2. FiDeletingKept'
  BY DEF FiDeletingKept, FiIsCopy
<1>3. FiNoNeedlessUpload'
  BY DEF FiNoNeedlessUpload
<1> QED BY <1>1, <1>2, <1>3

LEMMA FiNeedStays ==
  ASSUME FiInv, NEW r \in FiRequests, FiNeedOf(r)', \A q \in FiRequests \ {r} : fiAt'[q] = fiAt[q],
         UNCHANGED <<fiRemote, fiDeleting>>
  PROVE  FiBegunInNeed'
<1>1. FiAtKept /\ FiBegunInNeed /\ FiRemoteKept /\ FiDeletingKept
  BY DEF FiInv
<1>2. Len(fiRemote') >= Len(fiRemote) /\ Len(fiRemote') \in Nat
  BY <1>1, FiCopyType
<1>3. \A q \in FiRequests \cap {r} : FiNeedOf(q)' OBVIOUS
<1>4. \A m \in 1 .. Len(fiRemote) : /\ fiRemote'[m].key = fiRemote[m].key /\ fiRemote'[m].provider = fiRemote[m].provider
                                    /\ fiRemote'[m].expires = fiRemote[m].expires
  OBVIOUS
<1>5. \A d \in 1 .. Len(fiDeleting) : d \in 1 .. Len(fiDeleting') /\ fiDeleting'[d].key = fiDeleting[d].key
  OBVIOUS
<1> QED BY <1>1, <1>2, <1>3, <1>4, <1>5, FiNeedFrame

LEMMA FiStoreStays ==
  ASSUME FiUploadsKept, FiRemoteKept, FiDeletingKept, FiNoNeedlessUpload, UNCHANGED <<fiClock, fiUploads, fiRemote, fiDeleting>>
  PROVE  FiUploadsKept' /\ FiRemoteKept' /\ FiDeletingKept' /\ FiNoNeedlessUpload'
<1>1. FiRemoteKept' /\ FiDeletingKept' /\ FiNoNeedlessUpload'
  BY FiCopiesStay
<1>2. FiUploadsKept'
  BY DEF FiUploadsKept, FiIsCopy, FiExpired
<1> QED BY <1>1, <1>2

(* A step that moves a request on in its message and touches no parts.     *)
LEMMA FiMoves ==
  ASSUME FiInv, NEW r \in FiRequests, FiAtOf(r)', FiNeedOf(r)', fiAt' \in [FiRequests -> FiPlaces],
         \A q \in FiRequests \ {r} : fiAt'[q] = fiAt[q],
         UNCHANGED <<fiClock, fiKnown, fiUploads, fiParts, fiRemote, fiDeleting>>
  PROVE  FiInv'
<1>1. FiUploadsKept' /\ FiRemoteKept' /\ FiDeletingKept' /\ FiNoNeedlessUpload'
  <2>1. FiUploadsKept /\ FiRemoteKept /\ FiDeletingKept /\ FiNoNeedlessUpload
    BY DEF FiInv
  <2>2. UNCHANGED <<fiClock, fiUploads, fiRemote, fiDeleting>> OBVIOUS
  <2> QED BY <2>1, <2>2, FiStoreStays
<1>2. FiPartsKept'
  <2>1. FiPartsKept /\ fiParts' = fiParts
    BY DEF FiInv
  <2> QED BY <2>1 DEF FiPartsKept
<1>3. FiPartsStep /\ FiKnownStep
  BY DEF FiPartsStep, FiKnownStep
<1>4. FiAtKept'
  <2>1. FiAtKept /\ FiPartsKept
    BY DEF FiInv
  <2>2. \A q \in FiRequests \cap {r} : FiAtOf(q)' OBVIOUS
  <2> QED BY <1>3, <2>1, <2>2, FiAtFrame
<1>5. FiBegunInNeed'
  BY FiNeedStays
<1>6. FiRefsKept'
  BY DEF FiInv, FiRefsKept, FiRefOf
<1>7. FiTypes'
  BY DEF FiInv, FiTypes
<1> QED BY <1>1, <1>2, <1>4, <1>5, <1>6, <1>7 DEF FiInv

LEMMA FiMessageShape ==
  ASSUME NEW r \in FiRequests
  PROVE  /\ r.message \in DOMAIN FiMessages /\ r.provider \in FiProviders
         /\ Len(FiMessages[r.message]) \in Nat /\ DOMAIN FiMessages[r.message] = 1 .. Len(FiMessages[r.message])
         /\ FiPartsKept => Len(fiParts[r.message]) = Len(FiMessages[r.message])
<1>1. r.message \in DOMAIN FiMessages /\ r.provider \in FiProviders
  BY FiShapes
<1>2. Len(FiMessages[r.message]) \in Nat /\ DOMAIN FiMessages[r.message] = 1 .. Len(FiMessages[r.message])
  BY <1>1, FiShapes, LenProperties
<1>3. ASSUME FiPartsKept
      PROVE  Len(fiParts[r.message]) = Len(FiMessages[r.message])
  <2>1. DOMAIN fiParts[r.message] = 1 .. Len(FiMessages[r.message])
    BY <1>1, <1>2, <1>3 DEF FiPartsKept
  <2>2. DOMAIN fiParts[r.message] = 1 .. Len(fiParts[r.message]) /\ Len(fiParts[r.message]) \in Nat
    BY <1>1, <1>3, LenProperties DEF FiPartsKept
  <2> QED BY <1>2, <2>1, <2>2
<1> QED BY <1>1, <1>2, <1>3

LEMMA FiAtType == ASSUME FiInv, NEW r \in FiRequests PROVE fiAt[r] \in FiPlaces /\ fiAt \in [FiRequests -> FiPlaces] /\ FiAtOf(r)
  BY DEF FiInv, FiAtKept

LEMMA FiStartKeeps == ASSUME FiInv, NEW r \in FiRequests, FiStart(r) PROVE FiInv'
<1> DEFINE at == [fiAt[r] EXCEPT !.phase = "walk", !.i = 1]
<1>1. fiAt' = [fiAt EXCEPT ![r] = at] /\ fiAt \in [FiRequests -> FiPlaces] /\ fiAt[r] \in FiPlaces
  BY FiAtType DEF FiStart
<1>2. at \in FiPlaces /\ at.i = 1 /\ at.phase = "walk"
  BY <1>1 DEF FiPlaces, FiPhases
<1> HIDE DEF at
<1>3. fiAt' \in [FiRequests -> FiPlaces] /\ fiAt'[r] = at /\ \A q \in FiRequests \ {r} : fiAt'[q] = fiAt[q]
  BY <1>1, <1>2
<1>4. FiAtOf(r)'
  BY <1>2, <1>3, FiMessageShape DEF FiAtOf
<1>5. FiNeedOf(r)'
  BY <1>2, <1>3 DEF FiNeedOf
<1> QED BY <1>3, <1>4, <1>5, FiMoves DEF FiStart

(* What a request that leaves a part behind it then has behind it.         *)
LEMMA FiAdvanced ==
  ASSUME FiInv, NEW r \in FiRequests, FiAdvance(r), fiAt[r].phase # "idle",
         \A i \in DOMAIN FiMessages[r.message] :
           (i <= fiAt[r].i /\ FiHasFileSource(fiParts'[r.message][i])) =>
             fiParts'[r.message][i].type = "file" /\ fiParts'[r.message][i].file \notin fiKnown'
  PROVE  /\ fiAt' \in [FiRequests -> FiPlaces] /\ \A q \in FiRequests \ {r} : fiAt'[q] = fiAt[q]
         /\ FiAtOf(r)' /\ FiNeedOf(r)'
<1> DEFINE j == fiAt[r].i + 1
           at == [fiAt[r] EXCEPT !.phase = "walk", !.i = j]
<1>1. fiAt' = [fiAt EXCEPT ![r] = at] /\ fiAt \in [FiRequests -> FiPlaces] /\ fiAt[r] \in FiPlaces
  BY FiAtType DEF FiAdvance, FiPlaces
<1>2. at \in FiPlaces /\ at.i = fiAt[r].i + 1 /\ at.phase = "walk" /\ fiAt[r].i \in Nat
  <2>1. fiAt[r].i \in Nat
    BY <1>1 DEF FiPlaces
  <2>2. j \in Nat
    BY <2>1
  <2> HIDE DEF j
  <2>3. at \in FiPlaces /\ at.i = j /\ at.phase = "walk"
    BY <1>1, <2>2 DEF FiPlaces, FiPhases
  <2> QED BY <2>1, <2>3 DEF j
<1> HIDE DEF at
<1>3. fiAt' \in [FiRequests -> FiPlaces] /\ fiAt'[r] = at /\ \A q \in FiRequests \ {r} : fiAt'[q] = fiAt[q]
  BY <1>1, <1>2
<1>4. FiAtOf(r)'
  <2> SUFFICES ASSUME NEW i \in DOMAIN FiMessages[r.message], i < fiAt[r].i + 1, FiHasFileSource(fiParts'[r.message][i])
        PROVE  fiParts'[r.message][i].type = "file" /\ fiParts'[r.message][i].file \notin fiKnown'
    BY <1>2, <1>3 DEF FiAtOf
  <2>1. i \in Nat
    BY FiMessageShape
  <2> QED BY <1>2, <2>1
<1>5. FiNeedOf(r)'
  BY <1>2, <1>3 DEF FiNeedOf
<1> QED BY <1>3, <1>4, <1>5

LEMMA FiPassKeeps == ASSUME FiInv, NEW r \in FiRequests, FiPass(r) PROVE FiInv'
<1> USE DEF FiPass
<1>1. fiAt \in [FiRequests -> FiPlaces] /\ fiAt[r] \in FiPlaces /\ FiAtOf(r) /\ FiPartsKept
  BY FiAtType DEF FiInv
<1>2. Len(fiParts[r.message]) = Len(FiMessages[r.message])
  BY <1>1, FiMessageShape
<1>3. CASE fiAt[r].i > Len(fiParts[r.message]) /\ fiAt' = [fiAt EXCEPT ![r].phase = "sent"]
  <2> DEFINE at == [fiAt[r] EXCEPT !.phase = "sent"]
  <2>1. fiAt' = [fiAt EXCEPT ![r] = at]
    BY <1>3
  <2>2. at \in FiPlaces /\ at.i = fiAt[r].i /\ at.phase = "sent"
    BY <1>1 DEF FiPlaces, FiPhases
  <2> HIDE DEF at
  <2>3. fiAt' \in [FiRequests -> FiPlaces] /\ fiAt'[r] = at /\ \A q \in FiRequests \ {r} : fiAt'[q] = fiAt[q]
    BY <1>1, <2>1, <2>2
  <2>4. FiAtOf(r)'
    BY <1>1, <1>2, <1>3, <2>2, <2>3 DEF FiAtOf
  <2>5. FiNeedOf(r)'
    BY <2>2, <2>3 DEF FiNeedOf
  <2> QED BY <2>3, <2>4, <2>5, FiMoves
<1>4. CASE /\ fiAt[r].i <= Len(fiParts[r.message])
           /\ FiHasFileSource(FiPart(r)) => (FiPart(r).type = "file" /\ FiPart(r).file \notin fiKnown)
           /\ FiAdvance(r)
  <2>1. fiParts' = fiParts /\ fiKnown' = fiKnown /\ fiAt[r].i \in Nat
    BY <1>1 DEF FiPlaces
  <2>2. ASSUME NEW i \in DOMAIN FiMessages[r.message], i <= fiAt[r].i, FiHasFileSource(fiParts'[r.message][i])
        PROVE  fiParts'[r.message][i].type = "file" /\ fiParts'[r.message][i].file \notin fiKnown'
    <3>1. i \in Nat
      BY FiMessageShape
    <3>2. CASE i = fiAt[r].i
      BY <1>4, <2>1, <2>2, <3>2 DEF FiPart
    <3>3. CASE i < fiAt[r].i
      BY <1>1, <1>4, <2>1, <2>2, <3>3 DEF FiAtOf
    <3> QED BY <2>1, <2>2, <3>1, <3>2, <3>3
  <2>3. /\ fiAt' \in [FiRequests -> FiPlaces] /\ \A q \in FiRequests \ {r} : fiAt'[q] = fiAt[q]
        /\ FiAtOf(r)' /\ FiNeedOf(r)'
    <3> HIDE DEF FiHasFileSource
    <3>1. fiAt[r].phase # "idle" OBVIOUS
    <3> QED BY <1>4, <2>2, <3>1, FiAdvanced
  <2> QED BY <2>3, FiMoves
<1> QED BY <1>3, <1>4

(* Out, with an error.                                                     *)
LEMMA FiRejected ==
  ASSUME FiInv, NEW r \in FiRequests, FiReject(r)
  PROVE  /\ fiAt' \in [FiRequests -> FiPlaces] /\ \A q \in FiRequests \ {r} : fiAt'[q] = fiAt[q]
         /\ fiAt[r].phase # "idle" => FiAtOf(r)' /\ FiNeedOf(r)'
<1> DEFINE at == [fiAt[r] EXCEPT !.phase = "rejected"]
<1>1. fiAt' = [fiAt EXCEPT ![r] = at] /\ fiAt \in [FiRequests -> FiPlaces] /\ fiAt[r] \in FiPlaces /\ FiAtOf(r)
  BY FiAtType DEF FiReject
<1>2. at \in FiPlaces /\ at.i = fiAt[r].i /\ at.phase = "rejected"
  BY <1>1 DEF FiPlaces, FiPhases
<1> HIDE DEF at
<1>3. fiAt' \in [FiRequests -> FiPlaces] /\ fiAt'[r] = at /\ \A q \in FiRequests \ {r} : fiAt'[q] = fiAt[q]
  BY <1>1, <1>2
<1> QED BY <1>1, <1>2, <1>3 DEF FiAtOf, FiNeedOf

LEMMA FiUploadFailsKeeps == ASSUME FiInv, NEW r \in FiRequests, FiUploadFails(r) PROVE FiInv'
<1>1. FiReject(r) /\ fiAt[r].phase # "idle" /\ fiParts' = fiParts
  BY DEF FiUploadFails, FiReject
<1>2. /\ fiAt' \in [FiRequests -> FiPlaces] /\ \A q \in FiRequests \ {r} : fiAt'[q] = fiAt[q]
      /\ FiAtOf(r)' /\ FiNeedOf(r)'
  BY <1>1, FiRejected
<1> QED BY <1>1, <1>2, FiMoves DEF FiUploadFails

LEMMA FiRemoveKeeps == ASSUME FiInv, NEW f \in FiFiles, FiRemove(f) PROVE FiInv'
<1> USE DEF FiRemove
<1>1. FiUploadsKept' /\ FiRemoteKept' /\ FiDeletingKept' /\ FiNoNeedlessUpload'
  <2>1. FiUploadsKept /\ FiRemoteKept /\ FiDeletingKept /\ FiNoNeedlessUpload
    BY DEF FiInv
  <2>2. UNCHANGED <<fiClock, fiUploads, fiRemote, fiDeleting>> OBVIOUS
  <2> QED BY <2>1, <2>2, FiStoreStays
<1>2. FiPartsKept'
  <2>1. FiPartsKept /\ fiParts' = fiParts
    BY DEF FiInv
  <2> QED BY <2>1 DEF FiPartsKept
<1>3. FiPartsStep /\ FiKnownStep
  BY DEF FiPartsStep, FiKnownStep
<1>4. FiAtKept'
  <2>1. FiAtKept /\ FiPartsKept /\ fiAt' \in [FiRequests -> FiPlaces]
    BY DEF FiInv, FiAtKept
  <2>2. \A q \in FiRequests \ {} : fiAt'[q] = fiAt[q] OBVIOUS
  <2>3. \A q \in FiRequests \cap {} : FiAtOf(q)' OBVIOUS
  <2> QED BY <1>3, <2>1, <2>2, <2>3, FiAtFrame
<1>5. FiBegunInNeed'
  BY DEF FiInv, FiBegunInNeed, FiNeedOf, FiIsCopy, FiUseless
<1>6. FiRefsKept'
  BY DEF FiInv, FiRefsKept, FiRefOf
<1>7. FiTypes'
  BY DEF FiInv, FiTypes
<1> QED BY <1>1, <1>2, <1>4, <1>5, <1>6, <1>7 DEF FiInv

LEMMA FiTickKeeps == ASSUME FiInv, FiTick PROVE FiInv'
<1> USE DEF FiTick
<1>1. FiPartsKept'
  BY DEF FiInv, FiPartsKept
<1>2. FiAtKept'
  BY DEF FiInv, FiAtKept, FiAtOf
<1>3. FiBegunInNeed'
  BY DEF FiInv, FiBegunInNeed, FiNeedOf, FiIsCopy, FiUseless
<1>4. FiRefsKept'
  BY DEF FiInv, FiRefsKept, FiRefOf
<1>5. FiTypes'
  BY FiAssumption DEF FiInv, FiTypes
<1>6. FiDeletingKept' /\ FiNoNeedlessUpload'
  BY DEF FiInv, FiDeletingKept, FiIsCopy, FiNoNeedlessUpload
<1>7. FiRemoteKept /\ FiUploadsKept /\ fiClock \in Nat /\ FiLifetime \in Nat
  BY FiAssumption DEF FiInv, FiTypes
<1>8. \A n \in 1 .. Len(fiRemote) : fiRemote[n].expires \in Int /\ fiRemote[n].provider \in FiAdapters
  BY <1>7, FiCopyType DEF FiCopies
<1>9. \A n \in 1 .. Len(fiRemote) : (FiExpiry(fiRemote[n].provider) = -1 <=> FiExpiry(fiRemote[n].provider)' = -1)
  BY <1>7, <1>8, FiShapes DEF FiExpiry, FiUploadGoogle, FiUploadOpenAI, FiUploadAnthropic, FiUploadXAI
<1>10. FiRemoteKept'
  <2> SUFFICES \A n \in 1 .. Len(fiRemote) : /\ fiRemote[n].expires = -1 <=> FiExpiry(fiRemote[n].provider)' = -1
                                             /\ fiRemote[n].expires <= fiClock' + FiLifetime
    BY <1>7 DEF FiRemoteKept
  <2> QED BY <1>7, <1>8, <1>9 DEF FiRemoteKept
<1>11. FiUploadsKept'
  <2>1. \A n \in 1 .. Len(fiRemote) : FiExpired(n) => FiExpired(n)'
    BY <1>7, <1>8 DEF FiExpired
  <2>2. \A n, k, p : FiIsCopy(n, k, p)' = FiIsCopy(n, k, p)
    BY DEF FiIsCopy
  <2>3. UNCHANGED <<fiUploads, fiRemote, fiDeleting>> OBVIOUS
  <2> HIDE DEF FiTick
  <2> QED BY <1>7, <2>1, <2>2, <2>3 DEF FiUploadsKept
<1> QED BY <1>1, <1>2, <1>3, <1>4, <1>5, <1>6, <1>10, <1>11 DEF FiInv

(* What is left to keep when no copy and no deletion changes.              *)
FiWalkKept == FiPartsKept /\ FiAtKept /\ FiRefsKept /\ FiBegunInNeed

LEMMA FiReplaced ==
  ASSUME FiInv, NEW r \in FiRequests, fiAt[r].phase \in {"walk", "ref"}, fiAt[r].i \in DOMAIN FiMessages[r.message],
         NEW part, part.file = FiMessages[r.message][fiAt[r].i].file, ~FiHasFileSource(part),
         FiIsRef(part) => FiRefOf(part),
         FiReplace(r, part), FiAdvance(r), FiKnownStep, UNCHANGED <<fiRemote, fiDeleting>>
  PROVE  FiWalkKept'
<1> DEFINE m == r.message
           i == fiAt[r].i
<1>1. m \in DOMAIN FiMessages /\ i \in DOMAIN FiMessages[m] /\ FiPartsKept
  BY FiMessageShape DEF FiInv
<1>2. FiPut(m, i, part)
  BY DEF FiReplace, FiPut
<1>3. FiPartsKept' /\ \A l \in DOMAIN FiMessages : \A j \in DOMAIN FiMessages[l] :
                        fiParts'[l][j] = IF l = m /\ j = i THEN part ELSE fiParts[l][j]
  <2> HIDE DEF m, i
  <2>1. part.file = FiMessages[m][i].file
    BY DEF m, i
  <2> QED BY <1>1, <1>2, <2>1, FiReplaceKeeps
<1>4. FiPartsStep
  <2> SUFFICES ASSUME NEW l \in DOMAIN FiMessages, NEW j \in DOMAIN FiMessages[l]
        PROVE  fiParts'[l][j] = fiParts[l][j] \/ ~FiHasFileSource(fiParts'[l][j])
    BY DEF FiPartsStep
  <2>1. fiParts'[l][j] = part \/ fiParts'[l][j] = fiParts[l][j]
    BY <1>3
  <2> HIDE DEF FiHasFileSource
  <2> QED BY <2>1
<1>5. fiParts'[m][i] = part
  BY <1>1, <1>3
<1>6. ASSUME NEW j \in DOMAIN FiMessages[m], j <= i, FiHasFileSource(fiParts'[m][j])
      PROVE  fiParts'[m][j].type = "file" /\ fiParts'[m][j].file \notin fiKnown'
  <2>1. j # i
    BY <1>5, <1>6 DEF m, i
  <2>2. j < i
    <3>1. j \in Int /\ i \in Int
      BY <1>1, FiMessageShape
    <3> QED BY <1>6, <2>1, <3>1
  <2>3. FiAtOf(r)
    BY FiAtType
  <2>4. FiHasFileSource(fiParts[m][j]) => fiParts[m][j].type = "file" /\ fiParts[m][j].file \notin fiKnown
    BY <2>2, <2>3 DEF FiAtOf
  <2> HIDE DEF FiHasFileSource, m, i
  <2> QED BY <1>1, <1>4, <1>6, <2>4, FiPassedStays
<1>7. /\ fiAt' \in [FiRequests -> FiPlaces] /\ \A q \in FiRequests \ {r} : fiAt'[q] = fiAt[q]
      /\ FiAtOf(r)' /\ FiNeedOf(r)'
  <2> HIDE DEF FiHasFileSource
  <2>1. \A j \in DOMAIN FiMessages[r.message] :
           (j <= fiAt[r].i /\ FiHasFileSource(fiParts'[r.message][j])) =>
             fiParts'[r.message][j].type = "file" /\ fiParts'[r.message][j].file \notin fiKnown'
    BY <1>6
  <2>2. fiAt[r].phase # "idle" OBVIOUS
  <2> QED BY <2>1, <2>2, FiAdvanced
<1>8. FiAtKept'
  <2>1. FiAtKept
    BY DEF FiInv
  <2>2. \A q \in FiRequests \cap {r} : FiAtOf(q)'
    BY <1>7
  <2> QED BY <1>1, <1>4, <1>7, <2>1, <2>2, FiAtFrame
<1>9. FiBegunInNeed'
  BY <1>7, FiNeedStays
<1>10. FiRefsKept'
  <2>1. \A l \in DOMAIN FiMessages : \A j \in DOMAIN FiMessages[l] :
          fiParts'[l][j] = part \/ fiParts'[l][j] = fiParts[l][j]
    BY <1>3
  <2>2. \A l \in DOMAIN FiMessages : \A j \in DOMAIN FiMessages[l] : FiIsRef(fiParts[l][j]) => FiRefOf(fiParts[l][j])
    BY DEF FiInv, FiRefsKept
  <2>3. fiRemote' = fiRemote OBVIOUS
  <2> SUFFICES ASSUME NEW l \in DOMAIN FiMessages, NEW j \in DOMAIN FiMessages[l], FiIsRef(fiParts'[l][j])
               PROVE  /\ fiParts'[l][j].live /\ fiParts'[l][j].remote \in 1 .. Len(fiRemote)
                      /\ fiRemote[fiParts'[l][j].remote].file = fiParts'[l][j].file
                      /\ fiRemote[fiParts'[l][j].remote].provider = fiParts'[l][j].provider
    BY <2>3 DEF FiRefsKept, FiRefOf
  <2>4. CASE fiParts'[l][j] = part
    BY <2>4 DEF FiRefOf
  <2>5. CASE fiParts'[l][j] = fiParts[l][j]
    BY <2>2, <2>5 DEF FiRefOf
  <2> QED BY <2>1, <2>4, <2>5
<1> QED BY <1>3, <1>8, <1>9, <1>10 DEF FiWalkKept

(* A request that is rejected leaves the parts.                            *)
LEMMA FiRejectedKeeps ==
  ASSUME FiInv, NEW r \in FiRequests, FiReject(r), fiAt[r].phase # "idle", FiKnownStep, UNCHANGED <<fiRemote, fiDeleting>>
  PROVE  FiWalkKept'
<1>1. fiParts' = fiParts
  BY DEF FiReject
<1>2. FiPartsKept'
  BY <1>1 DEF FiInv, FiPartsKept
<1>3. FiPartsStep
  BY <1>1 DEF FiPartsStep
<1>4. /\ fiAt' \in [FiRequests -> FiPlaces] /\ \A q \in FiRequests \ {r} : fiAt'[q] = fiAt[q]
      /\ FiAtOf(r)' /\ FiNeedOf(r)'
  BY FiRejected
<1>5. FiAtKept'
  <2>1. FiAtKept /\ FiPartsKept
    BY DEF FiInv
  <2>2. \A q \in FiRequests \cap {r} : FiAtOf(q)'
    BY <1>4
  <2> QED BY <1>3, <1>4, <2>1, <2>2, FiAtFrame
<1>6. FiBegunInNeed'
  BY <1>4, FiNeedStays
<1>7. FiRefsKept'
  BY <1>1 DEF FiInv, FiRefsKept, FiRefOf
<1> QED BY <1>2, <1>5, <1>6, <1>7 DEF FiWalkKept

LEMMA FiInlineKeeps ==
  ASSUME FiInv, NEW r \in FiRequests, fiAt[r].phase \in {"walk", "ref"}, fiAt[r].i \in DOMAIN FiMessages[r.message],
         NEW f, f = FiMessages[r.message][fiAt[r].i].file, FiInline(r, f), FiKnownStep, UNCHANGED <<fiRemote, fiDeleting>>
  PROVE  FiWalkKept'
<1>1. CASE FiReject(r)
  BY <1>1, FiRejectedKeeps
<1>2. CASE FiReplace(r, [type |-> "inline", file |-> f]) /\ FiAdvance(r)
  <2> DEFINE part == [type |-> "inline", file |-> f]
  <2>1. part.file = FiMessages[r.message][fiAt[r].i].file /\ ~FiHasFileSource(part) /\ ~FiIsRef(part)
    BY DEF FiHasFileSource, FiIsRef
  <2>2. FiReplace(r, part) /\ FiAdvance(r)
    BY <1>2
  <2> HIDE DEF part
  <2> QED BY <2>1, <2>2, FiReplaced
<1> QED BY <1>1, <1>2 DEF FiInline

(* A reference is taken from what is recorded, if that is available.       *)
LEMMA FiTakeRefKeeps ==
  ASSUME FiInv, FiToldKept, NEW r \in FiRequests, fiAt[r].phase \in {"walk", "ref"}, fiAt[r].i \in DOMAIN FiMessages[r.message],
         NEW f, f = FiMessages[r.message][fiAt[r].i].file, NEW k \in FiKeys, f = FiFileOf(k),
         FiTakeRef(r, f, fiUploads[k][r.provider]), FiKnownStep, UNCHANGED <<fiRemote, fiDeleting>>
  PROVE  FiWalkKept'
<1> DEFINE u == fiUploads[k][r.provider]
           part == [type |-> "ref", file |-> f, provider |-> r.provider, remote |-> u.remote,
                    live |-> ~FiExpired(u.remote) /\ (fiRemote[u.remote].gone => ~FiToldGone(u.remote, fiDeleting))]
<1>1. CASE FiAvailable(u) /\ FiReplace(r, part) /\ FiAdvance(r)
  <2>1. r.provider \in FiProviders
    BY FiMessageShape
  <2>2. u.status = "uploaded" /\ ~FiExpired(u.remote)
    BY <1>1 DEF FiAvailable
  <2>3. u.remote \in 1 .. Len(fiRemote) /\ FiIsCopy(u.remote, k, r.provider)
    BY <2>1, <2>2 DEF FiInv, FiUploadsKept
  <2>7. ~FiToldGone(u.remote, fiDeleting)
    <3> SUFFICES ASSUME NEW d \in 1 .. Len(fiDeleting), fiDeleting[d].remote = u.remote, fiDeleting[d].at = "answered" PROVE FALSE
      BY DEF FiToldGone
    <3>1. fiDeleting[d].key = k /\ fiDeleting[d].provider = r.provider
      BY <2>3 DEF FiInv, FiDeletingKept, FiIsCopy
    <3> QED BY <2>2, <3>1 DEF FiToldKept
  <2>4. fiRemote[u.remote].file = f /\ fiRemote[u.remote].provider = r.provider
    BY <2>3 DEF FiInv, FiRemoteKept, FiIsCopy
  <2>5. part.file = FiMessages[r.message][fiAt[r].i].file /\ ~FiHasFileSource(part)
    BY DEF FiHasFileSource
  <2>6. FiRefOf(part)
    BY <2>2, <2>3, <2>4, <2>7 DEF FiRefOf
  <2> HIDE DEF part, u
  <2> QED BY <1>1, <2>5, <2>6, FiReplaced
<1>2. CASE FiInline(r, f)
  BY <1>2, FiInlineKeeps
<1> QED BY <1>1, <1>2 DEF FiTakeRef

LEMMA FiReferredKeeps == ASSUME FiInv, FiToldKept, NEW r \in FiRequests, FiReferred(r) PROVE FiInv'
<1> DEFINE k == fiAt[r].key
           f == fiAt[r].file
<1>1. fiAt[r].phase = "ref" /\ FiAtOf(r) /\ r.provider \in FiProviders
  BY FiAtType, FiMessageShape DEF FiReferred
<1>2. k \in FiKeys /\ fiAt[r].i \in DOMAIN FiMessages[r.message] /\ f = FiMessages[r.message][fiAt[r].i].file /\ f = FiFileOf(k)
  BY <1>1 DEF FiAtOf
<1>3. /\ fiUploads' = [fiUploads EXCEPT ![k][r.provider] = FiMarked(fiUploads[k][r.provider])]
      /\ FiTakeRef(r, f, fiUploads[k][r.provider])
      /\ UNCHANGED <<fiClock, fiKnown, fiRemote, fiDeleting>>
  BY DEF FiReferred
<1> HIDE DEF k, f
<1>4. FiKnownStep
  BY <1>3 DEF FiKnownStep
<1>5. FiWalkKept'
  BY <1>1, <1>2, <1>3, <1>4, FiTakeRefKeeps
<1>6. FiUploadsKept'
  <2>1. FiUploadsKept /\ FiRemoteKept
    BY DEF FiInv
  <2> QED BY <1>1, <1>2, <1>3, <2>1, FiMarkKeeps
<1>7. FiRemoteKept' /\ FiDeletingKept' /\ FiNoNeedlessUpload'
  BY <1>3, FiCopiesStay DEF FiInv
<1>8. FiTypes'
  BY <1>3 DEF FiInv, FiTypes
<1> QED BY <1>5, <1>6, <1>7, <1>8 DEF FiInv, FiWalkKept

LEMMA FiResolveKeeps == ASSUME FiInv, FiToldKept, NEW r \in FiRequests, FiResolve(r) PROVE FiInv'
<1> DEFINE k == FiKey(r)
           f == FiPart(r).file
           u == fiUploads[k][r.provider]
           d == FiDecide(f, r.provider, u)
           m == r.message
           i == fiAt[r].i
<1>1. fiAt[r].phase = "walk" /\ FiAtOf(r) /\ r.provider \in FiProviders /\ FiPartsKept /\ fiAt[r] \in FiPlaces
  BY FiAtType, FiMessageShape DEF FiResolve, FiInv
<1>2. i \in DOMAIN FiMessages[m] /\ m \in DOMAIN FiMessages
  <2>1. i <= Len(FiMessages[m]) /\ i > 0 /\ i \in Nat
    BY <1>1, FiMessageShape DEF FiResolve, FiAtOf, FiPlaces
  <2> QED BY <2>1, FiMessageShape
<1>3. FiHasFileSource(FiPart(r)) /\ (FiPart(r).type = "file" => f \in fiKnown)
  BY DEF FiResolve
<1>4. k \in FiKeys /\ f = FiFileOf(k)
  BY <1>1, <1>2, <1>3, FiKeyOf
<1>5. f = FiMessages[m][i].file
  BY <1>1, <1>2 DEF FiPartsKept, FiPart
<1>6. /\ fiKnown' = fiKnown \cup {k} /\ fiUploads' = [fiUploads EXCEPT ![k][r.provider] = FiMarked(u)]
      /\ UNCHANGED <<fiClock, fiRemote, fiDeleting>>
  BY DEF FiResolve
<1>7. \/ d = "skip" /\ FiReplace(r, [type |-> "skipped", file |-> f]) /\ FiAdvance(r)
      \/ d = "url" /\ FiReplace(r, [type |-> "url", file |-> f]) /\ FiAdvance(r)
      \/ FiInline(r, f)
      \/ FiTakeRef(r, f, u)
      \/ /\ r.provider \in FiAdapters /\ ~FiAvailable(u)
         /\ fiAt' = [fiAt EXCEPT ![r].phase = "upload", ![r].began = Len(fiRemote), ![r].startedAt = fiClock,
                                 ![r].key = k, ![r].file = f]
         /\ UNCHANGED fiParts
  BY DEF FiResolve
<1>8. FiKnownStep
  <2> SUFFICES ASSUME NEW g \in FiFiles, g = k PROVE g \in fiKnown
    BY <1>6 DEF FiKnownStep
  <2>1. CASE FiPart(r).type = "file"
    BY <1>3, <2>1 DEF FiKey
  <2>2. CASE FiPart(r).type # "file"
    <3>1. k = [owner |-> r.id, part |-> i]
      BY <2>2 DEF FiKey
    <3> QED BY <3>1, FiShapes
  <2> QED BY <2>1, <2>2
<1>9. FiUploadsKept'
  <2>1. FiUploadsKept /\ FiRemoteKept
    BY DEF FiInv
  <2> HIDE DEF k
  <2> QED BY <1>1, <1>4, <1>6, <2>1, FiMarkKeeps
<1>10. FiRemoteKept' /\ FiDeletingKept' /\ FiNoNeedlessUpload'
  BY <1>6, FiCopiesStay DEF FiInv
<1>11. FiTypes'
  BY <1>4, <1>6 DEF FiInv, FiTypes
<1>12. ASSUME NEW part, part.file = f, part.type \in {"skipped", "url"}, FiReplace(r, part), FiAdvance(r)
       PROVE  FiWalkKept'
  <2>1. part.file = FiMessages[r.message][fiAt[r].i].file /\ ~FiHasFileSource(part) /\ ~FiIsRef(part)
    BY <1>5, <1>12 DEF FiHasFileSource, FiIsRef
  <2> QED BY <1>1, <1>2, <1>6, <1>8, <1>12, <2>1, FiReplaced
<1>13. CASE FiReplace(r, [type |-> "skipped", file |-> f]) /\ FiAdvance(r)
  <2> DEFINE part == [type |-> "skipped", file |-> f]
  <2>1. part.file = f /\ part.type \in {"skipped", "url"} /\ FiReplace(r, part) /\ FiAdvance(r)
    BY <1>13
  <2> HIDE DEF part
  <2> QED BY <1>9, <1>10, <1>11, <1>12, <2>1 DEF FiInv, FiWalkKept
<1>14. CASE FiReplace(r, [type |-> "url", file |-> f]) /\ FiAdvance(r)
  <2> DEFINE part == [type |-> "url", file |-> f]
  <2>1. part.file = f /\ part.type \in {"skipped", "url"} /\ FiReplace(r, part) /\ FiAdvance(r)
    BY <1>14
  <2> HIDE DEF part
  <2> QED BY <1>9, <1>10, <1>11, <1>12, <2>1 DEF FiInv, FiWalkKept
<1>15. CASE FiInline(r, f)
  <2>1. FiWalkKept'
    <3> HIDE DEF f
    <3> QED BY <1>1, <1>2, <1>5, <1>6, <1>8, <1>15, FiInlineKeeps
  <2> QED BY <1>9, <1>10, <1>11, <2>1 DEF FiInv, FiWalkKept
<1>16. CASE FiTakeRef(r, f, u)
  <2>1. FiWalkKept'
    <3> HIDE DEF f, k
    <3> QED BY <1>1, <1>2, <1>4, <1>5, <1>6, <1>8, <1>16, FiTakeRefKeeps
  <2> QED BY <1>9, <1>10, <1>11, <2>1 DEF FiInv, FiWalkKept
<1>17. CASE /\ r.provider \in FiAdapters /\ ~FiAvailable(u)
            /\ fiAt' = [fiAt EXCEPT ![r].phase = "upload", ![r].began = Len(fiRemote), ![r].startedAt = fiClock,
                                    ![r].key = k, ![r].file = f]
            /\ UNCHANGED fiParts
  <2>1. /\ FiUploadsKept /\ FiRemoteKept /\ FiDeletingKept /\ FiTypes /\ FiPartsKept /\ FiAtKept /\ FiBegunInNeed
    BY DEF FiInv
  <2> DEFINE at == [fiAt[r] EXCEPT !.phase = "upload", !.began = Len(fiRemote), !.startedAt = fiClock, !.key = k, !.file = f]
  <2>2. fiAt' = [fiAt EXCEPT ![r] = at] /\ fiAt \in [FiRequests -> FiPlaces] /\ fiAt[r] \in FiPlaces
    BY <1>17, FiAtType
  <2>3. Len(fiRemote) \in Nat /\ fiClock \in Nat
    BY <2>1, FiCopyType, FiAssumption DEF FiTypes
  <2>4. /\ at \in FiPlaces /\ at.phase = "upload" /\ at.i = i /\ at.began = Len(fiRemote) /\ at.startedAt = fiClock
        /\ at.key = k /\ at.file = f
    <3> HIDE DEF k, f
    <3> QED BY <1>4, <2>2, <2>3 DEF FiPlaces, FiPhases
  <2> HIDE DEF at, k, f
  <2>5. fiAt' \in [FiRequests -> FiPlaces] /\ fiAt'[r] = at /\ \A q \in FiRequests \ {r} : fiAt'[q] = fiAt[q]
    BY <2>2, <2>4
  <2>6. FiPartsStep
    BY <1>17 DEF FiPartsStep
  <2>7. FiAtOf(r)'
    <3>1. /\ at.i > 0
          /\ \A j \in DOMAIN FiMessages[m] :
               (j < at.i /\ FiHasFileSource(fiParts[m][j])) => fiParts[m][j].type = "file" /\ fiParts[m][j].file \notin fiKnown
      BY <1>1, <2>4 DEF FiAtOf
    <3>2. \A j \in DOMAIN FiMessages[m] :
            (j < at.i /\ FiHasFileSource(fiParts'[m][j])) => fiParts'[m][j].type = "file" /\ fiParts'[m][j].file \notin fiKnown'
      <4> HIDE DEF FiHasFileSource
      <4> SUFFICES ASSUME NEW j \in DOMAIN FiMessages[m], j < at.i, FiHasFileSource(fiParts'[m][j])
            PROVE  fiParts'[m][j].type = "file" /\ fiParts'[m][j].file \notin fiKnown'
        OBVIOUS
      <4> HIDE DEF m
      <4> QED BY <1>1, <1>2, <1>8, <2>6, <3>1, FiPassedStays
    <3>3. /\ fiAt'[r].phase = "upload" /\ fiAt'[r].i = at.i /\ fiAt'[r].key = k /\ fiAt'[r].file = f
          /\ r.provider \in FiAdapters
      BY <1>17, <2>4, <2>5
    <3>4. at.i \in DOMAIN FiMessages[m] /\ k \in FiKeys /\ f = FiFileOf(k) /\ f = FiMessages[m][at.i].file
      BY <1>2, <1>4, <1>5, <2>4
    <3> QED BY <3>1, <3>2, <3>3, <3>4 DEF FiAtOf
  <2>8. FiAtKept'
    <3>1. \A q \in FiRequests \cap {r} : FiAtOf(q)'
      BY <2>7
    <3> QED BY <1>8, <2>1, <2>5, <2>6, <3>1, FiAtFrame
  <2>9. ASSUME NEW n \in 1 .. Len(fiRemote), FiIsCopy(n, k, r.provider)
        PROVE  FiUseless(n, fiClock)
    <3>1. /\ u.status # "none" /\ n <= u.remote /\ u.remote \in 1 .. Len(fiRemote) /\ FiIsCopy(u.remote, k, r.provider)
          /\ u.status \in {"none", "uploaded", "expired", "deleted"}
          /\ u.status = "expired" => FiExpired(u.remote)
          /\ u.status = "deleted" => \E e \in 1 .. Len(fiDeleting) : fiDeleting[e].key = k
      BY <1>1, <1>4, <2>1, <2>9 DEF FiUploadsKept
    <3>2. CASE u.status = "deleted"
      BY <2>9, <3>1, <3>2 DEF FiUseless, FiIsCopy
    <3>3. CASE u.status # "deleted"
      <4>1. FiExpired(u.remote)
        BY <1>17, <3>1, <3>3 DEF FiAvailable
      <4>2. fiRemote[n].provider = r.provider /\ fiRemote[u.remote].provider = r.provider
        BY <2>9, <3>1 DEF FiIsCopy
      <4>3. fiRemote[n].expires = -1 <=> fiRemote[u.remote].expires = -1
        BY <2>1, <2>9, <3>1, <4>2 DEF FiRemoteKept
      <4>4. fiRemote[n].expires <= fiRemote[u.remote].expires
        <5>1. fiRemote[n] \in FiCopies /\ fiRemote[n].expires \in Int
          BY <2>1, <2>9, FiCopyType DEF FiCopies
        <5>2. n = u.remote \/ n < u.remote
          BY <3>1
        <5> QED BY <2>1, <2>9, <3>1, <4>2, <5>1, <5>2 DEF FiRemoteKept
      <4>5. fiRemote[n].expires \in Int /\ fiRemote[u.remote].expires \in Int
        BY <2>1, <2>9, <3>1, FiCopyType DEF FiCopies
      <4> QED BY <2>3, <4>1, <4>3, <4>4, <4>5 DEF FiExpired, FiUseless
    <3> QED BY <3>2, <3>3
  <2>10. FiNeedOf(r)'
    <3>1. \A n \in 1 .. Len(fiRemote) : FiIsCopy(n, k, r.provider) => FiUseless(n, fiClock)
      BY <2>9
    <3> QED BY <1>6, <2>3, <2>4, <2>5, <3>1 DEF FiNeedOf, FiIsCopy, FiUseless
  <2>11. FiBegunInNeed'
    BY <1>6, <2>5, <2>10, FiNeedStays
  <2>12. FiPartsKept' /\ FiRefsKept'
    BY <1>6, <1>17 DEF FiInv, FiPartsKept, FiRefsKept, FiRefOf
  <2> QED BY <1>9, <1>10, <1>11, <2>8, <2>11, <2>12 DEF FiInv
<1> QED BY <1>7, <1>13, <1>14, <1>15, <1>16, <1>17

(* A copy lands, the latest of its key at its provider.                    *)
LEMMA FiUploadedKeeps == ASSUME FiInv, NEW r \in FiRequests, FiUploaded(r) PROVE FiInv'
<1> DEFINE k == fiAt[r].key
           p == r.provider
           n == Len(fiRemote) + 1
           copy == [key |-> k, file |-> fiAt[r].file, provider |-> p, began |-> fiAt[r].began,
                    startedAt |-> fiAt[r].startedAt, expires |-> FiExpiry(p), gone |-> FALSE]
           rec == [status |-> "uploaded", remote |-> n]
           at == [fiAt[r] EXCEPT !.phase = "ref"]
<1>1. /\ FiUploadsKept /\ FiRemoteKept /\ FiDeletingKept /\ FiTypes /\ FiPartsKept /\ FiAtKept /\ FiBegunInNeed
      /\ FiNoNeedlessUpload /\ FiRefsKept
  BY DEF FiInv
<1>2. /\ fiAt[r].phase = "upload" /\ fiRemote' = Append(fiRemote, copy) /\ fiUploads' = [fiUploads EXCEPT ![k][p] = rec]
      /\ fiAt' = [fiAt EXCEPT ![r] = at] /\ UNCHANGED <<fiClock, fiKnown, fiParts, fiDeleting>>
  BY DEF FiUploaded
<1>3. /\ fiAt[r] \in FiPlaces /\ fiAt \in [FiRequests -> FiPlaces] /\ FiAtOf(r) /\ p \in FiProviders /\ FiNeedOf(r)
  BY <1>1, FiAtType, FiMessageShape DEF FiBegunInNeed
<1>4. k \in FiKeys /\ p \in FiAdapters /\ fiAt[r].file = FiFileOf(k) /\ fiAt[r].began \in Nat /\ fiAt[r].startedAt \in Nat
  BY <1>2, <1>3 DEF FiAtOf, FiPlaces
<1>5. Len(fiRemote) \in Nat /\ n \in Nat /\ \A m \in 1 .. Len(fiRemote) : fiRemote[m] \in FiCopies
  BY <1>1, FiCopyType
<1>6. fiClock \in Nat /\ FiLifetime \in Nat
  BY <1>1, FiAssumption DEF FiTypes
<1>7. FiExpiry(p) \in Int /\ (FiExpiry(p) = -1 \/ FiExpiry(p) = fiClock + FiLifetime) /\ FiExpiry(p)' = FiExpiry(p)
  BY <1>2, <1>4, <1>6, FiShapes DEF FiExpiry, FiUploadGoogle, FiUploadOpenAI, FiUploadAnthropic, FiUploadXAI
<1>8. copy \in FiCopies
  BY <1>3, <1>4, <1>7 DEF FiCopies
<1>9. /\ copy.key = k /\ copy.file = FiFileOf(k) /\ copy.provider = p /\ copy.began = fiAt[r].began
      /\ copy.startedAt = fiAt[r].startedAt /\ copy.expires = FiExpiry(p) /\ ~copy.gone
  BY <1>4
<1>10. at \in FiPlaces /\ at.phase = "ref" /\ at.i = fiAt[r].i /\ at.key = k /\ at.file = fiAt[r].file
  BY <1>3 DEF FiPlaces, FiPhases
<1>11. rec.status = "uploaded" /\ rec.remote = n OBVIOUS
<1> HIDE DEF copy, at, rec
<1>12. /\ fiRemote' \in Seq(FiCopies) /\ Len(fiRemote') = n /\ fiRemote'[n] = copy
       /\ \A m \in 1 .. Len(fiRemote) : fiRemote'[m] = fiRemote[m]
       /\ \A m \in 1 .. n : m \in 1 .. Len(fiRemote) \/ m = n
  BY <1>1, <1>2, <1>5, <1>8, AppendProperties DEF FiRemoteKept
<1> HIDE DEF n
<1>13. fiAt' \in [FiRequests -> FiPlaces] /\ fiAt'[r] = at /\ \A q \in FiRequests \ {r} : fiAt'[q] = fiAt[q]
  BY <1>2, <1>3, <1>10
<1>14. FiPartsKept' /\ FiTypes'
  BY <1>1, <1>2 DEF FiPartsKept, FiTypes
<1>15. FiAtKept'
  <2>1. FiPartsStep /\ FiKnownStep
    BY <1>2 DEF FiPartsStep, FiKnownStep
  <2>2. FiAtOf(r)'
    BY <1>2, <1>3, <1>10, <1>13 DEF FiAtOf
  <2>3. \A q \in FiRequests \cap {r} : FiAtOf(q)'
    BY <2>2
  <2> QED BY <1>1, <1>13, <2>1, <2>3, FiAtFrame
<1>16. Len(fiRemote') >= Len(fiRemote) /\ Len(fiRemote') \in Nat
  BY <1>5, <1>12 DEF n
<1>17. FiBegunInNeed'
  <2>1. \A q \in FiRequests \cap {r} : FiNeedOf(q)'
    BY <1>10, <1>13 DEF FiNeedOf
  <2>2. \A m \in 1 .. Len(fiRemote) : /\ fiRemote'[m].key = fiRemote[m].key /\ fiRemote'[m].provider = fiRemote[m].provider
                                      /\ fiRemote'[m].expires = fiRemote[m].expires
    BY <1>12
  <2>3. \A d \in 1 .. Len(fiDeleting) : d \in 1 .. Len(fiDeleting') /\ fiDeleting'[d].key = fiDeleting[d].key
    BY <1>2
  <2> QED BY <1>1, <1>13, <1>16, <2>1, <2>2, <2>3, FiNeedFrame
<1>18. \A m \in 1 .. Len(fiRemote) : m \in 1 .. Len(fiRemote') /\ m \in Nat
  BY <1>16
<1>19. FiRefsKept'
  BY <1>1, <1>2, <1>12, <1>18 DEF FiRefsKept, FiRefOf
<1>20. FiDeletingKept'
  BY <1>1, <1>2, <1>12, <1>18 DEF FiDeletingKept, FiIsCopy
<1>21. fiAt[r].began <= Len(fiRemote) /\ fiAt[r].began < n
  BY <1>2, <1>3, <1>4, <1>5 DEF FiNeedOf, n
<1>22. \A m \in 1 .. Len(fiRemote) :
         /\ fiRemote[m].file = FiFileOf(fiRemote[m].key) /\ fiRemote[m].began < m /\ fiRemote[m].began \in Nat
         /\ fiRemote[m].expires = -1 <=> FiExpiry(fiRemote[m].provider) = -1
         /\ fiRemote[m].expires <= fiClock + FiLifetime /\ fiRemote[m].expires \in Int
         /\ fiRemote[m].provider = p => fiRemote[m].expires <= FiExpiry(p)
  <2>1. \A m \in 1 .. Len(fiRemote) :
          /\ fiRemote[m].file = FiFileOf(fiRemote[m].key) /\ fiRemote[m].began < m /\ fiRemote[m].began \in Nat
          /\ fiRemote[m].expires = -1 <=> FiExpiry(fiRemote[m].provider) = -1
          /\ fiRemote[m].expires <= fiClock + FiLifetime /\ fiRemote[m].expires \in Int
    BY <1>1, <1>5 DEF FiRemoteKept, FiCopies
  <2> QED BY <1>6, <1>7, <2>1
<1>23. FiRemoteKept'
  <2>1. \A m \in 1 .. n : /\ fiRemote'[m].file = FiFileOf(fiRemote'[m].key) /\ fiRemote'[m].began < m
                          /\ fiRemote'[m].expires <= fiClock + FiLifetime
    <3> SUFFICES ASSUME NEW m \in 1 .. n
                 PROVE  /\ fiRemote'[m].file = FiFileOf(fiRemote'[m].key) /\ fiRemote'[m].began < m
                        /\ fiRemote'[m].expires <= fiClock + FiLifetime
      OBVIOUS
    <3>1. CASE m \in 1 .. Len(fiRemote)
      BY <1>12, <1>22, <3>1
    <3>2. CASE m = n
      BY <1>6, <1>7, <1>9, <1>12, <1>21, <3>2
    <3> QED BY <1>12, <3>1, <3>2
  <2>2. \A q : FiExpiry(q)' = FiExpiry(q)
    BY <1>2 DEF FiExpiry, FiUploadGoogle, FiUploadOpenAI, FiUploadAnthropic, FiUploadXAI
  <2>3. \A m \in 1 .. n : (fiRemote'[m].expires = -1 <=> FiExpiry(fiRemote'[m].provider) = -1)
    <3> SUFFICES ASSUME NEW m \in 1 .. n PROVE (fiRemote'[m].expires = -1 <=> FiExpiry(fiRemote'[m].provider) = -1)
      OBVIOUS
    <3>1. CASE m \in 1 .. Len(fiRemote)
      <4>1. fiRemote'[m] = fiRemote[m]
        BY <1>12, <3>1
      <4> QED BY <1>22, <3>1, <4>1
    <3>2. CASE m = n
      <4>1. fiRemote'[m] = copy
        BY <1>12, <3>2
      <4> QED BY <1>9, <4>1
    <3> QED BY <1>12, <3>1, <3>2
  <2>4. \A l, m \in 1 .. n : (l < m /\ fiRemote'[l].provider = fiRemote'[m].provider) => fiRemote'[l].expires <= fiRemote'[m].expires
    <3> SUFFICES ASSUME NEW l \in 1 .. n, NEW m \in 1 .. n, l < m, fiRemote'[l].provider = fiRemote'[m].provider
          PROVE  fiRemote'[l].expires <= fiRemote'[m].expires
      OBVIOUS
    <3>1. l \in 1 .. Len(fiRemote) /\ fiRemote'[l] = fiRemote[l]
      BY <1>5, <1>12 DEF n
    <3>2. CASE m \in 1 .. Len(fiRemote)
      <4>1. fiRemote'[m] = fiRemote[m]
        BY <1>12, <3>2
      <4> QED BY <1>1, <3>1, <3>2, <4>1 DEF FiRemoteKept
    <3>3. CASE m = n
      <4>1. fiRemote'[m].provider = p /\ fiRemote'[m].expires = FiExpiry(p)
        BY <1>9, <1>12, <3>3
      <4> QED BY <1>22, <3>1, <4>1
    <3> QED BY <1>12, <3>2, <3>3
  <2>5. fiClock' = fiClock
    BY <1>2
  <2> QED BY <1>12, <2>1, <2>2, <2>3, <2>4, <2>5 DEF FiRemoteKept
<1>24. FiNoNeedlessUpload'
  <2> SUFFICES ASSUME NEW l \in 1 .. n, NEW m \in 1 .. n,
                      fiRemote'[l].key = fiRemote'[m].key, fiRemote'[l].provider = fiRemote'[m].provider, fiRemote'[m].began >= l
               PROVE  \/ fiRemote'[l].expires # -1 /\ fiRemote'[m].startedAt > fiRemote'[l].expires
                      \/ \E d \in 1 .. Len(fiDeleting) : fiDeleting[d].key = fiRemote'[l].key
    BY <1>2, <1>12 DEF FiNoNeedlessUpload
  <2>1. CASE m \in 1 .. Len(fiRemote)
    <3>1. fiRemote'[m] = fiRemote[m]
      BY <1>12, <2>1
    <3>2. l \in 1 .. Len(fiRemote)
      BY <1>5, <1>22, <2>1, <3>1
    <3>3. fiRemote'[l] = fiRemote[l]
      BY <1>12, <3>2
    <3> QED BY <1>1, <2>1, <3>1, <3>2, <3>3 DEF FiNoNeedlessUpload
  <2>2. CASE m = n
    <3>1. fiRemote'[m] = copy
      BY <1>12, <2>2
    <3>2. l \in 1 .. Len(fiRemote)
      BY <1>4, <1>5, <1>9, <1>21, <3>1
    <3>3. fiRemote'[l] = fiRemote[l]
      BY <1>12, <3>2
    <3>4. FiUseless(l, fiAt[r].startedAt)
      BY <1>2, <1>3, <1>9, <3>1, <3>2, <3>3 DEF FiNeedOf, FiIsCopy
    <3> QED BY <1>9, <3>1, <3>3, <3>4 DEF FiUseless
  <2> QED BY <1>12, <2>1, <2>2
<1>25. FiUploadsKept'
  <2> DEFINE Recs == [status : {"none", "uploaded", "expired", "deleted"}, remote : Nat]
  <2>1. rec \in Recs
    BY <1>5 DEF rec
  <2>2. fiUploads \in [FiKeys -> [FiProviders -> Recs]]
    BY <1>1 DEF FiUploadsKept
  <2>3. fiUploads' \in [FiKeys -> [FiProviders -> Recs]]
    BY <1>2, <1>3, <1>4, <2>1, <2>2
  <2>4. \A l \in FiKeys, q \in FiProviders : fiUploads'[l][q] = IF l = k /\ q = p THEN rec ELSE fiUploads[l][q]
    BY <1>2, <2>2
  <2> HIDE DEF k, p
  <2> DEFINE Copy(m, l, q) == fiRemote'[m].key = l /\ fiRemote'[m].provider = q
             Expired(m) == fiRemote'[m].expires # -1 /\ fiClock > fiRemote'[m].expires
  <2>5. \A m \in 1 .. Len(fiRemote) : \A l, q : Copy(m, l, q) <=> FiIsCopy(m, l, q)
    BY <1>12 DEF FiIsCopy
  <2>6. \A l, q : Copy(n, l, q) <=> (l = k /\ q = p)
    BY <1>9, <1>12
  <2>7. \A m \in 1 .. Len(fiRemote) : Expired(m) <=> FiExpired(m)
    BY <1>2, <1>12 DEF FiExpired
  <2>8. n \in 1 .. n
    BY <1>5 DEF n
  <2> SUFFICES ASSUME NEW l \in FiKeys, NEW q \in FiProviders
               PROVE  LET u == fiUploads'[l][q] IN
                        /\ u.status = "none" => u.remote = 0
                        /\ u.status # "none" => u.remote \in 1 .. Len(fiRemote') /\ Copy(u.remote, l, q)
                        /\ u.status = "expired" => Expired(u.remote)
                        /\ u.status = "deleted" => \E d \in 1 .. Len(fiDeleting') : fiDeleting'[d].key = l
                        /\ \A m \in 1 .. Len(fiRemote') : Copy(m, l, q) => u.status # "none" /\ m <= u.remote
    <3>1. fiClock' = fiClock
      BY <1>2
    <3>2. \A m : (fiRemote'[m].expires # -1 /\ fiClock' > fiRemote'[m].expires) = Expired(m)
      BY <3>1
    <3> QED BY <2>3, <3>2 DEF FiUploadsKept, FiIsCopy, FiExpired
  <2> HIDE DEF Copy, Expired
  <2>9. CASE l = k /\ q = p
    <3>1. fiUploads'[l][q] = rec
      BY <2>4, <2>9
    <3>2. \A m \in 1 .. n : m <= n
      BY <1>5
    <3> QED BY <1>11, <1>12, <2>6, <2>8, <2>9, <3>1, <3>2
  <2>10. CASE ~(l = k /\ q = p)
    <3> DEFINE u == fiUploads[l][q]
    <3>1. fiUploads'[l][q] = u
      BY <2>4, <2>10
    <3>2. /\ u.status = "none" => u.remote = 0
          /\ u.status # "none" => u.remote \in 1 .. Len(fiRemote) /\ FiIsCopy(u.remote, l, q)
          /\ u.status = "expired" => FiExpired(u.remote)
          /\ u.status = "deleted" => \E d \in 1 .. Len(fiDeleting) : fiDeleting[d].key = l
          /\ \A m \in 1 .. Len(fiRemote) : FiIsCopy(m, l, q) => u.status # "none" /\ m <= u.remote
      BY <1>1 DEF FiUploadsKept
    <3> HIDE DEF u
    <3>3. u.status # "none" => u.remote \in 1 .. Len(fiRemote') /\ Copy(u.remote, l, q)
      BY <1>18, <2>5, <3>2
    <3>5. u.status = "expired" => Expired(u.remote)
      BY <2>7, <3>2
    <3>6. \A m \in 1 .. Len(fiRemote') : Copy(m, l, q) => u.status # "none" /\ m <= u.remote
      BY <1>12, <2>5, <2>6, <2>10, <3>2
    <3>7. u.status = "deleted" => \E d \in 1 .. Len(fiDeleting') : fiDeleting'[d].key = l
      BY <1>2, <3>2
    <3> QED BY <3>1, <3>2, <3>3, <3>5, <3>6, <3>7
  <2> QED BY <2>9, <2>10
<1> QED BY <1>14, <1>15, <1>17, <1>19, <1>20, <1>23, <1>24, <1>25 DEF FiInv

(* Deletions only become more, and are of copies that landed.              *)
LEMMA FiDeletingGrows ==
  ASSUME FiInv, NEW f \in FiFiles, NEW p \in FiProviders, FiDeleteRemote(f, p)
  PROVE  /\ FiDeletingKept'
         /\ Len(fiDeleting) \in Nat /\ Len(fiDeleting') = Len(fiDeleting) + 1
         /\ \A d \in 1 .. Len(fiDeleting) : d \in 1 .. Len(fiDeleting') /\ fiDeleting'[d] = fiDeleting[d]
         /\ \A d \in 1 .. Len(fiDeleting') : fiDeleting'[d].at = "answered" => d \in 1 .. Len(fiDeleting)
<1> DEFINE u == fiUploads[f][p]
           del == [key |-> f, provider |-> p, remote |-> u.remote, at |-> "asked"]
           Dels == [key : FiFiles, provider : FiProviders, remote : Nat, at : FiOutcomes]
<1>1. fiDeleting' = Append(fiDeleting, del) /\ FiAvailable(u) /\ fiRemote' = fiRemote
  BY DEF FiDeleteRemote
<1>2. f \in FiKeys
  BY DEF FiKeys
<1>3. u.remote \in 1 .. Len(fiRemote) /\ FiIsCopy(u.remote, f, p)
  BY <1>1, <1>2 DEF FiInv, FiUploadsKept, FiAvailable
<1>4. Len(fiRemote) \in Nat
  BY FiCopyType DEF FiInv
<1>5. del \in Dels /\ del.key = f /\ del.provider = p /\ del.remote = u.remote /\ del.at = "asked"
  BY <1>3, <1>4 DEF FiOutcomes
<1> HIDE DEF del, u
<1>6. fiDeleting \in Seq(Dels)
  BY DEF FiInv, FiDeletingKept
<1> HIDE DEF Dels
<1>7. /\ fiDeleting' \in Seq(Dels) /\ Len(fiDeleting') = Len(fiDeleting) + 1 /\ Len(fiDeleting) \in Nat
      /\ fiDeleting'[Len(fiDeleting) + 1] = del /\ \A d \in 1 .. Len(fiDeleting) : fiDeleting'[d] = fiDeleting[d]
  BY <1>1, <1>5, <1>6, AppendProperties, LenProperties
<1>8. \A d \in 1 .. Len(fiDeleting') : d \in 1 .. Len(fiDeleting) \/ d = Len(fiDeleting) + 1
  BY <1>7
<1>9. \A d \in 1 .. Len(fiDeleting') :
        fiDeleting'[d].remote \in 1 .. Len(fiRemote) /\ FiIsCopy(fiDeleting'[d].remote, fiDeleting'[d].key, fiDeleting'[d].provider)
  <2> SUFFICES ASSUME NEW d \in 1 .. Len(fiDeleting')
        PROVE  fiDeleting'[d].remote \in 1 .. Len(fiRemote) /\ FiIsCopy(fiDeleting'[d].remote, fiDeleting'[d].key, fiDeleting'[d].provider)
    OBVIOUS
  <2>1. CASE d \in 1 .. Len(fiDeleting)
    BY <1>7, <2>1 DEF FiInv, FiDeletingKept
  <2>2. CASE d = Len(fiDeleting) + 1
    BY <1>3, <1>5, <1>7, <2>2
  <2> QED BY <1>8, <2>1, <2>2
<1>10. FiDeletingKept'
  BY <1>1, <1>7, <1>9 DEF FiDeletingKept, FiIsCopy, Dels
<1>11. \A d \in 1 .. Len(fiDeleting') : fiDeleting'[d].at = "answered" => d \in 1 .. Len(fiDeleting)
  BY <1>5, <1>7, <1>8
<1> QED BY <1>7, <1>10, <1>11

LEMMA FiDeleteRemoteKeeps == ASSUME FiInv, NEW f \in FiFiles, NEW p \in FiProviders, FiDeleteRemote(f, p) PROVE FiInv'
<1>1. /\ FiDeletingKept' /\ \A d \in 1 .. Len(fiDeleting) : d \in 1 .. Len(fiDeleting') /\ fiDeleting'[d] = fiDeleting[d]
  BY FiDeletingGrows
<1>2. /\ fiUploads' = [fiUploads EXCEPT ![f][p] = FiMarked(fiUploads[f][p])]
      /\ UNCHANGED <<fiClock, fiKnown, fiParts, fiAt, fiRemote>>
  BY DEF FiDeleteRemote
<1>3. f \in FiKeys
  BY DEF FiKeys
<1>4. FiUploadsKept'
  <2>1. FiUploadsKept /\ FiRemoteKept
    BY DEF FiInv
  <2>2. \A d \in 1 .. Len(fiDeleting) : d \in 1 .. Len(fiDeleting') /\ fiDeleting'[d].key = fiDeleting[d].key
    BY <1>1
  <2> QED BY <1>2, <1>3, <2>1, <2>2, FiMarkKeeps
<1>5. FiRemoteKept'
  BY <1>2 DEF FiInv, FiRemoteKept, FiExpiry, FiUploadGoogle, FiUploadOpenAI, FiUploadAnthropic, FiUploadXAI
<1>6. FiPartsKept' /\ FiAtKept' /\ FiTypes' /\ FiRefsKept'
  <2>1. FiPartsKept' /\ FiTypes'
    BY <1>2 DEF FiInv, FiPartsKept, FiTypes
  <2>2. FiAtKept'
    BY <1>2 DEF FiInv, FiAtKept, FiAtOf
  <2>3. FiRefsKept'
    BY <1>2 DEF FiInv, FiRefsKept, FiRefOf
  <2> QED BY <2>1, <2>2, <2>3
<1>7. FiBegunInNeed'
  BY <1>1, <1>2 DEF FiInv, FiBegunInNeed, FiNeedOf, FiIsCopy, FiUseless
<1>8. FiNoNeedlessUpload'
  BY <1>1, <1>2 DEF FiInv, FiNoNeedlessUpload
<1> QED BY <1>1, <1>4, <1>5, <1>6, <1>7, <1>8 DEF FiInv

(* A deletion reaches its copy at the provider; its answer marks what is   *)
(* recorded by then as deleted, be it a later copy; or it fails.           *)
LEMMA FiDeletedKeeps ==
  ASSUME FiInv, NEW d \in 1 .. Len(fiDeleting), FiRemoteDeletes(d) \/ FiDeleted(d) \/ FiDeleteFails(d)
  PROVE  FiInv'
<1> DEFINE del == fiDeleting[d]
           k == del.key
           p == del.provider
           c == del.remote
           Dels == [key : FiFiles, provider : FiProviders, remote : Nat, at : FiOutcomes]
<1>1. /\ FiUploadsKept /\ FiRemoteKept /\ FiDeletingKept /\ FiTypes /\ FiPartsKept /\ FiAtKept /\ FiBegunInNeed
      /\ FiNoNeedlessUpload /\ FiRefsKept
  BY DEF FiInv
<1>2. UNCHANGED <<fiClock, fiKnown, fiParts, fiAt>>
  BY DEF FiRemoteDeletes, FiDeleted, FiDeleteFails
<1>3. fiDeleting \in Seq(Dels) /\ del \in Dels
  BY <1>1, ElementOfSeq DEF FiDeletingKept
<1>5. c \in 1 .. Len(fiRemote) /\ FiIsCopy(c, k, p)
  BY <1>1 DEF FiDeletingKept
<1>6. k \in FiKeys /\ p \in FiProviders
  BY <1>3 DEF FiKeys
<1>4. ASSUME NEW x \in FiOutcomes, fiDeleting' = [fiDeleting EXCEPT ![d].at = x]
      PROVE  /\ fiDeleting' \in Seq(Dels) /\ Len(fiDeleting') = Len(fiDeleting)
             /\ \A e \in 1 .. Len(fiDeleting) : /\ fiDeleting'[e].key = fiDeleting[e].key /\ fiDeleting'[e].provider = fiDeleting[e].provider
                                               /\ fiDeleting'[e].remote = fiDeleting[e].remote
  <2> DEFINE shut == [del EXCEPT !.at = x]
  <2>1. shut \in Dels /\ shut.key = del.key /\ shut.provider = del.provider /\ shut.remote = del.remote
    BY <1>3
  <2>2. fiDeleting' = [fiDeleting EXCEPT ![d] = shut]
    BY <1>4
  <2> HIDE DEF shut, Dels
  <2>3. /\ fiDeleting' \in Seq(Dels) /\ Len(fiDeleting') = Len(fiDeleting)
        /\ \A e \in 1 .. Len(fiDeleting) : fiDeleting'[e] = IF e = d THEN shut ELSE fiDeleting[e]
    BY <1>3, <2>1, <2>2, ExceptSeq
  <2> QED BY <2>1, <2>3
<1>7. /\ fiDeleting' \in Seq(Dels) /\ Len(fiDeleting') = Len(fiDeleting)
      /\ \A e \in 1 .. Len(fiDeleting) : /\ fiDeleting'[e].key = fiDeleting[e].key /\ fiDeleting'[e].provider = fiDeleting[e].provider
                                        /\ fiDeleting'[e].remote = fiDeleting[e].remote
  <2>1. CASE fiDeleting' = fiDeleting
    BY <1>3, <2>1
  <2>2. "answered" \in FiOutcomes /\ "failed" \in FiOutcomes
    BY DEF FiOutcomes
  <2> QED BY <1>4, <2>1, <2>2 DEF FiRemoteDeletes, FiDeleted, FiDeleteFails
<1> HIDE DEF Dels, k, p, c
<1>8. \A e \in 1 .. Len(fiDeleting) : /\ fiDeleting'[e].key = fiDeleting[e].key /\ fiDeleting'[e].provider = fiDeleting[e].provider
                                      /\ fiDeleting'[e].remote = fiDeleting[e].remote
  BY <1>7
<1> DEFINE Same == /\ Len(fiRemote') = Len(fiRemote) /\ fiRemote' \in Seq(FiCopies)
                   /\ \A m \in 1 .. Len(fiRemote) :
                        /\ fiRemote'[m].key = fiRemote[m].key /\ fiRemote'[m].file = fiRemote[m].file
                        /\ fiRemote'[m].provider = fiRemote[m].provider /\ fiRemote'[m].began = fiRemote[m].began
                        /\ fiRemote'[m].startedAt = fiRemote[m].startedAt /\ fiRemote'[m].expires = fiRemote[m].expires
           Marked == fiUploads' = fiUploads \/ fiUploads' = [fiUploads EXCEPT ![k][p].status = "deleted"]
<1>9. Same /\ Marked
  <2>1. Marked
    BY DEF FiRemoteDeletes, FiDeleted, FiDeleteFails, k, p
  <2>2. CASE fiRemote' = fiRemote
    BY <1>1, <2>1, <2>2 DEF FiRemoteKept
  <2>3. CASE fiRemote' = [fiRemote EXCEPT ![del.remote].gone = TRUE]
    <3> DEFINE copy == [fiRemote[c] EXCEPT !.gone = TRUE]
    <3>1. fiRemote' = [fiRemote EXCEPT ![c] = copy]
      BY <2>3 DEF c
    <3>2. fiRemote[c] \in FiCopies /\ fiRemote \in Seq(FiCopies)
      BY <1>1, <1>5, FiCopyType DEF FiRemoteKept
    <3>3. /\ copy \in FiCopies /\ copy.key = fiRemote[c].key /\ copy.file = fiRemote[c].file
          /\ copy.provider = fiRemote[c].provider /\ copy.began = fiRemote[c].began
          /\ copy.startedAt = fiRemote[c].startedAt /\ copy.expires = fiRemote[c].expires
      BY <3>2 DEF FiCopies
    <3> HIDE DEF copy
    <3>4. /\ fiRemote' \in Seq(FiCopies) /\ Len(fiRemote') = Len(fiRemote)
          /\ \A m \in 1 .. Len(fiRemote) : fiRemote'[m] = IF m = c THEN copy ELSE fiRemote[m]
      BY <1>5, <3>1, <3>2, <3>3, ExceptSeq
    <3> QED BY <2>1, <3>3, <3>4
  <2> QED BY <2>2, <2>3 DEF FiRemoteDeletes, FiDeleted, FiDeleteFails
<1> HIDE DEF Same, Marked, del
<1>10. Len(fiRemote) \in Nat
  BY <1>1, FiCopyType
<1>11. FiPartsKept' /\ FiTypes'
  BY <1>1, <1>2 DEF FiPartsKept, FiTypes
<1>12. FiAtKept'
  BY <1>1, <1>2 DEF FiAtKept, FiAtOf
<1>13. FiBegunInNeed'
  <2>1. \A q \in FiRequests \ {} : fiAt'[q] = fiAt[q]
    BY <1>2
  <2>2. \A q \in FiRequests \cap {} : FiNeedOf(q)' OBVIOUS
  <2>3. Len(fiRemote') >= Len(fiRemote) /\ Len(fiRemote') \in Nat
    BY <1>9, <1>10 DEF Same
  <2>4. \A m \in 1 .. Len(fiRemote) : /\ fiRemote'[m].key = fiRemote[m].key /\ fiRemote'[m].provider = fiRemote[m].provider
                                      /\ fiRemote'[m].expires = fiRemote[m].expires
    BY <1>9 DEF Same
  <2>5. \A e \in 1 .. Len(fiDeleting) : e \in 1 .. Len(fiDeleting') /\ fiDeleting'[e].key = fiDeleting[e].key
    BY <1>7, <1>8
  <2> QED BY <1>1, <2>1, <2>2, <2>3, <2>4, <2>5, FiNeedFrame
<1>14. FiRefsKept'
  BY <1>1, <1>2, <1>9 DEF FiRefsKept, FiRefOf, Same
<1>15. FiDeletingKept'
  <2>1. \A e \in 1 .. Len(fiDeleting) :
          /\ fiDeleting[e].remote \in 1 .. Len(fiRemote)
          /\ fiRemote[fiDeleting[e].remote].key = fiDeleting[e].key /\ fiRemote[fiDeleting[e].remote].provider = fiDeleting[e].provider
    BY <1>1 DEF FiDeletingKept, FiIsCopy
  <2>2. \A e \in 1 .. Len(fiDeleting) :
          /\ fiDeleting'[e].remote \in 1 .. Len(fiRemote')
          /\ fiRemote'[fiDeleting'[e].remote].key = fiDeleting'[e].key
          /\ fiRemote'[fiDeleting'[e].remote].provider = fiDeleting'[e].provider
    BY <1>8, <1>9, <2>1 DEF Same
  <2> QED BY <1>7, <2>2 DEF FiDeletingKept, FiIsCopy, Dels
<1>16. FiNoNeedlessUpload'
  <2>1. /\ Len(fiRemote') = Len(fiRemote)
        /\ \A m \in 1 .. Len(fiRemote) :
             /\ fiRemote'[m].key = fiRemote[m].key /\ fiRemote'[m].provider = fiRemote[m].provider
             /\ fiRemote'[m].began = fiRemote[m].began /\ fiRemote'[m].startedAt = fiRemote[m].startedAt
             /\ fiRemote'[m].expires = fiRemote[m].expires
    BY <1>9 DEF Same
  <2>2. FiNoNeedlessUpload /\ \A e \in 1 .. Len(fiDeleting) : e \in 1 .. Len(fiDeleting') /\ fiDeleting'[e].key = fiDeleting[e].key
    BY <1>1, <1>7, <1>8
  <2> QED BY <2>1, <2>2 DEF FiNoNeedlessUpload
<1>17. FiRemoteKept'
  <2>1. \A q : FiExpiry(q)' = FiExpiry(q)
    BY <1>2 DEF FiExpiry, FiUploadGoogle, FiUploadOpenAI, FiUploadAnthropic, FiUploadXAI
  <2>2. \A m \in 1 .. Len(fiRemote) :
          /\ fiRemote'[m].file = FiFileOf(fiRemote'[m].key) /\ fiRemote'[m].began < m
          /\ fiRemote'[m].expires <= fiClock + FiLifetime
    BY <1>1, <1>9 DEF FiRemoteKept, Same
  <2>3. \A m \in 1 .. Len(fiRemote) : (fiRemote'[m].expires = -1 <=> FiExpiry(fiRemote'[m].provider) = -1)
    BY <1>1, <1>9 DEF FiRemoteKept, Same
  <2>4. \A l, m \in 1 .. Len(fiRemote) :
          (l < m /\ fiRemote'[l].provider = fiRemote'[m].provider) => fiRemote'[l].expires <= fiRemote'[m].expires
    BY <1>1, <1>9 DEF FiRemoteKept, Same
  <2> QED BY <1>2, <1>9, <2>1, <2>2, <2>3, <2>4 DEF FiRemoteKept, Same
<1>18. FiUploadsKept'
  <2> DEFINE Recs == [status : {"none", "uploaded", "expired", "deleted"}, remote : Nat]
             Copy(m, l, q) == fiRemote'[m].key = l /\ fiRemote'[m].provider = q
             Expired(m) == fiRemote'[m].expires # -1 /\ fiClock > fiRemote'[m].expires
             rec == [fiUploads[k][p] EXCEPT !.status = "deleted"]
  <2>1. fiUploads \in [FiKeys -> [FiProviders -> Recs]]
    BY <1>1 DEF FiUploadsKept
  <2>2. rec \in Recs /\ rec.status = "deleted" /\ rec.remote = fiUploads[k][p].remote
    <3>1. fiUploads[k][p] \in Recs
      BY <1>6, <2>1
    <3> QED BY <3>1
  <2> HIDE DEF rec
  <2>3. fiUploads' \in [FiKeys -> [FiProviders -> Recs]]
    <3>1. CASE fiUploads' = fiUploads
      BY <2>1, <3>1
    <3>2. CASE fiUploads' = [fiUploads EXCEPT ![k][p].status = "deleted"]
      <4>1. fiUploads' = [fiUploads EXCEPT ![k][p] = rec]
        BY <3>2 DEF rec
      <4> QED BY <1>6, <2>1, <2>2, <4>1
    <3> QED BY <1>9, <3>1, <3>2 DEF Marked
  <2>4. \A m \in 1 .. Len(fiRemote) : \A l, q : Copy(m, l, q) <=> FiIsCopy(m, l, q)
    BY <1>9 DEF FiIsCopy, Same
  <2>5. \A m \in 1 .. Len(fiRemote) : Expired(m) <=> FiExpired(m)
    BY <1>9 DEF FiExpired, Same
  <2> SUFFICES ASSUME NEW l \in FiKeys, NEW q \in FiProviders
               PROVE  LET u == fiUploads'[l][q] IN
                        /\ u.status = "none" => u.remote = 0
                        /\ u.status # "none" => u.remote \in 1 .. Len(fiRemote') /\ Copy(u.remote, l, q)
                        /\ u.status = "expired" => Expired(u.remote)
                        /\ u.status = "deleted" => \E e \in 1 .. Len(fiDeleting') : fiDeleting'[e].key = l
                        /\ \A m \in 1 .. Len(fiRemote') : Copy(m, l, q) => u.status # "none" /\ m <= u.remote
    <3>1. fiClock' = fiClock
      BY <1>2
    <3>2. \A m : (fiRemote'[m].expires # -1 /\ fiClock' > fiRemote'[m].expires) = Expired(m)
      BY <3>1
    <3> QED BY <2>3, <3>2 DEF FiUploadsKept, FiIsCopy, FiExpired
  <2> HIDE DEF Copy, Expired
  <2> DEFINE u == fiUploads[l][q]
             v == fiUploads'[l][q]
  <2>6. /\ u.status = "none" => u.remote = 0
        /\ u.status # "none" => u.remote \in 1 .. Len(fiRemote) /\ FiIsCopy(u.remote, l, q)
        /\ u.status = "expired" => FiExpired(u.remote)
        /\ u.status = "deleted" => \E e \in 1 .. Len(fiDeleting) : fiDeleting[e].key = l
        /\ \A m \in 1 .. Len(fiRemote) : FiIsCopy(m, l, q) => u.status # "none" /\ m <= u.remote
    BY <1>1 DEF FiUploadsKept
  <2>7. (\E e \in 1 .. Len(fiDeleting) : fiDeleting[e].key = l) => \E e \in 1 .. Len(fiDeleting') : fiDeleting'[e].key = l
    BY <1>7, <1>8
  <2>8. Len(fiRemote') = Len(fiRemote)
    BY <1>9 DEF Same
  <2>9. CASE fiUploads' = fiUploads
    <3>1. v = u
      BY <2>9
    <3> HIDE DEF u, v
    <3> QED BY <2>4, <2>5, <2>6, <2>7, <2>8, <3>1 DEF v
  <2>10. CASE fiUploads' = [fiUploads EXCEPT ![k][p].status = "deleted"]
    <3>1. fiUploads' = [fiUploads EXCEPT ![k][p] = rec]
      BY <2>10 DEF rec
    <3>2. CASE l = k /\ q = p
      <4>1. v = rec
        BY <2>1, <3>1, <3>2
      <4>2. \E e \in 1 .. Len(fiDeleting) : fiDeleting[e].key = l
        BY <3>2 DEF k, del
      <4>3. u.status # "none" /\ v.status = "deleted" /\ v.remote = u.remote
        BY <1>5, <2>2, <2>6, <3>2, <4>1
      <4> HIDE DEF u, v
      <4>4. u.remote \in 1 .. Len(fiRemote') /\ Copy(u.remote, l, q)
        BY <2>4, <2>6, <2>8, <4>3
      <4>5. \A m \in 1 .. Len(fiRemote') : Copy(m, l, q) => m <= u.remote
        BY <2>4, <2>6, <2>8
      <4> QED BY <2>7, <4>2, <4>3, <4>4, <4>5 DEF v
    <3>3. CASE ~(l = k /\ q = p)
      <4>1. v = u
        BY <2>1, <3>1, <3>3
      <4> HIDE DEF u, v
      <4>2. u.status # "none" => u.remote \in 1 .. Len(fiRemote') /\ Copy(u.remote, l, q)
        BY <2>4, <2>6, <2>8
      <4>5. \A m \in 1 .. Len(fiRemote') : Copy(m, l, q) => u.status # "none" /\ m <= u.remote
        BY <2>4, <2>6, <2>8
      <4>6. u.status = "expired" => Expired(u.remote)
        BY <2>5, <2>6
      <4> QED BY <2>6, <2>7, <4>1, <4>2, <4>5, <4>6 DEF v
    <3> QED BY <3>2, <3>3
  <2> QED BY <1>9, <2>9, <2>10 DEF Marked
<1> QED BY <1>11, <1>12, <1>13, <1>14, <1>15, <1>16, <1>17, <1>18 DEF FiInv

LEMMA FiInvBegins == FiInit => FiInv
<1> SUFFICES ASSUME FiInit PROVE FiInv OBVIOUS
<1> USE DEF FiInit
<1>1. FiTypes
  BY FiAssumption DEF FiTypes, FiKeys
<1>2. FiPartsKept
  BY FiShapes DEF FiPartsKept
<1>3. \A m \in DOMAIN FiMessages : \A i \in DOMAIN FiMessages[m] : ~FiIsRef(fiParts[m][i])
  BY FiShapes DEF FiIsRef
<1>4. FiAtKept
  <2>1. \A r \in FiRequests : fiAt[r].phase = "idle" /\ fiAt[r] \in FiPlaces
    BY DEF FiPlaces, FiPhases
  <2>2. fiAt \in [FiRequests -> FiPlaces]
    BY <2>1
  <2> QED BY <2>1, <2>2 DEF FiAtKept, FiAtOf
<1>5. FiUploadsKept
  <2>1. \A k \in FiKeys, p \in FiProviders : fiUploads[k][p] = FiNoUpload OBVIOUS
  <2>2. FiNoUpload.status = "none" /\ FiNoUpload.remote = 0 /\ Len(fiRemote) = 0
    BY DEF FiNoUpload
  <2>3. fiUploads \in [FiKeys -> [FiProviders -> [status : {"none", "uploaded", "expired", "deleted"}, remote : Nat]]]
    BY DEF FiNoUpload
  <2> HIDE DEF FiInit
  <2> QED BY <2>1, <2>2, <2>3 DEF FiUploadsKept
<1>6. FiRemoteKept /\ FiDeletingKept /\ FiNoNeedlessUpload
  BY DEF FiRemoteKept, FiDeletingKept, FiNoNeedlessUpload
<1>7. FiBegunInNeed
  BY DEF FiBegunInNeed, FiNeedOf
<1>8. FiRefsKept
  BY <1>3 DEF FiRefsKept
<1> QED BY <1>1, <1>2, <1>4, <1>5, <1>6, <1>7, <1>8 DEF FiInv

LEMMA FiInvStep == FiInv /\ FiToldKept /\ [FiNext]_fiVars => FiInv'
<1> SUFFICES ASSUME FiInv, FiToldKept, [FiNext]_fiVars PROVE FiInv' OBVIOUS
<1>1. CASE UNCHANGED fiVars
  <2>1. UNCHANGED <<fiClock, fiKnown, fiUploads, fiParts, fiAt, fiRemote, fiDeleting>>
    BY <1>1 DEF fiVars
  <2>2. FiUploadsKept' /\ FiRemoteKept' /\ FiDeletingKept' /\ FiNoNeedlessUpload'
    BY <2>1, FiStoreStays DEF FiInv
  <2>3. FiPartsKept' /\ FiTypes'
    BY <2>1 DEF FiInv, FiPartsKept, FiTypes
  <2>4. FiAtKept'
    BY <2>1 DEF FiInv, FiAtKept, FiAtOf
  <2>5. FiBegunInNeed'
    BY <2>1 DEF FiInv, FiBegunInNeed, FiNeedOf, FiIsCopy, FiUseless
  <2>6. FiRefsKept'
    BY <2>1 DEF FiInv, FiRefsKept, FiRefOf
  <2> QED BY <2>2, <2>3, <2>4, <2>5, <2>6 DEF FiInv
<1>2. CASE FiNext
  <2>1. ASSUME NEW r \in FiRequests, FiStart(r) \/ FiPass(r) \/ FiResolve(r) \/ FiUploaded(r) \/ FiUploadFails(r) \/ FiReferred(r)
        PROVE  FiInv'
    BY <2>1, FiStartKeeps, FiPassKeeps, FiResolveKeeps, FiUploadedKeeps, FiUploadFailsKeeps, FiReferredKeeps
  <2>2. ASSUME NEW f \in FiFiles, FiRemove(f) \/ \E p \in FiProviders : FiDeleteRemote(f, p)
        PROVE  FiInv'
    BY <2>2, FiRemoveKeeps, FiDeleteRemoteKeeps
  <2>3. ASSUME NEW d \in 1 .. Len(fiDeleting), FiRemoteDeletes(d) \/ FiDeleted(d) \/ FiDeleteFails(d)
        PROVE  FiInv'
    BY <2>3, FiDeletedKeeps
  <2> QED BY <1>2, <2>1, <2>2, <2>3, FiTickKeeps DEF FiNext
<1> QED BY <1>1, <1>2

(* What is recorded may expire, and no deletion is answered: what was told *)
(* of a copy stays so.                                                     *)
LEMMA FiToldStays ==
  ASSUME FiInv, FiToldKept,
         \A d \in 1 .. Len(fiDeleting') :
           fiDeleting'[d].at = "answered" => d \in 1 .. Len(fiDeleting) /\ fiDeleting'[d] = fiDeleting[d],
         \A k \in FiKeys, p \in FiProviders :
           /\ fiUploads'[k][p].remote = fiUploads[k][p].remote
           /\ fiUploads'[k][p].status = "uploaded" => fiUploads[k][p].status = "uploaded"
  PROVE  FiToldKept'
<1> SUFFICES ASSUME NEW d \in 1 .. Len(fiDeleting'), fiDeleting'[d].at = "answered",
                    fiUploads'[fiDeleting'[d].key][fiDeleting'[d].provider].remote = fiDeleting'[d].remote,
                    fiUploads'[fiDeleting'[d].key][fiDeleting'[d].provider].status = "uploaded"
      PROVE  FALSE
  BY DEF FiToldKept
<1>1. d \in 1 .. Len(fiDeleting) /\ fiDeleting'[d] = fiDeleting[d] OBVIOUS
<1>2. fiDeleting[d].key \in FiKeys /\ fiDeleting[d].provider \in FiProviders
  BY <1>1, FiDeletionType
<1> QED BY <1>1, <1>2 DEF FiToldKept

LEMMA FiToldMarked ==
  ASSUME FiInv, FiToldKept, NEW k \in FiKeys, NEW p \in FiProviders,
         fiUploads' = [fiUploads EXCEPT ![k][p] = FiMarked(fiUploads[k][p])],
         \A d \in 1 .. Len(fiDeleting') :
           fiDeleting'[d].at = "answered" => d \in 1 .. Len(fiDeleting) /\ fiDeleting'[d] = fiDeleting[d]
  PROVE  FiToldKept'
<1> DEFINE Rec == [status : {"none", "uploaded", "expired", "deleted"}, remote : Nat]
           v == FiMarked(fiUploads[k][p])
<1>1. fiUploads \in [FiKeys -> [FiProviders -> Rec]]
  BY DEF FiInv, FiUploadsKept
<1>2. v.remote = fiUploads[k][p].remote /\ (v.status = "uploaded" => fiUploads[k][p].status = "uploaded")
  <2>1. fiUploads[k][p] \in Rec
    BY <1>1
  <2> QED BY <2>1 DEF FiMarked
<1> HIDE DEF v
<1>3. \A l \in FiKeys, q \in FiProviders : fiUploads'[l][q] = IF l = k /\ q = p THEN v ELSE fiUploads[l][q]
  BY <1>1 DEF v
<1>4. \A l \in FiKeys, q \in FiProviders :
        /\ fiUploads'[l][q].remote = fiUploads[l][q].remote
        /\ fiUploads'[l][q].status = "uploaded" => fiUploads[l][q].status = "uploaded"
  BY <1>2, <1>3
<1> QED BY <1>4, FiToldStays

LEMMA FiToldNext == FiInv /\ FiToldKept /\ [FiNext]_fiVars => FiToldKept'
<1> SUFFICES ASSUME FiInv, FiToldKept, [FiNext]_fiVars PROVE FiToldKept' OBVIOUS
<1> DEFINE Rec == [status : {"none", "uploaded", "expired", "deleted"}, remote : Nat]
<1>1. fiUploads \in [FiKeys -> [FiProviders -> Rec]]
  BY DEF FiInv, FiUploadsKept
<1>2. CASE UNCHANGED <<fiUploads, fiDeleting>>
  BY <1>2 DEF FiToldKept
<1>3. ASSUME NEW r \in FiRequests, FiResolve(r) PROVE FiToldKept'
  <2> DEFINE k == FiKey(r)
  <2>1. /\ fiUploads' = [fiUploads EXCEPT ![k][r.provider] = FiMarked(fiUploads[k][r.provider])] /\ UNCHANGED fiDeleting
        /\ fiAt[r].phase = "walk" /\ fiAt[r].i <= Len(fiParts[r.message]) /\ FiHasFileSource(FiPart(r))
    BY <1>3 DEF FiResolve
  <2>2. fiAt[r].i \in DOMAIN FiMessages[r.message] /\ r.provider \in FiProviders /\ FiPartsKept
    <3>1. FiAtOf(r) /\ fiAt[r] \in FiPlaces
      BY FiAtType DEF FiInv
    <3>2. fiAt[r].i > 0 /\ fiAt[r].i \in Nat
      BY <2>1, <3>1 DEF FiAtOf, FiPlaces
    <3> QED BY <2>1, <3>2, FiMessageShape DEF FiInv
  <2>3. k \in FiKeys
    BY <2>1, <2>2, FiKeyOf
  <2> HIDE DEF k
  <2> QED BY <2>1, <2>2, <2>3, FiToldMarked
<1>4. ASSUME NEW r \in FiRequests, FiReferred(r) PROVE FiToldKept'
  <2>1. fiAt[r].phase = "ref" /\ FiAtOf(r) /\ r.provider \in FiProviders
    BY <1>4, FiAtType, FiMessageShape DEF FiReferred, FiInv
  <2>2. fiAt[r].key \in FiKeys
    BY <2>1 DEF FiAtOf
  <2>3. /\ fiUploads' = [fiUploads EXCEPT ![fiAt[r].key][r.provider] = FiMarked(fiUploads[fiAt[r].key][r.provider])]
        /\ UNCHANGED fiDeleting
    BY <1>4 DEF FiReferred
  <2> QED BY <2>1, <2>2, <2>3, FiToldMarked
<1>5. ASSUME NEW r \in FiRequests, FiUploaded(r) PROVE FiToldKept'
  <2> DEFINE n == Len(fiRemote) + 1
             rec == [status |-> "uploaded", remote |-> n]
             k == fiAt[r].key
  <2>1. fiUploads' = [fiUploads EXCEPT ![k][r.provider] = rec] /\ UNCHANGED fiDeleting
    BY <1>5 DEF FiUploaded
  <2>2. Len(fiRemote) \in Nat
    BY FiCopyType DEF FiInv
  <2>3. rec.remote = n OBVIOUS
  <2> HIDE DEF rec, k
  <2> SUFFICES ASSUME NEW d \in 1 .. Len(fiDeleting), fiDeleting[d].at = "answered",
                      fiUploads'[fiDeleting[d].key][fiDeleting[d].provider].remote = fiDeleting[d].remote,
                      fiUploads'[fiDeleting[d].key][fiDeleting[d].provider].status = "uploaded"
        PROVE  FALSE
    BY <2>1 DEF FiToldKept
  <2>4. /\ fiDeleting[d].key \in FiKeys /\ fiDeleting[d].provider \in FiProviders
        /\ fiDeleting[d].remote \in 1 .. Len(fiRemote)
    BY FiDeletionType
  <2>5. fiDeleting[d].remote # n
    BY <2>2, <2>4
  <2>6. fiUploads'[fiDeleting[d].key][fiDeleting[d].provider] = rec
        \/ fiUploads'[fiDeleting[d].key][fiDeleting[d].provider] = fiUploads[fiDeleting[d].key][fiDeleting[d].provider]
    BY <1>1, <2>1, <2>4
  <2> QED BY <2>3, <2>5, <2>6 DEF FiToldKept
<1>6. ASSUME NEW f \in FiFiles, NEW p \in FiProviders, FiDeleteRemote(f, p) PROVE FiToldKept'
  <2>1. f \in FiKeys /\ fiUploads' = [fiUploads EXCEPT ![f][p] = FiMarked(fiUploads[f][p])]
    BY <1>6 DEF FiDeleteRemote, FiKeys
  <2>2. \A d \in 1 .. Len(fiDeleting') :
          fiDeleting'[d].at = "answered" => d \in 1 .. Len(fiDeleting) /\ fiDeleting'[d] = fiDeleting[d]
    BY <1>6, FiDeletingGrows
  <2> QED BY <2>1, <2>2, FiToldMarked
<1>7. ASSUME NEW d \in 1 .. Len(fiDeleting), NEW x, fiDeleting' = [fiDeleting EXCEPT ![d].at = x]
      PROVE  /\ Len(fiDeleting') = Len(fiDeleting) /\ \A e \in 1 .. Len(fiDeleting) : e # d => fiDeleting'[e] = fiDeleting[e]
             /\ fiDeleting'[d].at = x /\ fiDeleting'[d].key = fiDeleting[d].key /\ fiDeleting'[d].provider = fiDeleting[d].provider
  <2> DEFINE Dels == [key : FiFiles, provider : FiProviders, remote : Nat, at : FiOutcomes]
             shut == [fiDeleting[d] EXCEPT !.at = x]
  <2>1. fiDeleting \in Seq(Dels)
    BY DEF FiInv, FiDeletingKept
  <2>2. fiDeleting[d] \in Dels /\ DOMAIN fiDeleting = 1 .. Len(fiDeleting) /\ Len(fiDeleting) \in Nat
    BY <2>1, ElementOfSeq, LenProperties
  <2>3. shut.at = x /\ shut.key = fiDeleting[d].key /\ shut.provider = fiDeleting[d].provider
    BY <2>2
  <2>4. fiDeleting' = [fiDeleting EXCEPT ![d] = shut]
    BY <1>7
  <2> HIDE DEF shut, Dels
  <2>5. fiDeleting' = [e \in 1 .. Len(fiDeleting) |-> IF e = d THEN shut ELSE fiDeleting[e]]
    BY <2>2, <2>4
  <2>6. Len(fiDeleting') = Len(fiDeleting)
    BY <2>2, <2>5
  <2> QED BY <2>3, <2>5, <2>6
<1>8. ASSUME NEW d \in 1 .. Len(fiDeleting), FiDeleteFails(d) PROVE FiToldKept'
  <2>1. /\ Len(fiDeleting') = Len(fiDeleting) /\ \A e \in 1 .. Len(fiDeleting) : e # d => fiDeleting'[e] = fiDeleting[e]
        /\ fiDeleting'[d].at = "failed" /\ fiUploads' = fiUploads
    BY <1>7, <1>8 DEF FiDeleteFails
  <2> QED BY <2>1, FiToldStays
<1>9. ASSUME NEW d \in 1 .. Len(fiDeleting), FiDeleted(d) PROVE FiToldKept'
  <2> DEFINE k == fiDeleting[d].key
             p == fiDeleting[d].provider
             rec == [fiUploads[k][p] EXCEPT !.status = "deleted"]
  <2>1. /\ Len(fiDeleting') = Len(fiDeleting) /\ \A e \in 1 .. Len(fiDeleting) : e # d => fiDeleting'[e] = fiDeleting[e]
        /\ fiDeleting'[d].key = k /\ fiDeleting'[d].provider = p
    BY <1>7, <1>9 DEF FiDeleted
  <2>2. fiUploads' = [fiUploads EXCEPT ![k][p] = rec]
    BY <1>9 DEF FiDeleted
  <2>3. k \in FiKeys /\ p \in FiProviders
    BY FiDeletionType
  <2>4. rec.status = "deleted" /\ rec.remote = fiUploads[k][p].remote
    <3>1. fiUploads[k][p] \in Rec
      BY <1>1, <2>3
    <3> QED BY <3>1
  <2> HIDE DEF rec
  <2>5. \A l \in FiKeys, q \in FiProviders : fiUploads'[l][q] = IF l = k /\ q = p THEN rec ELSE fiUploads[l][q]
    BY <1>1, <2>2, <2>3
  <2> SUFFICES ASSUME NEW e \in 1 .. Len(fiDeleting), fiDeleting'[e].at = "answered",
                      fiUploads'[fiDeleting'[e].key][fiDeleting'[e].provider].remote = fiDeleting'[e].remote,
                      fiUploads'[fiDeleting'[e].key][fiDeleting'[e].provider].status = "uploaded"
        PROVE  FALSE
    BY <2>1 DEF FiToldKept
  <2>6. CASE e = d
    BY <2>1, <2>3, <2>4, <2>5, <2>6
  <2>7. CASE e # d
    <3>1. fiDeleting'[e] = fiDeleting[e] /\ fiDeleting[e].key \in FiKeys /\ fiDeleting[e].provider \in FiProviders
      BY <2>1, <2>7, FiDeletionType
    <3>2. fiUploads'[fiDeleting[e].key][fiDeleting[e].provider] = fiUploads[fiDeleting[e].key][fiDeleting[e].provider]
      BY <2>4, <2>5, <3>1
    <3> QED BY <3>1, <3>2 DEF FiToldKept
  <2> QED BY <2>6, <2>7
<1>10. CASE FiNext
  <2>1. ASSUME NEW r \in FiRequests, FiStart(r) \/ FiPass(r) \/ FiUploadFails(r)
        PROVE  FiToldKept'
    BY <1>2, <2>1 DEF FiStart, FiPass, FiUploadFails
  <2>2. ASSUME NEW f \in FiFiles, FiRemove(f) PROVE FiToldKept'
    BY <1>2, <2>2 DEF FiRemove
  <2>3. ASSUME NEW d \in 1 .. Len(fiDeleting), FiRemoteDeletes(d) PROVE FiToldKept'
    BY <1>2, <2>3 DEF FiRemoteDeletes
  <2>4. CASE FiTick
    BY <1>2, <2>4 DEF FiTick
  <2> QED BY <1>3, <1>4, <1>5, <1>6, <1>8, <1>9, <1>10, <2>1, <2>2, <2>3, <2>4 DEF FiNext
<1> QED BY <1>2, <1>10 DEF fiVars

FiHeld == FiInv /\ FiToldKept
LEMMA FiInvInit == FiInit => FiHeld
  BY FiInvBegins DEF FiHeld, FiToldKept, FiInit
LEMMA FiInvNext == FiHeld /\ [FiNext]_fiVars => FiHeld'
  BY FiInvStep, FiToldNext DEF FiHeld

LEMMA FiInvImplies == FiInv => FiTypeOK /\ FiFaithful
<1> SUFFICES ASSUME FiInv PROVE FiTypeOK /\ FiFaithful OBVIOUS
<1>1. \A m \in DOMAIN FiMessages : Len(fiParts[m]) \in Nat /\ DOMAIN FiMessages[m] = 1 .. Len(fiParts[m])
  <2> SUFFICES ASSUME NEW m \in DOMAIN FiMessages PROVE Len(fiParts[m]) \in Nat /\ DOMAIN FiMessages[m] = 1 .. Len(fiParts[m])
    OBVIOUS
  <2> QED BY LenProperties DEF FiInv, FiPartsKept
<1>2. FiRefsWereLive
  BY <1>1 DEF FiInv, FiPartsKept, FiRefsKept, FiRefOf, FiRefsWereLive
<1>3. FiNothingLeftBehind
  <2> SUFFICES ASSUME NEW r \in FiRequests, fiAt[r].phase = "sent", NEW i \in 1 .. Len(fiParts[r.message]),
                      FiHasFileSource(fiParts[r.message][i])
        PROVE  fiParts[r.message][i].file \notin fiKnown
    BY DEF FiNothingLeftBehind
  <2>1. FiAtOf(r) /\ FiPartsKept /\ fiAt[r].i \in Nat
    BY FiAtType DEF FiInv, FiPlaces
  <2>2. i \in DOMAIN FiMessages[r.message] /\ i < fiAt[r].i
    BY <2>1, FiMessageShape DEF FiAtOf
  <2> QED BY <2>1, <2>2 DEF FiAtOf
<1>4. FiTypeOK
  <2>1. \A k \in FiKeys : \A p \in FiProviders :
          fiUploads[k][p].status \in {"none", "uploaded", "expired", "deleted"} /\ fiUploads[k][p].remote \in 0 .. Len(fiRemote)
    <3>1. Len(fiRemote) \in Nat
      BY FiCopyType DEF FiInv
    <3> QED BY <3>1 DEF FiInv, FiUploadsKept
  <2>2. \A r \in FiRequests : fiAt[r].phase \in {"idle", "walk", "upload", "ref", "sent", "rejected"}
    BY FiAtType DEF FiPlaces, FiPhases
  <2> QED BY <2>1, <2>2 DEF FiInv, FiTypes, FiDeletingKept, FiTypeOK
<1> QED BY <1>2, <1>3, <1>4 DEF FiFaithful, FiInv

(* FilesFaithful, for any files, requests and clock: a reference in a      *)
(* message was live and of that file, no file source of a registered file  *)
(* goes out unresolved, and no upload is begun while a copy is of use.     *)
THEOREM FilesStayFaithful == PluginsSpec => []FilesFaithful
<1> DEFINE Inv == turn = "files" => FiHeld
<1>1. PluginsInit => Inv
  BY FiInvInit DEF PluginsInit
<1>2. Inv /\ [PluginsNext]_PluginsVars => Inv'
  <2> SUFFICES ASSUME Inv, [PluginsNext]_PluginsVars, turn' = "files" PROVE FiHeld' OBVIOUS
  <2>1. turn = "files"
    BY DEF PluginsNext, PluginsVars
  <2>2. [FiNext]_fiVars
    BY <2>1 DEF PluginsNext, PluginsVars, serviceVars
  <2> QED BY <2>1, <2>2, FiInvNext
<1>3. Inv => FilesFaithful
  BY FiInvImplies DEF FilesFaithful, FiHeld
<1> QED BY <1>1, <1>2, <1>3, PTL DEF PluginsSpec

-----------------------------------------------------------------------------
(* Internal tools: the registry.                                           *)

(* What a map says of the first n backends: each of their tools is there,  *)
(* from the first of them that has it.                                     *)
RgHadBy(n, backends, has) == UNION {has[backends[k]] : k \in 1 .. n}
RgFirsts(map, n, backends, has) ==
  /\ map = [t \in DOMAIN map |-> map[t]] /\ DOMAIN map = RgHadBy(n, backends, has)
  /\ \A t \in DOMAIN map : \E k \in 1 .. n :
       /\ t \in has[backends[k]] /\ map[t] = backends[k]
       /\ \A j \in 1 .. k - 1 : t \notin has[backends[j]]

RgPlaceOf(l) ==
  /\ DOMAIN rgAt[l] = {"phase", "i", "map", "found", "stale"}
  /\ rgAt[l].phase \in {"idle", "build", "read", "done", "threw"} /\ rgAt[l].stale \in BOOLEAN
  /\ rgAt[l].phase = "idle" => rgAt[l].map = RgNoMap
  /\ rgAt[l].phase = "build" => rgAt[l].i \in Nat \ {0}
RgBuildOf(l) ==
  (rgAt[l].phase = "build" /\ ~rgAt[l].stale) => rgAt[l].i - 1 <= Len(rgBackends) /\ RgFirsts(rgAt[l].map, rgAt[l].i - 1, rgBackends, rgHas)

(* A build that saw every change so far is right about the backends it has *)
(* come past; so then is what it leaves behind.                            *)
RgTypes ==
  /\ rgBackends \in Seq(RgBackends) /\ rgHas \in [RgBackends -> SUBSET RgTools] /\ rgCount \in 0 .. RgChanges
  /\ rgStale \in BOOLEAN /\ DOMAIN rgAt = RgLookups /\ rgAt = [l \in RgLookups |-> rgAt[l]]
RgBuilds == \A l \in RgLookups : RgPlaceOf(l) /\ RgBuildOf(l)
RgCached ==
  \/ rgCache = {}
  \/ \E map : rgCache = {map} /\ (~rgStale => RgFirsts(map, Len(rgBackends), rgBackends, rgHas))
RgInv == RgTypes /\ RgBuilds /\ RgCached

LEMMA RgFirstsNone == \A map : map = RgNoMap => RgFirsts(map, 0, rgBackends, rgHas)
  BY DEF RgFirsts, RgNoMap, RgHadBy

(* The next backend's tools, where they are not there yet.                 *)
LEMMA RgFirstsMerge ==
  ASSUME RgTypes, NEW map, NEW n \in Nat, n + 1 <= Len(rgBackends), RgFirsts(map, n, rgBackends, rgHas)
  PROVE  RgFirsts(RgMerge(map, rgBackends[n + 1], rgHas[rgBackends[n + 1]]), n + 1, rgBackends, rgHas)
<1> DEFINE b == rgBackends[n + 1]
           next == RgMerge(map, b, rgHas[b])
<1>1. DOMAIN next = DOMAIN map \cup rgHas[b] /\ next = [t \in DOMAIN next |-> next[t]]
  BY DEF RgMerge
<1>2. \A t \in DOMAIN next : next[t] = IF t \in DOMAIN map THEN map[t] ELSE b
  BY DEF RgMerge
<1>3. \A k \in 1 .. n + 1 : k \in 1 .. n \/ k = n + 1 OBVIOUS
<1>4. 1 .. n \subseteq 1 .. n + 1 /\ n + 1 \in 1 .. n + 1 OBVIOUS
<1>5. RgHadBy(n + 1, rgBackends, rgHas) = RgHadBy(n, rgBackends, rgHas) \cup rgHas[b]
  BY <1>3, <1>4 DEF RgHadBy
<1>6. DOMAIN next = RgHadBy(n + 1, rgBackends, rgHas)
  BY <1>1, <1>5 DEF RgFirsts
<1>7. ASSUME NEW t \in DOMAIN next
      PROVE  \E k \in 1 .. n + 1 : /\ t \in rgHas[rgBackends[k]] /\ next[t] = rgBackends[k]
                                   /\ \A j \in 1 .. k - 1 : t \notin rgHas[rgBackends[j]]
  <2>1. CASE t \in DOMAIN map
    <3>1. next[t] = map[t]
      BY <1>2, <2>1
    <3>2. PICK k \in 1 .. n : /\ t \in rgHas[rgBackends[k]] /\ map[t] = rgBackends[k]
                              /\ \A j \in 1 .. k - 1 : t \notin rgHas[rgBackends[j]]
      BY <2>1 DEF RgFirsts
    <3> HIDE DEF next
    <3> QED BY <1>4, <3>1, <3>2
  <2>2. CASE t \notin DOMAIN map
    <3>1. next[t] = b /\ t \in rgHas[b]
      BY <1>1, <1>2, <2>2
    <3>2. \A j \in 1 .. n : t \notin rgHas[rgBackends[j]]
      BY <2>2 DEF RgFirsts, RgHadBy
    <3>3. 1 .. (n + 1) - 1 = 1 .. n OBVIOUS
    <3> HIDE DEF next
    <3> QED BY <1>4, <3>1, <3>2, <3>3
  <2> QED BY <2>1, <2>2
<1> HIDE DEF next
<1>8. RgFirsts(next, n + 1, rgBackends, rgHas)
  BY <1>1, <1>6, <1>7 DEF RgFirsts
<1> QED BY <1>8 DEF next

(* What agrees with all of the backends is what the property says.         *)
LEMMA RgFirstsAll ==
  ASSUME RgTypes, NEW map, RgFirsts(map, Len(rgBackends), rgBackends, rgHas)
  PROVE  map = [t \in RgHad |-> RgFirst(t)]
<1>1. DOMAIN map = RgHad
  BY DEF RgFirsts, RgHadBy, RgHad
<1>2. ASSUME NEW t \in DOMAIN map
      PROVE  map[t] = RgFirst(t)
  <2> DEFINE having == {n \in 1 .. Len(rgBackends) : t \in rgHas[rgBackends[n]]}
  <2>1. PICK k \in 1 .. Len(rgBackends) : /\ t \in rgHas[rgBackends[k]] /\ map[t] = rgBackends[k]
                                          /\ \A j \in 1 .. k - 1 : t \notin rgHas[rgBackends[j]]
    BY DEF RgFirsts
  <2>2. k \in having /\ \A m \in having : k <= m
    BY <2>1
  <2>3. \A n \in having : (\A m \in having : n <= m) => n = k
    BY <2>2
  <2>4. (CHOOSE n \in having : \A m \in having : n <= m) = k
    BY <2>2, <2>3
  <2>5. RgFirst(t) = rgBackends[CHOOSE n \in having : \A m \in having : n <= m]
    BY DEF RgFirst
  <2> QED BY <2>1, <2>4, <2>5
<1>3. map = [t \in DOMAIN map |-> map[t]]
  BY DEF RgFirsts
<1> QED BY <1>1, <1>2, <1>3

(* A change: what is being built is stale from then on.                    *)
LEMMA RgTaintKeeps ==
  ASSUME RgTypes, RgBuilds, RgTaint
  PROVE  RgBuilds' /\ DOMAIN rgAt' = RgLookups /\ rgAt' = [l \in RgLookups |-> rgAt'[l]]
<1>1. DOMAIN rgAt' = RgLookups /\ rgAt' = [l \in RgLookups |-> rgAt'[l]]
  BY DEF RgTaint
<1>2. \A l \in RgLookups : rgAt'[l] = IF RgBuilding(l) THEN [rgAt[l] EXCEPT !.stale = TRUE] ELSE rgAt[l]
  BY DEF RgTaint
<1> SUFFICES ASSUME NEW l \in RgLookups
      PROVE  RgPlaceOf(l)' /\ RgBuildOf(l)'
  BY <1>1 DEF RgBuilds
<1>3. RgPlaceOf(l)
  BY DEF RgBuilds
<1>4. CASE RgBuilding(l)
  <2> DEFINE at == [rgAt[l] EXCEPT !.stale = TRUE]
  <2>1. rgAt'[l] = at
    BY <1>2, <1>4
  <2>2. DOMAIN at = DOMAIN rgAt[l] /\ at.phase = rgAt[l].phase /\ at.i = rgAt[l].i /\ at.map = rgAt[l].map /\ at.stale = TRUE
    BY <1>3 DEF RgPlaceOf
  <2> HIDE DEF at
  <2> QED BY <1>3, <1>4, <2>1, <2>2 DEF RgPlaceOf, RgBuildOf, RgBuilding
<1>5. CASE ~RgBuilding(l)
  <2>1. rgAt'[l] = rgAt[l] /\ rgAt[l].phase # "build"
    BY <1>2, <1>5 DEF RgBuilding
  <2> QED BY <1>3, <2>1 DEF RgPlaceOf, RgBuildOf
<1> QED BY <1>4, <1>5

LEMMA RgAddBackendKeeps == ASSUME RgInv, NEW b \in RgBackends, RgAddBackend(b) PROVE RgInv'
<1>1. RgBuilds' /\ DOMAIN rgAt' = RgLookups /\ rgAt' = [l \in RgLookups |-> rgAt'[l]]
  BY RgTaintKeeps DEF RgInv, RgAddBackend, RgChanged
<1>2. rgBackends' \in Seq(RgBackends)
  BY AppendProperties DEF RgInv, RgTypes, RgAddBackend
<1>3. RgTypes'
  <2>1. rgCount \in 0 .. RgChanges /\ rgCount < RgChanges /\ rgCount' = rgCount + 1
    BY DEF RgInv, RgTypes, RgAddBackend, RgChanged
  <2>2. rgCount' \in 0 .. RgChanges
    BY <2>1, RgAssumption
  <2>3. rgHas' \in [RgBackends -> SUBSET RgTools] /\ rgStale' \in BOOLEAN
    BY DEF RgInv, RgTypes, RgAddBackend
  <2> QED BY <1>1, <1>2, <2>2, <2>3 DEF RgTypes
<1>4. RgCached'
  BY DEF RgCached, RgAddBackend
<1> QED BY <1>1, <1>3, <1>4 DEF RgInv

LEMMA RgRemoveBackendKeeps == ASSUME RgInv, NEW b \in RgBackends, RgRemoveBackend(b) PROVE RgInv'
<1>1. RgBuilds' /\ DOMAIN rgAt' = RgLookups /\ rgAt' = [l \in RgLookups |-> rgAt'[l]]
  BY RgTaintKeeps DEF RgInv, RgRemoveBackend, RgChanged
<1>2. rgBackends' \in Seq(RgBackends)
  <2>1. PICK n \in 1 .. Len(rgBackends) : rgBackends' = RemoveAt(rgBackends, n)
    BY DEF RgRemoveBackend
  <2>2. rgBackends \in Seq(RgBackends) /\ Len(rgBackends) \in Nat
    BY LenProperties DEF RgInv, RgTypes
  <2>3. \A i \in 1 .. Len(rgBackends) : rgBackends[i] \in RgBackends
    BY <2>2, ElementOfSeq
  <2>4. SubSeq(rgBackends, 1, n - 1) \in Seq(RgBackends)
    <3>1. \A i \in 1 .. n - 1 : rgBackends[i] \in RgBackends
      BY <2>2, <2>3
    <3>2. 1 \in Int /\ n - 1 \in Int
      BY <2>2
    <3> QED BY <3>1, <3>2, SubSeqProperties
  <2>5. SubSeq(rgBackends, n + 1, Len(rgBackends)) \in Seq(RgBackends)
    <3>1. \A i \in n + 1 .. Len(rgBackends) : rgBackends[i] \in RgBackends
      BY <2>2, <2>3
    <3>2. n + 1 \in Int /\ Len(rgBackends) \in Int
      BY <2>2
    <3> QED BY <3>1, <3>2, SubSeqProperties
  <2> QED BY <2>1, <2>4, <2>5, ConcatProperties DEF RemoveAt
<1>3. RgTypes'
  <2>1. rgCount \in 0 .. RgChanges /\ rgCount < RgChanges /\ rgCount' = rgCount + 1
    BY DEF RgInv, RgTypes, RgRemoveBackend, RgChanged
  <2>2. rgCount' \in 0 .. RgChanges
    BY <2>1, RgAssumption
  <2>3. rgHas' \in [RgBackends -> SUBSET RgTools] /\ rgStale' \in BOOLEAN
    BY DEF RgInv, RgTypes, RgRemoveBackend
  <2> QED BY <1>1, <1>2, <2>2, <2>3 DEF RgTypes
<1>4. RgCached'
  BY DEF RgCached, RgRemoveBackend
<1> QED BY <1>1, <1>3, <1>4 DEF RgInv

LEMMA RgRegisterKeeps == ASSUME RgInv, NEW b \in RgBackends, NEW t \in RgTools, RgRegister(b, t) PROVE RgInv'
<1>1. RgBuilds' /\ DOMAIN rgAt' = RgLookups /\ rgAt' = [l \in RgLookups |-> rgAt'[l]]
  BY RgTaintKeeps DEF RgInv, RgRegister, RgChanged
<1>2. RgTypes'
  <2>1. rgHas' \in [RgBackends -> SUBSET RgTools]
    BY DEF RgInv, RgTypes, RgRegister
  <2>2. rgBackends' = rgBackends /\ rgStale' \in BOOLEAN
    BY DEF RgInv, RgTypes, RgRegister
  <2>3. rgCount' \in 0 .. RgChanges
    BY RgAssumption DEF RgInv, RgTypes, RgRegister, RgChanged
  <2> QED BY <1>1, <2>1, <2>2, <2>3 DEF RgInv, RgTypes
<1>3. RgCached'
  BY DEF RgInv, RgCached, RgRegister
<1> QED BY <1>1, <1>2, <1>3 DEF RgInv

(* A lookup moves; the others, the backends and their tools stay.          *)
LEMMA RgMoves ==
  ASSUME RgInv, NEW l \in RgLookups, NEW at, rgAt' = [rgAt EXCEPT ![l] = at], RgPlaceOf(l)', RgBuildOf(l)',
         UNCHANGED <<rgBackends, rgHas, rgCount>>
  PROVE  RgBuilds' /\ DOMAIN rgAt' = RgLookups /\ rgAt' = [k \in RgLookups |-> rgAt'[k]]
<1>1. DOMAIN rgAt' = RgLookups /\ rgAt' = [k \in RgLookups |-> rgAt'[k]]
  BY DEF RgInv, RgTypes
<1> SUFFICES ASSUME NEW k \in RgLookups, k # l PROVE RgPlaceOf(k)' /\ RgBuildOf(k)'
  BY <1>1 DEF RgBuilds
<1>2. rgAt'[k] = rgAt[k]
  BY DEF RgInv, RgTypes
<1>3. RgPlaceOf(k) /\ RgBuildOf(k)
  BY DEF RgInv, RgBuilds
<1> QED BY <1>2, <1>3 DEF RgPlaceOf, RgBuildOf

LEMMA RgTypesStay ==
  ASSUME RgInv, UNCHANGED <<rgBackends, rgHas, rgCount>>, rgStale' \in BOOLEAN,
         DOMAIN rgAt' = RgLookups, rgAt' = [k \in RgLookups |-> rgAt'[k]]
  PROVE  RgTypes'
  BY DEF RgInv, RgTypes

LEMMA RgCachedStays == ASSUME RgInv, UNCHANGED <<rgBackends, rgHas, rgCache, rgStale>> PROVE RgCached'
  BY DEF RgInv, RgCached

LEMMA RgLookupKeeps == ASSUME RgInv, NEW l \in RgLookups, RgLookup(l) PROVE RgInv'
<1> DEFINE phase == IF rgCache # {} THEN "read" ELSE "build"
           at == [rgAt[l] EXCEPT !.phase = phase, !.i = 1]
<1>1. RgPlaceOf(l) /\ rgAt[l].phase = "idle" /\ l \in DOMAIN rgAt
  BY DEF RgInv, RgTypes, RgBuilds, RgLookup
<1>2. rgAt' = [rgAt EXCEPT ![l] = at] /\ UNCHANGED <<rgBackends, rgHas, rgCache, rgStale, rgCount>>
  BY DEF RgLookup
<1>3. DOMAIN at = DOMAIN rgAt[l] /\ at.phase = phase /\ at.i = 1 /\ at.map = rgAt[l].map /\ at.stale = rgAt[l].stale
  BY <1>1 DEF RgPlaceOf
<1> HIDE DEF at
<1>4. rgAt'[l] = at
  BY <1>1, <1>2
<1>5. RgPlaceOf(l)'
  BY <1>1, <1>3, <1>4 DEF RgPlaceOf
<1>6. RgBuildOf(l)'
  <2>1. at.map = RgNoMap /\ at.i - 1 = 0
    BY <1>1, <1>3 DEF RgPlaceOf
  <2>2. RgFirsts(at.map, 0, rgBackends, rgHas)
    BY <2>1, RgFirstsNone
  <2>3. Len(rgBackends) \in Nat
    BY LenProperties DEF RgInv, RgTypes
  <2> QED BY <1>2, <1>4, <2>1, <2>2, <2>3 DEF RgBuildOf
<1>7. RgBuilds' /\ DOMAIN rgAt' = RgLookups /\ rgAt' = [k \in RgLookups |-> rgAt'[k]]
  BY <1>2, <1>5, <1>6, RgMoves
<1>8. rgStale' \in BOOLEAN
  BY <1>2 DEF RgInv, RgTypes
<1>9. RgTypes'
  BY <1>2, <1>7, <1>8, RgTypesStay
<1>10. RgCached'
  BY <1>2, RgCachedStays
<1> QED BY <1>7, <1>9, <1>10 DEF RgInv

LEMMA RgListKeeps == ASSUME RgInv, NEW l \in RgLookups, RgList(l) PROVE RgInv'
<1>1. RgTypes /\ RgPlaceOf(l) /\ RgBuildOf(l) /\ rgAt[l].phase = "build" /\ l \in DOMAIN rgAt /\ Len(rgBackends) \in Nat
  BY LenProperties DEF RgInv, RgTypes, RgBuilds, RgList, RgBuilding
<1>2. rgAt[l].i \in Nat \ {0} /\ UNCHANGED <<rgBackends, rgHas, rgCount>>
  BY <1>1 DEF RgPlaceOf, RgList
<1>3. CASE /\ rgAt[l].i <= Len(rgBackends)
           /\ LET b == rgBackends[rgAt[l].i] IN
              rgAt' = [rgAt EXCEPT ![l].i = @ + 1, ![l].map = RgMerge(@, b, rgHas[b])]
           /\ UNCHANGED <<rgCache, rgStale>>
  <2> DEFINE n == rgAt[l].i - 1
             b == rgBackends[n + 1]
             i == n + 2
             map == RgMerge(rgAt[l].map, b, rgHas[b])
             at == [rgAt[l] EXCEPT !.i = i, !.map = map]
  <2>1. n \in Nat /\ n + 1 = rgAt[l].i /\ i = rgAt[l].i + 1 /\ i - 1 = n + 1 /\ i \in Nat \ {0} /\ n + 1 <= Len(rgBackends)
    BY <1>2, <1>3
  <2>2. rgAt' = [rgAt EXCEPT ![l] = at]
    BY <1>1, <1>3, <2>1 DEF RgPlaceOf
  <2> HIDE DEF i, map, n
  <2>3. DOMAIN at = DOMAIN rgAt[l] /\ at.phase = rgAt[l].phase /\ at.i = i /\ at.map = map /\ at.stale = rgAt[l].stale
    BY <1>1 DEF RgPlaceOf
  <2> HIDE DEF at
  <2>4. rgAt'[l] = at
    BY <1>1, <2>2
  <2>5. RgPlaceOf(l)'
    BY <1>1, <2>1, <2>3, <2>4 DEF RgPlaceOf
  <2>6. ~at.stale => RgFirsts(map, n + 1, rgBackends, rgHas)
    <3>1. ~at.stale => RgFirsts(rgAt[l].map, n, rgBackends, rgHas)
      BY <1>1, <2>3 DEF RgBuildOf, n
    <3> QED BY <1>1, <2>1, <3>1, RgFirstsMerge DEF map
  <2>7. RgBuildOf(l)'
    BY <1>2, <2>1, <2>3, <2>4, <2>6 DEF RgBuildOf
  <2>8. RgBuilds' /\ DOMAIN rgAt' = RgLookups /\ rgAt' = [k \in RgLookups |-> rgAt'[k]]
    BY <1>2, <2>2, <2>5, <2>7, RgMoves
  <2>9. rgStale' \in BOOLEAN
    BY <1>1, <1>3 DEF RgTypes
  <2>10. RgTypes'
    BY <1>2, <2>8, <2>9, RgTypesStay
  <2>11. RgCached'
    BY <1>2, <1>3, RgCachedStays
  <2> QED BY <2>8, <2>10, <2>11 DEF RgInv
<1>4. CASE /\ rgAt[l].i > Len(rgBackends)
           /\ rgCache' = {rgAt[l].map} /\ rgStale' = rgAt[l].stale
           /\ rgAt' = [rgAt EXCEPT ![l].phase = "read"]
  <2> DEFINE at == [rgAt[l] EXCEPT !.phase = "read"]
  <2>1. rgAt' = [rgAt EXCEPT ![l] = at]
    BY <1>4
  <2>2. DOMAIN at = DOMAIN rgAt[l] /\ at.phase = "read" /\ at.stale = rgAt[l].stale
    BY <1>1 DEF RgPlaceOf
  <2> HIDE DEF at
  <2>3. rgAt'[l] = at
    BY <1>1, <2>1
  <2>4. RgPlaceOf(l)' /\ RgBuildOf(l)'
    BY <1>1, <2>2, <2>3 DEF RgPlaceOf, RgBuildOf
  <2>5. RgBuilds' /\ DOMAIN rgAt' = RgLookups /\ rgAt' = [k \in RgLookups |-> rgAt'[k]]
    BY <1>2, <2>1, <2>4, RgMoves
  <2>6. rgStale' \in BOOLEAN
    BY <1>1, <1>4 DEF RgPlaceOf
  <2>7. RgTypes'
    BY <1>2, <2>5, <2>6, RgTypesStay
  <2>8. ~rgStale' => RgFirsts(rgAt[l].map, Len(rgBackends), rgBackends, rgHas)
    <3>1. SUFFICES ASSUME ~rgAt[l].stale PROVE RgFirsts(rgAt[l].map, Len(rgBackends), rgBackends, rgHas)
      BY <1>4
    <3>2. RgFirsts(rgAt[l].map, rgAt[l].i - 1, rgBackends, rgHas) /\ rgAt[l].i - 1 <= Len(rgBackends)
      BY <1>1, <3>1 DEF RgBuildOf
    <3>3. rgAt[l].i - 1 = Len(rgBackends)
      BY <1>1, <1>2, <1>4, <3>2
    <3> QED BY <3>2, <3>3
  <2>9. RgCached'
    <3>1. UNCHANGED <<rgBackends, rgHas>>
      BY <1>2
    <3> QED BY <1>4, <2>8, <3>1 DEF RgCached
  <2> QED BY <2>5, <2>7, <2>9 DEF RgInv
<1> QED BY <1>3, <1>4 DEF RgList

LEMMA RgReadKeeps == ASSUME RgInv, NEW l \in RgLookups, RgRead(l) PROVE RgInv'
<1>1. RgTypes /\ RgPlaceOf(l) /\ l \in DOMAIN rgAt
  BY DEF RgInv, RgTypes, RgBuilds
<1>2. UNCHANGED <<rgBackends, rgHas, rgCache, rgStale, rgCount>>
  BY DEF RgRead
<1>3. PICK at : /\ rgAt' = [rgAt EXCEPT ![l] = at] /\ DOMAIN at = DOMAIN rgAt[l] /\ at.phase \in {"done", "threw"}
                /\ at.stale = rgAt[l].stale
  <2>1. CASE rgAt' = [rgAt EXCEPT ![l].phase = "threw", ![l].map = RgNoMap]
    <3> DEFINE at == [rgAt[l] EXCEPT !.phase = "threw", !.map = RgNoMap]
    <3>1. rgAt' = [rgAt EXCEPT ![l] = at]
      BY <2>1
    <3>2. DOMAIN at = DOMAIN rgAt[l] /\ at.phase = "threw" /\ at.stale = rgAt[l].stale
      BY <1>1 DEF RgPlaceOf
    <3> HIDE DEF at
    <3> QED BY <3>1, <3>2
  <2>2. ASSUME NEW map,
               rgAt' = [rgAt EXCEPT ![l].phase = "done", ![l].map = RgNoMap,
                                    ![l].found = IF l.tool \in DOMAIN map THEN {map[l.tool]} ELSE {}]
        PROVE  \E at : /\ rgAt' = [rgAt EXCEPT ![l] = at] /\ DOMAIN at = DOMAIN rgAt[l] /\ at.phase \in {"done", "threw"}
                       /\ at.stale = rgAt[l].stale
    <3> DEFINE found == IF l.tool \in DOMAIN map THEN {map[l.tool]} ELSE {}
               at == [rgAt[l] EXCEPT !.phase = "done", !.map = RgNoMap, !.found = found]
    <3>1. rgAt' = [rgAt EXCEPT ![l] = at]
      BY <2>2
    <3> HIDE DEF found
    <3>2. DOMAIN at = DOMAIN rgAt[l] /\ at.phase = "done" /\ at.stale = rgAt[l].stale
      BY <1>1 DEF RgPlaceOf
    <3> HIDE DEF at
    <3> QED BY <3>1, <3>2
  <2> QED BY <2>1, <2>2 DEF RgRead
<1>4. rgAt'[l] = at
  BY <1>1, <1>3
<1>5. RgPlaceOf(l)' /\ RgBuildOf(l)'
  BY <1>1, <1>3, <1>4 DEF RgPlaceOf, RgBuildOf
<1>6. RgBuilds' /\ DOMAIN rgAt' = RgLookups /\ rgAt' = [k \in RgLookups |-> rgAt'[k]]
  BY <1>2, <1>3, <1>5, RgMoves
<1>7. rgStale' \in BOOLEAN
  BY <1>1, <1>2 DEF RgTypes
<1>8. RgTypes'
  BY <1>2, <1>6, <1>7, RgTypesStay
<1>9. RgCached'
  BY <1>2, RgCachedStays
<1> QED BY <1>6, <1>8, <1>9 DEF RgInv

LEMMA RgInvInit == RgInit => RgInv
<1> SUFFICES ASSUME RgInit PROVE RgInv OBVIOUS
<1> DEFINE at == [phase |-> "idle", i |-> 0, map |-> RgNoMap, found |-> {}, stale |-> FALSE]
<1>1. RgTypes
  <2>1. DOMAIN rgAt = RgLookups /\ rgAt = [l \in RgLookups |-> rgAt[l]]
    <3> HIDE DEF at
    <3>1. rgAt = [l \in RgLookups |-> at]
      BY DEF RgInit, at
    <3> QED BY <3>1
  <2>2. rgBackends \in Seq(RgBackends) /\ rgStale \in BOOLEAN
    BY EmptySeq DEF RgInit
  <2>3. rgCount \in 0 .. RgChanges
    BY RgAssumption DEF RgInit
  <2>4. rgHas \in [RgBackends -> SUBSET RgTools]
    BY DEF RgInit
  <2> QED BY <2>1, <2>2, <2>3, <2>4 DEF RgTypes
<1>2. \A l \in RgLookups : rgAt[l] = at
  BY DEF RgInit
<1>3. DOMAIN at = {"phase", "i", "map", "found", "stale"} /\ at.phase = "idle" /\ at.map = RgNoMap /\ at.stale = FALSE
  OBVIOUS
<1> HIDE DEF at
<1>5. RgBuilds
  BY <1>2, <1>3 DEF RgBuilds, RgPlaceOf, RgBuildOf
<1>4. RgCached
  BY DEF RgInit, RgCached
<1> QED BY <1>1, <1>4, <1>5 DEF RgInv

LEMMA RgInvNext == RgInv /\ [RgNext]_rgVars => RgInv'
<1> SUFFICES ASSUME RgInv, [RgNext]_rgVars PROVE RgInv' OBVIOUS
<1>1. CASE UNCHANGED rgVars
  <2>1. UNCHANGED <<rgBackends, rgHas, rgCache, rgAt, rgStale, rgCount>>
    BY <1>1 DEF rgVars
  <2>2. RgCached'
    BY <2>1, RgCachedStays
  <2>3. RgTypes'
    BY <2>1 DEF RgInv, RgTypes
  <2>4. RgBuilds'
    BY <2>1 DEF RgInv, RgBuilds, RgPlaceOf, RgBuildOf
  <2> QED BY <2>2, <2>3, <2>4 DEF RgInv
<1>2. CASE RgNext
  <2>1. ASSUME NEW b \in RgBackends, RgAddBackend(b) \/ RgRemoveBackend(b) \/ \E t \in RgTools : RgRegister(b, t)
        PROVE  RgInv'
    BY <2>1, RgAddBackendKeeps, RgRemoveBackendKeeps, RgRegisterKeeps
  <2>2. ASSUME NEW l \in RgLookups, RgLookup(l) \/ RgList(l) \/ RgRead(l)
        PROVE  RgInv'
    BY <2>2, RgLookupKeeps, RgListKeeps, RgReadKeeps
  <2> QED BY <1>2, <2>1, <2>2 DEF RgNext
<1> QED BY <1>1, <1>2

LEMMA RgInvImplies == RgInv => RgCacheAgrees
<1> SUFFICES ASSUME RgInv, rgCache # {}, ~rgStale
      PROVE  rgCache = {[t \in RgHad |-> RgFirst(t)]}
  BY DEF RgCacheAgrees
<1>1. PICK map : rgCache = {map} /\ RgFirsts(map, Len(rgBackends), rgBackends, rgHas)
  BY DEF RgInv, RgCached
<1> QED BY <1>1, RgFirstsAll DEF RgInv

-----------------------------------------------------------------------------
(* Internal tools: the runner.                                             *)
ItEvents == {"start", "complete", "error"}
ItPhases == {"idle", "pick", "execute", "tell", "done", "threw"}
ItTellings == [event : ItEvents, model : {"none"} \cup DOMAIN ItProvider]
ItOpen(at) == at.phase \in {"execute", "tell"}
ItModelAt(r, i) == IF r.models = <<>> THEN "none" ELSE r.models[i]

(* Where a run is: at one of its models while a tool runs.                 *)
ItPlace(r, at, told) ==
  /\ DOMAIN at = {"phase", "i", "hookThrew"} /\ at.phase \in ItPhases /\ at.i \in Nat /\ at.hookThrew \in BOOLEAN
  /\ at.phase = "idle" => told = <<>> /\ at.i = 0
  /\ at.phase = "pick" => r.models # <<>> /\ at.i > 0
  /\ (ItOpen(at) /\ r.models # <<>>) => at.i \in 1 .. Len(r.models) /\ ItHasKey(r.models[at.i])

(* What it told: starts, each closed before the next one, of models the    *)
(* run has come to, in order.  While a tool runs its start is open.        *)
ItCameTo(r, at, m) ==
  \E i \in 1 .. Len(r.models) : (i < at.i \/ (i = at.i /\ at.phase \in {"execute", "tell", "done"})) /\ r.models[i] = m
ItPaired(r, at, told) ==
  \A n \in 1 .. Len(told) :
    /\ told[n].event = "start" <=> n % 2 = 1
    /\ n % 2 = 0 => told[n].model = told[n - 1].model
    /\ told[n].event = "complete" => n = Len(told) /\ at.phase = "done"
    /\ r.models # <<>> => ItHasKey(told[n].model)
    /\ (r.models # <<>> /\ told[n].event = "start") => ItCameTo(r, at, told[n].model)
ItClosed(r, at, told) ==
  /\ Len(told) % 2 = 1 <=> ItOpen(at)
  /\ ItOpen(at) => told[Len(told)].model = ItModelAt(r, at.i)
ItInOrder(r, told) ==
  r.models # <<>> =>
    \A n, m \in 1 .. Len(told) : (n < m /\ told[n].event = "start" /\ told[m].event = "start") =>
      \E i, j \in 1 .. Len(r.models) : i < j /\ r.models[i] = told[n].model /\ r.models[j] = told[m].model
ItStory(r, at, told) ==
  /\ told \in Seq(ItTellings)
  /\ ItPaired(r, at, told) /\ ItClosed(r, at, told) /\ ItInOrder(r, told)

(* A tool that answered is over, but for a handler that threw.             *)
ItCounts(at, done) ==
  done \in Nat /\ (~at.hookThrew => done = IF at.phase \in {"tell", "done"} THEN 1 ELSE 0)

ItRunHolds(r, at, told, done) == ItPlace(r, at, told) /\ ItStory(r, at, told) /\ ItCounts(at, done)
ItInv ==
  /\ itAt = [r \in ItRuns |-> itAt[r]] /\ itTold = [r \in ItRuns |-> itTold[r]] /\ itDone = [r \in ItRuns |-> itDone[r]]
  /\ \A r \in ItRuns : ItRunHolds(r, itAt[r], itTold[r], itDone[r])

LEMMA ItParity ==
  ASSUME NEW n \in Nat
  PROVE  (n % 2 = 1 <=> ~(n % 2 = 0)) /\ ((n + 1) % 2 = 1 <=> n % 2 = 0)
  OBVIOUS

LEMMA ItRunsHaveModels ==
  ASSUME NEW r \in ItRuns
  PROVE  /\ r.models \in Seq(DOMAIN ItProvider) /\ Len(r.models) \in Nat /\ (r.models = <<>> <=> Len(r.models) = 0)
         /\ \A i \in 1 .. Len(r.models) : r.models[i] \in DOMAIN ItProvider
<1>1. r.models \in Seq(DOMAIN ItProvider)
  BY ItAssumption
<1> QED BY <1>1, ElementOfSeq, LenProperties, EmptySeq

(* Nothing is told: the tool still runs, or still none does.               *)
LEMMA ItStorySame ==
  ASSUME NEW r, NEW at, NEW to, NEW told, ItStory(r, at, told), at.i \in Nat, to.i \in Nat,
         \/ ItOpen(at) /\ ItOpen(to) /\ to.i = at.i
         \/ at.phase \in {"idle", "pick"} /\ to.phase \in {"pick", "threw"} /\ to.i >= at.i
  PROVE  ItStory(r, to, told)
<1>1. \A m : ItCameTo(r, at, m) => ItCameTo(r, to, m)
  <2> SUFFICES ASSUME NEW m, NEW i \in 1 .. Len(r.models), i < at.i \/ (i = at.i /\ at.phase \in {"execute", "tell", "done"}),
                      r.models[i] = m
        PROVE  ItCameTo(r, to, m)
    BY DEF ItCameTo
  <2>1. i < to.i \/ (i = to.i /\ to.phase \in {"execute", "tell", "done"})
    BY DEF ItOpen
  <2> QED BY <2>1 DEF ItCameTo
<1>2. ItPaired(r, to, told)
  BY <1>1 DEF ItStory, ItPaired, ItOpen
<1>3. ItClosed(r, to, told)
  BY DEF ItStory, ItClosed, ItOpen
<1> QED BY <1>2, <1>3 DEF ItStory

(* A start is told, of the model the run has come to.                      *)
LEMMA ItStoryStarts ==
  ASSUME NEW r \in ItRuns, NEW at, NEW to, NEW told, NEW told2, ItStory(r, at, told), at.phase \in {"idle", "pick"},
         to.phase = "execute", to.i = at.i, at.i \in Nat,
         r.models # <<>> => at.i \in 1 .. Len(r.models) /\ ItHasKey(r.models[at.i]),
         NEW event, event = "start", told2 = Append(told, [event |-> event, model |-> ItModelAt(r, at.i)])
  PROVE  ItStory(r, to, told2)
<1> DEFINE N == Len(told)
           e == [event |-> event, model |-> ItModelAt(r, at.i)]
<1>1. told \in Seq(ItTellings) /\ N \in Nat /\ ItPaired(r, at, told) /\ ItClosed(r, at, told) /\ ItInOrder(r, told)
  BY LenProperties DEF ItStory
<1>2. e \in ItTellings /\ e.event = "start" /\ e.model = ItModelAt(r, at.i)
  BY ItRunsHaveModels DEF ItTellings, ItEvents, ItModelAt
<1> HIDE DEF e
<1>3. /\ told2 \in Seq(ItTellings) /\ Len(told2) = N + 1 /\ told2[N + 1] = e
      /\ \A n \in 1 .. N : told2[n] = told[n]
  BY <1>1, <1>2, AppendProperties DEF e
<1>4. N % 2 = 0 /\ (N + 1) % 2 = 1 /\ (N + 1) % 2 # 0
  <2>1. N % 2 # 1
    BY <1>1 DEF ItClosed, ItOpen
  <2> HIDE DEF N
  <2> QED BY <1>1, <2>1, ItParity
<1> HIDE DEF N
<1>5. \A n \in 1 .. N + 1 : n \in 1 .. N \/ n = N + 1
  BY <1>1
<1>6. \A m : ItCameTo(r, at, m) => ItCameTo(r, to, m)
  BY DEF ItCameTo
<1>7. r.models # <<>> => ItHasKey(e.model) /\ ItCameTo(r, to, e.model)
  BY <1>2 DEF ItModelAt, ItCameTo
<1>8. ItPaired(r, to, told2)
  <2> SUFFICES ASSUME NEW n \in 1 .. N + 1
               PROVE  /\ told2[n].event = "start" <=> n % 2 = 1
                      /\ n % 2 = 0 => told2[n].model = told2[n - 1].model
                      /\ told2[n].event = "complete" => n = Len(told2) /\ to.phase = "done"
                      /\ r.models # <<>> => ItHasKey(told2[n].model)
                      /\ (r.models # <<>> /\ told2[n].event = "start") => ItCameTo(r, to, told2[n].model)
    BY <1>3 DEF ItPaired
  <2>1. CASE n \in 1 .. N
    <3>1. told2[n] = told[n]
      BY <1>3, <2>1
    <3>2. n % 2 = 0 => told2[n - 1] = told[n - 1]
      <4>1. n % 2 = 0 => n # 1 OBVIOUS
      <4>2. n % 2 = 0 => n - 1 \in 1 .. N
        BY <1>1, <2>1, <4>1
      <4> QED BY <1>3, <4>2
    <3>3. /\ told[n].event = "start" <=> n % 2 = 1
          /\ n % 2 = 0 => told[n].model = told[n - 1].model
          /\ told[n].event # "complete"
          /\ r.models # <<>> => ItHasKey(told[n].model)
          /\ (r.models # <<>> /\ told[n].event = "start") => ItCameTo(r, to, told[n].model)
      BY <1>1, <1>6, <2>1 DEF ItPaired, N
    <3> QED BY <3>1, <3>2, <3>3
  <2>2. CASE n = N + 1
    BY <1>2, <1>3, <1>4, <1>7, <2>2
  <2> QED BY <1>5, <2>1, <2>2
<1>9. ItClosed(r, to, told2)
  BY <1>2, <1>3, <1>4 DEF ItClosed, ItOpen
<1>10. ItInOrder(r, told2)
  <2> DEFINE Ordered(n, m) ==
               \E i, j \in 1 .. Len(r.models) : i < j /\ r.models[i] = told2[n].model /\ r.models[j] = told2[m].model
  <2>a. 1 .. Len(told2) = 1 .. N + 1
    BY <1>3
  <2> SUFFICES ASSUME r.models # <<>>, NEW n \in 1 .. N + 1, NEW m \in 1 .. N + 1, n < m, told2[n].event = "start",
                      told2[m].event = "start"
        PROVE  Ordered(n, m)
    <3>1. ItInOrder(r, told2) <=>
            (r.models # <<>> => \A n, m \in 1 .. Len(told2) : (n < m /\ told2[n].event = "start" /\ told2[m].event = "start") => Ordered(n, m))
      BY DEF ItInOrder
    <3> HIDE DEF Ordered
    <3> QED BY <2>a, <3>1
  <2>1. n \in 1 .. N /\ told2[n] = told[n]
    BY <1>1, <1>3
  <2>2. CASE m \in 1 .. N
    <3>1. told2[m] = told[m]
      BY <1>3, <2>2
    <3>2. told[n].event = "start" /\ told[m].event = "start"
      BY <2>1, <3>1
    <3>3. \E i, j \in 1 .. Len(r.models) : i < j /\ r.models[i] = told[n].model /\ r.models[j] = told[m].model
      BY <1>1, <2>1, <2>2, <3>2 DEF ItInOrder, N
    <3> QED BY <2>1, <3>1, <3>3
  <2>3. CASE m = N + 1
    <3>1. ItCameTo(r, at, told[n].model)
      BY <1>1, <2>1 DEF ItPaired, N
    <3>2. PICK i \in 1 .. Len(r.models) : i < at.i /\ r.models[i] = told[n].model
      BY <3>1 DEF ItCameTo
    <3>3. at.i \in 1 .. Len(r.models) /\ r.models[at.i] = told2[m].model
      BY <1>2, <1>3, <2>3 DEF ItModelAt
    <3> QED BY <2>1, <3>2, <3>3
  <2> QED BY <1>5, <2>2, <2>3
<1> QED BY <1>3, <1>8, <1>9, <1>10 DEF ItStory

(* A start is closed, as complete or as an error.                          *)
LEMMA ItStoryCloses ==
  ASSUME NEW r \in ItRuns, NEW at, NEW to, NEW told, NEW told2, NEW event, ItStory(r, at, told), ItOpen(at), at.i \in Nat,
         \/ event = "complete" /\ to.phase = "done" /\ to.i = at.i
         \/ event = "error" /\ to.phase \in {"pick", "threw"} /\ to.i = at.i + 1,
         r.models # <<>> => at.i \in 1 .. Len(r.models) /\ ItHasKey(r.models[at.i]),
         told2 = Append(told, [event |-> event, model |-> ItModelAt(r, at.i)])
  PROVE  ItStory(r, to, told2)
<1> DEFINE N == Len(told)
           e == [event |-> event, model |-> ItModelAt(r, at.i)]
<1>1. told \in Seq(ItTellings) /\ N \in Nat /\ ItPaired(r, at, told) /\ ItClosed(r, at, told) /\ ItInOrder(r, told)
  BY LenProperties DEF ItStory
<1>2. e \in ItTellings /\ e.event = event /\ event # "start" /\ e.model = ItModelAt(r, at.i)
  BY ItRunsHaveModels DEF ItTellings, ItEvents, ItModelAt
<1> HIDE DEF e
<1>3. /\ told2 \in Seq(ItTellings) /\ Len(told2) = N + 1 /\ told2[N + 1] = e
      /\ \A n \in 1 .. N : told2[n] = told[n]
  BY <1>1, <1>2, AppendProperties DEF e
<1>4. N % 2 = 1 /\ (N + 1) % 2 = 0 /\ (N + 1) % 2 # 1 /\ N \in 1 .. N
  <2>1. N % 2 = 1
    BY <1>1 DEF ItClosed
  <2> HIDE DEF N
  <2>2. N # 0
    BY <2>1
  <2>3. N + 1 \in Nat
    BY <1>1
  <2>4. (N + 1) % 2 # 1
    BY <1>1, <2>1, ItParity
  <2>5. (N + 1) % 2 = 0
    BY <2>3, <2>4, ItParity
  <2> QED BY <1>1, <2>1, <2>2, <2>4, <2>5
<1>5. told2[N].model = e.model
  BY <1>1, <1>2, <1>3, <1>4 DEF ItClosed
<1> HIDE DEF N
<1>6. \A n \in 1 .. N + 1 : n \in 1 .. N \/ n = N + 1
  BY <1>1
<1>7. \A m : ItCameTo(r, at, m) => ItCameTo(r, to, m)
  <2> SUFFICES ASSUME NEW m, NEW i \in 1 .. Len(r.models), i < at.i \/ i = at.i, r.models[i] = m
        PROVE  ItCameTo(r, to, m)
    BY DEF ItCameTo
  <2>1. i < to.i \/ (i = to.i /\ to.phase \in {"execute", "tell", "done"}) OBVIOUS
  <2> QED BY <2>1 DEF ItCameTo
<1>8. r.models # <<>> => ItHasKey(e.model)
  BY <1>2 DEF ItModelAt
<1>9. ItPaired(r, to, told2)
  <2> SUFFICES ASSUME NEW n \in 1 .. N + 1
               PROVE  /\ told2[n].event = "start" <=> n % 2 = 1
                      /\ n % 2 = 0 => told2[n].model = told2[n - 1].model
                      /\ told2[n].event = "complete" => n = Len(told2) /\ to.phase = "done"
                      /\ r.models # <<>> => ItHasKey(told2[n].model)
                      /\ (r.models # <<>> /\ told2[n].event = "start") => ItCameTo(r, to, told2[n].model)
    BY <1>3 DEF ItPaired
  <2>1. CASE n \in 1 .. N
    <3>1. told2[n] = told[n]
      BY <1>3, <2>1
    <3>2. n % 2 = 0 => told2[n - 1] = told[n - 1]
      <4>1. n % 2 = 0 => n # 1 OBVIOUS
      <4>2. n % 2 = 0 => n - 1 \in 1 .. N
        BY <1>1, <2>1, <4>1
      <4> QED BY <1>3, <4>2
    <3>3. /\ told[n].event = "start" <=> n % 2 = 1
          /\ n % 2 = 0 => told[n].model = told[n - 1].model
          /\ told[n].event # "complete"
          /\ r.models # <<>> => ItHasKey(told[n].model)
          /\ (r.models # <<>> /\ told[n].event = "start") => ItCameTo(r, to, told[n].model)
      <4>1. at.phase # "done"
        BY DEF ItOpen
      <4>2. /\ told[n].event = "start" <=> n % 2 = 1
            /\ n % 2 = 0 => told[n].model = told[n - 1].model
            /\ told[n].event = "complete" => at.phase = "done"
            /\ r.models # <<>> => ItHasKey(told[n].model)
            /\ (r.models # <<>> /\ told[n].event = "start") => ItCameTo(r, at, told[n].model)
        BY <1>1, <2>1 DEF ItPaired, N
      <4> QED BY <1>7, <4>1, <4>2
    <3>4. n # Len(told2)
      BY <1>1, <1>3, <2>1
    <3>5. told2[n].event = told[n].event /\ told2[n].model = told[n].model
      BY <3>1
    <3>6. n % 2 = 0 => told2[n].model = told2[n - 1].model
      BY <3>2, <3>3, <3>5
    <3> QED BY <3>3, <3>5, <3>6
  <2>2. CASE n = N + 1
    <3>1. n - 1 = N
      BY <1>1, <2>2
    <3> QED BY <1>2, <1>3, <1>4, <1>5, <1>8, <2>2, <3>1
  <2> QED BY <1>6, <2>1, <2>2
<1>10. ItClosed(r, to, told2)
  BY <1>3, <1>4 DEF ItClosed, ItOpen
<1>11. ItInOrder(r, told2)
  <2> DEFINE Ordered(n, m) ==
               \E i, j \in 1 .. Len(r.models) : i < j /\ r.models[i] = told2[n].model /\ r.models[j] = told2[m].model
  <2>a. 1 .. Len(told2) = 1 .. N + 1
    BY <1>3
  <2> SUFFICES ASSUME r.models # <<>>, NEW n \in 1 .. N + 1, NEW m \in 1 .. N + 1, n < m, told2[n].event = "start",
                      told2[m].event = "start"
        PROVE  Ordered(n, m)
    <3>1. ItInOrder(r, told2) <=>
            (r.models # <<>> => \A n, m \in 1 .. Len(told2) : (n < m /\ told2[n].event = "start" /\ told2[m].event = "start") => Ordered(n, m))
      BY DEF ItInOrder
    <3> HIDE DEF Ordered
    <3> QED BY <2>a, <3>1
  <2>1. n \in 1 .. N /\ m \in 1 .. N
    BY <1>2, <1>3, <1>6
  <2>2. told2[n] = told[n] /\ told2[m] = told[m]
    BY <1>3, <2>1
  <2>3. told[n].event = "start" /\ told[m].event = "start"
    BY <2>2
  <2>4. \E i, j \in 1 .. Len(r.models) : i < j /\ r.models[i] = told[n].model /\ r.models[j] = told[m].model
    BY <1>1, <2>1, <2>3 DEF ItInOrder, N
  <2> QED BY <2>2, <2>4
<1> QED BY <1>3, <1>9, <1>10, <1>11 DEF ItStory

(* A step of one run leaves the others' stories alone.                     *)
LEMMA ItOthersStay ==
  ASSUME ItInv, NEW r \in ItRuns, NEW at, NEW told, NEW done,
         itAt' = [itAt EXCEPT ![r] = at], itTold' = [itTold EXCEPT ![r] = told], itDone' = [itDone EXCEPT ![r] = done],
         ItRunHolds(r, at, told, done)
  PROVE  ItInv'
<1>1. /\ itAt' = [q \in ItRuns |-> itAt'[q]] /\ itTold' = [q \in ItRuns |-> itTold'[q]] /\ itDone' = [q \in ItRuns |-> itDone'[q]]
      /\ itAt'[r] = at /\ itTold'[r] = told /\ itDone'[r] = done
  BY DEF ItInv
<1>2. \A q \in ItRuns : q # r => itAt'[q] = itAt[q] /\ itTold'[q] = itTold[q] /\ itDone'[q] = itDone[q]
  BY DEF ItInv
<1>3. \A q \in ItRuns : ItRunHolds(q, itAt[q], itTold[q], itDone[q])
  BY DEF ItInv
<1>4. \A q \in ItRuns : ItRunHolds(q, itAt'[q], itTold'[q], itDone'[q])
  <2> SUFFICES ASSUME NEW q \in ItRuns PROVE ItRunHolds(q, itAt'[q], itTold'[q], itDone'[q]) OBVIOUS
  <2>1. CASE q = r
    BY <1>1, <2>1
  <2>2. CASE q # r
    BY <1>2, <1>3, <2>2
  <2> QED BY <2>1, <2>2
<1> QED BY <1>1, <1>4 DEF ItInv

LEMMA ItRunOf ==
  ASSUME ItInv, NEW r \in ItRuns
  PROVE  /\ ItRunHolds(r, itAt[r], itTold[r], itDone[r]) /\ r \in DOMAIN itAt /\ r \in DOMAIN itTold /\ r \in DOMAIN itDone
         /\ DOMAIN itAt[r] = {"phase", "i", "hookThrew"} /\ itAt[r].i \in Nat /\ itAt[r].hookThrew \in BOOLEAN
         /\ UNCHANGED itTold => itTold' = [itTold EXCEPT ![r] = itTold[r]]
         /\ UNCHANGED itDone => itDone' = [itDone EXCEPT ![r] = itDone[r]]
<1>1. ItRunHolds(r, itAt[r], itTold[r], itDone[r]) /\ DOMAIN itAt = ItRuns /\ DOMAIN itTold = ItRuns /\ DOMAIN itDone = ItRuns
  BY DEF ItInv
<1>2. UNCHANGED itTold => itTold' = [itTold EXCEPT ![r] = itTold[r]]
  <2>1. itTold = [q \in ItRuns |-> itTold[q]]
    BY DEF ItInv
  <2>2. [itTold EXCEPT ![r] = itTold[r]] = itTold
    BY <2>1
  <2> QED BY <2>2
<1>3. UNCHANGED itDone => itDone' = [itDone EXCEPT ![r] = itDone[r]]
  <2>1. itDone = [q \in ItRuns |-> itDone[q]]
    BY DEF ItInv
  <2>2. [itDone EXCEPT ![r] = itDone[r]] = itDone
    BY <2>1
  <2> QED BY <2>2
<1> QED BY <1>1, <1>2, <1>3 DEF ItRunHolds, ItPlace

(* A run that goes nowhere: out, or to its first model.                    *)
LEMMA ItGoesKeeps ==
  ASSUME ItInv, NEW r \in ItRuns, NEW to, itAt' = [itAt EXCEPT ![r] = to], UNCHANGED <<itTold, itDone>>,
         DOMAIN to = {"phase", "i", "hookThrew"}, to.hookThrew = itAt[r].hookThrew, to.i \in Nat, to.i >= itAt[r].i,
         itAt[r].phase \in {"idle", "pick"}, to.phase \in {"pick", "threw"},
         to.phase = "pick" => r.models # <<>> /\ to.i > 0
  PROVE  ItInv'
<1> DEFINE at == itAt[r]
           told == itTold[r]
           done == itDone[r]
<1>1. ItRunHolds(r, at, told, done) /\ at.i \in Nat
  BY ItRunOf
<1>2. itTold' = [itTold EXCEPT ![r] = told] /\ itDone' = [itDone EXCEPT ![r] = done]
  BY ItRunOf
<1>3. at.phase \in {"idle", "pick"} /\ to.hookThrew = at.hookThrew /\ to.i >= at.i OBVIOUS
<1> HIDE DEF at, told, done
<1>4. ItStory(r, to, told)
  BY <1>1, <1>3, ItStorySame DEF ItRunHolds
<1>5. ItPlace(r, to, told)
  BY <1>1, <1>3 DEF ItRunHolds, ItPlace, ItPhases, ItOpen
<1>6. ItCounts(to, done)
  BY <1>1, <1>3 DEF ItRunHolds, ItCounts
<1> QED BY <1>2, <1>4, <1>5, <1>6, ItOthersStay DEF ItRunHolds

(* A run that begins at the model it has come to.                          *)
LEMMA ItBeginsKeeps ==
  ASSUME ItInv, NEW r \in ItRuns, itAt[r].phase \in {"idle", "pick"}, ItGo(r, "execute"), ItTell(r, "start", ItModelAt(r, itAt[r].i)),
         r.models # <<>> => itAt[r].i \in 1 .. Len(r.models) /\ ItHasKey(r.models[itAt[r].i]), UNCHANGED itDone
  PROVE  ItInv'
<1> DEFINE at == itAt[r]
           told == itTold[r]
           done == itDone[r]
           to == [at EXCEPT !.phase = "execute"]
           told2 == Append(told, [event |-> "start", model |-> ItModelAt(r, at.i)])
<1>1. ItRunHolds(r, at, told, done) /\ at.i \in Nat
  BY ItRunOf
<1>2. itAt' = [itAt EXCEPT ![r] = to] /\ itTold' = [itTold EXCEPT ![r] = told2] /\ itDone' = [itDone EXCEPT ![r] = done]
  BY ItRunOf DEF ItGo, ItTell
<1>3. DOMAIN to = {"phase", "i", "hookThrew"} /\ to.phase = "execute" /\ to.i = at.i /\ to.hookThrew = at.hookThrew
  BY ItRunOf
<1>4. at.phase \in {"idle", "pick"} /\ (r.models # <<>> => at.i \in 1 .. Len(r.models) /\ ItHasKey(r.models[at.i]))
      /\ at.hookThrew \in BOOLEAN
  BY ItRunOf
<1>a. told2 = Append(told, [event |-> "start", model |-> ItModelAt(r, at.i)]) OBVIOUS
<1> HIDE DEF at, told, done, to, told2
<1>b. ItStory(r, at, told)
  BY <1>1 DEF ItRunHolds
<1>5. ItStory(r, to, told2)
  <2>1. to.phase = "execute" /\ to.i = at.i /\ at.i \in Nat /\ at.phase \in {"idle", "pick"}
    BY <1>1, <1>3, <1>4
  <2>2. r.models # <<>> => at.i \in 1 .. Len(r.models) /\ ItHasKey(r.models[at.i])
    BY <1>4
  <2> QED BY <1>a, <1>b, <2>1, <2>2, ItStoryStarts
<1>6. ItPlace(r, to, told2)
  BY <1>1, <1>3, <1>4 DEF ItPlace, ItPhases, ItOpen
<1>7. ItCounts(to, done)
  BY <1>1, <1>3, <1>4 DEF ItRunHolds, ItCounts
<1> QED BY <1>2, <1>5, <1>6, <1>7, ItOthersStay DEF ItRunHolds

(* A run whose tool, or whose completion hook, threw.                      *)
LEMMA ItErrsKeeps ==
  ASSUME ItInv, NEW r \in ItRuns, NEW threw \in BOOLEAN, ItOpen(itAt[r]), itAt[r].phase = "tell" => threw,
         ItTell(r, "error", ItModelAt(r, itAt[r].i)), UNCHANGED itDone,
         itAt' = [itAt EXCEPT ![r] = [itAt[r] EXCEPT !.phase = IF r.models = <<>> THEN "threw" ELSE "pick",
                                                     !.i = itAt[r].i + 1, !.hookThrew = threw]],
         itAt[r].hookThrew => threw
  PROVE  ItInv'
<1> DEFINE at == itAt[r]
           told == itTold[r]
           done == itDone[r]
           phase == IF r.models = <<>> THEN "threw" ELSE "pick"
           i == at.i + 1
           to == [at EXCEPT !.phase = phase, !.i = i, !.hookThrew = threw]
           told2 == Append(told, [event |-> "error", model |-> ItModelAt(r, at.i)])
<1>1. ItRunHolds(r, at, told, done) /\ at.i \in Nat
  BY ItRunOf
<1>2. itAt' = [itAt EXCEPT ![r] = to] /\ itTold' = [itTold EXCEPT ![r] = told2] /\ itDone' = [itDone EXCEPT ![r] = done]
  BY ItRunOf DEF ItTell
<1> HIDE DEF phase, i
<1>3. DOMAIN to = {"phase", "i", "hookThrew"} /\ to.phase = phase /\ to.i = i /\ to.hookThrew = threw
  BY ItRunOf
<1>4. ItOpen(at) /\ (at.phase = "tell" => threw) /\ (at.hookThrew => threw) OBVIOUS
<1>a. told2 = Append(told, [event |-> "error", model |-> ItModelAt(r, at.i)]) OBVIOUS
<1> HIDE DEF at, told, done, to, told2
<1>b. ItStory(r, at, told)
  BY <1>1 DEF ItRunHolds
<1>5. i = at.i + 1 /\ i \in Nat /\ i > 0 /\ phase \in {"pick", "threw"} /\ (phase = "pick" => r.models # <<>>)
  BY <1>1 DEF i, phase
<1>6. r.models # <<>> => at.i \in 1 .. Len(r.models) /\ ItHasKey(r.models[at.i])
  BY <1>1, <1>4 DEF ItRunHolds, ItPlace
<1>7. ItStory(r, to, told2)
  <2>1. to.phase \in {"pick", "threw"} /\ to.i = at.i + 1
    BY <1>3, <1>5
  <2> QED BY <1>1, <1>4, <1>6, <1>a, <1>b, <2>1, ItStoryCloses
<1>8. ItPlace(r, to, told2)
  BY <1>3, <1>5 DEF ItPlace, ItPhases, ItOpen
<1>9. ItCounts(to, done)
  BY <1>1, <1>3, <1>4, <1>5 DEF ItRunHolds, ItCounts, ItOpen
<1> QED BY <1>2, <1>7, <1>8, <1>9, ItOthersStay DEF ItRunHolds

LEMMA ItModelIs == ASSUME NEW r \in ItRuns PROVE ItModel(r) = ItModelAt(r, itAt[r].i)
  BY DEF ItModel, ItModelAt

LEMMA ItRunKeeps == ASSUME ItInv, NEW r \in ItRuns, ItRun(r) PROVE ItInv'
<1>1. /\ itAt[r].phase = "idle" /\ itAt[r].i \in Nat /\ DOMAIN itAt[r] = {"phase", "i", "hookThrew"} /\ UNCHANGED itDone
      /\ UNCHANGED itTold => itTold' = [itTold EXCEPT ![r] = itTold[r]]
  BY ItRunOf DEF ItRun
<1>2. CASE ItGo(r, "threw") /\ UNCHANGED itTold
  <2> DEFINE to == [itAt[r] EXCEPT !.phase = "threw"]
  <2>1. itAt' = [itAt EXCEPT ![r] = to]
    BY <1>2 DEF ItGo
  <2>2. DOMAIN to = {"phase", "i", "hookThrew"} /\ to.hookThrew = itAt[r].hookThrew /\ to.i = itAt[r].i /\ to.phase = "threw"
    BY <1>1
  <2> HIDE DEF to
  <2>3. to.i \in Nat /\ to.i >= itAt[r].i
    BY <1>1, <2>2
  <2> QED BY <1>1, <1>2, <2>1, <2>2, <2>3, ItGoesKeeps
<1>3. CASE r.models = <<>> /\ ItGo(r, "execute") /\ ItTell(r, "start", "none")
  <2>1. ItModelAt(r, itAt[r].i) = "none"
    BY <1>3 DEF ItModelAt
  <2> QED BY <1>1, <1>3, <2>1, ItBeginsKeeps
<1>4. CASE /\ r.models # <<>>
           /\ itAt' = [itAt EXCEPT ![r].phase = IF \E n \in 1 .. Len(r.models) : ItHasKey(r.models[n]) THEN "pick" ELSE "threw", ![r].i = 1]
           /\ UNCHANGED itTold
  <2> DEFINE phase == IF \E n \in 1 .. Len(r.models) : ItHasKey(r.models[n]) THEN "pick" ELSE "threw"
             to == [itAt[r] EXCEPT !.phase = phase, !.i = 1]
  <2>1. itAt' = [itAt EXCEPT ![r] = to] /\ phase \in {"pick", "threw"}
    BY <1>4
  <2> HIDE DEF phase
  <2>2. DOMAIN to = {"phase", "i", "hookThrew"} /\ to.hookThrew = itAt[r].hookThrew /\ to.i = 1 /\ to.phase = phase
    BY <1>1
  <2> HIDE DEF to
  <2>3. itAt[r].i = 0
    <3>1. ItRunHolds(r, itAt[r], itTold[r], itDone[r])
      BY ItRunOf
    <3> QED BY <1>1, <3>1 DEF ItRunHolds, ItPlace
  <2>4. to.i \in Nat /\ to.i >= itAt[r].i /\ to.i > 0
    BY <2>2, <2>3
  <2>5. to.phase \in {"pick", "threw"} /\ itAt[r].phase \in {"idle", "pick"}
    BY <1>1, <2>1, <2>2
  <2> QED BY <1>1, <1>4, <2>1, <2>2, <2>4, <2>5, ItGoesKeeps
<1> QED BY <1>2, <1>3, <1>4 DEF ItRun

LEMMA ItPickKeeps == ASSUME ItInv, NEW r \in ItRuns, ItPick(r) PROVE ItInv'
<1>1. /\ itAt[r].phase = "pick" /\ itAt[r].i \in Nat /\ DOMAIN itAt[r] = {"phase", "i", "hookThrew"} /\ UNCHANGED itDone
  BY ItRunOf DEF ItPick
<1>2. r.models # <<>> /\ itAt[r].i > 0
  <2>1. ItRunHolds(r, itAt[r], itTold[r], itDone[r])
    BY ItRunOf
  <2> QED BY <1>1, <2>1 DEF ItRunHolds, ItPlace
<1>3. ItModel(r) = r.models[itAt[r].i] /\ ItModelAt(r, itAt[r].i) = ItModel(r)
  BY <1>2 DEF ItModel, ItModelAt
<1>4. CASE ItGo(r, "threw") /\ UNCHANGED itTold
  <2> DEFINE to == [itAt[r] EXCEPT !.phase = "threw"]
  <2>1. itAt' = [itAt EXCEPT ![r] = to]
    BY <1>4 DEF ItGo
  <2>2. DOMAIN to = {"phase", "i", "hookThrew"} /\ to.hookThrew = itAt[r].hookThrew /\ to.i = itAt[r].i /\ to.phase = "threw"
    BY <1>1
  <2> HIDE DEF to
  <2>3. to.i \in Nat /\ to.i >= itAt[r].i
    BY <1>1, <2>2
  <2> QED BY <1>1, <1>4, <2>1, <2>2, <2>3, ItGoesKeeps
<1>5. CASE itAt' = [itAt EXCEPT ![r].i = @ + 1] /\ UNCHANGED itTold
  <2> DEFINE i == itAt[r].i + 1
             to == [itAt[r] EXCEPT !.i = i]
  <2>1. itAt' = [itAt EXCEPT ![r] = to]
    BY <1>1, <1>5
  <2>2. i \in Nat /\ i >= itAt[r].i /\ i > 0
    BY <1>1
  <2> HIDE DEF i
  <2>3. DOMAIN to = {"phase", "i", "hookThrew"} /\ to.hookThrew = itAt[r].hookThrew /\ to.i = i /\ to.phase = "pick"
    BY <1>1
  <2> HIDE DEF to
  <2> QED BY <1>1, <1>2, <1>5, <2>1, <2>2, <2>3, ItGoesKeeps
<1>6. CASE /\ itAt[r].i <= Len(r.models) /\ ItHasKey(ItModel(r))
           /\ ItTell(r, "start", ItModel(r)) /\ ItGo(r, "execute")
  <2>1. itAt[r].i \in 1 .. Len(r.models)
    BY <1>1, <1>2, <1>6, ItRunsHaveModels
  <2> QED BY <1>1, <1>3, <1>6, <2>1, ItBeginsKeeps
<1> QED BY <1>4, <1>5, <1>6 DEF ItPick

LEMMA ItFailsKeeps == ASSUME ItInv, NEW r \in ItRuns, ItFails(r) PROVE ItInv'
<1>1. /\ itAt[r].phase = "execute" /\ DOMAIN itAt[r] = {"phase", "i", "hookThrew"} /\ UNCHANGED itDone
      /\ itAt[r].hookThrew \in BOOLEAN /\ itAt[r].i \in Nat
  BY ItRunOf DEF ItFails
<1>2. ItTell(r, "error", ItModelAt(r, itAt[r].i)) /\ ItOpen(itAt[r])
  BY <1>1, ItModelIs DEF ItFails, ItTellError, ItOpen
<1> DEFINE threw == itAt[r].hookThrew
           i == itAt[r].i + 1
           phase == IF r.models = <<>> THEN "threw" ELSE "pick"
           to == [itAt[r] EXCEPT !.phase = phase, !.i = i, !.hookThrew = threw]
<1>3. itAt' = [itAt EXCEPT ![r] = to]
  <2> DEFINE too == [itAt[r] EXCEPT !.phase = phase, !.i = i]
  <2>1. itAt' = [itAt EXCEPT ![r] = too]
    BY <1>1 DEF ItFails
  <2> HIDE DEF phase, i
  <2>2. too = to
    BY <1>1
  <2> HIDE DEF too, to
  <2> QED BY <2>1, <2>2
<1>4. threw \in BOOLEAN /\ (itAt[r].phase = "tell" => threw) /\ (itAt[r].hookThrew => threw)
  BY <1>1
<1> QED BY <1>1, <1>2, <1>3, <1>4, ItErrsKeeps

LEMMA ItSucceedsKeeps == ASSUME ItInv, NEW r \in ItRuns, ItSucceeds(r) PROVE ItInv'
<1> DEFINE at == itAt[r]
           told == itTold[r]
           done == itDone[r]
           n == done + 1
           to == [at EXCEPT !.phase = "tell"]
<1>1. ItRunHolds(r, at, told, done) /\ at.i \in Nat /\ at.phase = "execute"
  BY ItRunOf DEF ItSucceeds
<1>2. itAt' = [itAt EXCEPT ![r] = to] /\ itTold' = [itTold EXCEPT ![r] = told] /\ itDone' = [itDone EXCEPT ![r] = n]
  BY ItRunOf DEF ItGo, ItSucceeds
<1>3. DOMAIN to = {"phase", "i", "hookThrew"} /\ to.phase = "tell" /\ to.i = at.i /\ to.hookThrew = at.hookThrew
  BY ItRunOf
<1> HIDE DEF at, told, done, to
<1>4. ItStory(r, to, told)
  BY <1>1, <1>3, ItStorySame DEF ItRunHolds, ItOpen
<1>5. ItPlace(r, to, told)
  BY <1>1, <1>3 DEF ItRunHolds, ItPlace, ItPhases, ItOpen
<1>6. ItCounts(to, n)
  BY <1>1, <1>3 DEF ItRunHolds, ItCounts
<1> HIDE DEF n
<1> QED BY <1>2, <1>4, <1>5, <1>6, ItOthersStay DEF ItRunHolds

LEMMA ItTellsKeeps == ASSUME ItInv, NEW r \in ItRuns, ItTells(r) PROVE ItInv'
<1>1. /\ itAt[r].phase = "tell" /\ DOMAIN itAt[r] = {"phase", "i", "hookThrew"} /\ UNCHANGED itDone
      /\ itAt[r].hookThrew \in BOOLEAN /\ itAt[r].i \in Nat
  BY ItRunOf DEF ItTells
<1>2. CASE ItTell(r, "complete", ItModel(r)) /\ ItGo(r, "done")
  <2> DEFINE at == itAt[r]
             told == itTold[r]
             done == itDone[r]
             to == [at EXCEPT !.phase = "done"]
             told2 == Append(told, [event |-> "complete", model |-> ItModelAt(r, at.i)])
  <2>1. ItRunHolds(r, at, told, done) /\ at.i \in Nat /\ at.phase = "tell" /\ at.hookThrew \in BOOLEAN
    BY <1>1, ItRunOf
  <2>2. itAt' = [itAt EXCEPT ![r] = to] /\ itTold' = [itTold EXCEPT ![r] = told2] /\ itDone' = [itDone EXCEPT ![r] = done]
    BY <1>1, <1>2, ItRunOf, ItModelIs DEF ItGo, ItTell
  <2>3. DOMAIN to = {"phase", "i", "hookThrew"} /\ to.phase = "done" /\ to.i = at.i /\ to.hookThrew = at.hookThrew
    BY <1>1
  <2> HIDE DEF at, told, done, to
  <2>4. ItOpen(at)
    BY <2>1 DEF ItOpen
  <2>5. r.models # <<>> => at.i \in 1 .. Len(r.models) /\ ItHasKey(r.models[at.i])
    BY <2>1, <2>4 DEF ItRunHolds, ItPlace
  <2>6. ItStory(r, to, told2)
    BY <2>1, <2>3, <2>4, <2>5, ItStoryCloses DEF ItRunHolds
  <2> HIDE DEF told2
  <2>7. ItPlace(r, to, told2)
    BY <2>1, <2>3 DEF ItPlace, ItPhases, ItOpen
  <2>8. ItCounts(to, done)
    BY <2>1, <2>3 DEF ItRunHolds, ItCounts
  <2> QED BY <2>2, <2>6, <2>7, <2>8, ItOthersStay DEF ItRunHolds
<1>3. CASE /\ ItTellError(r)
           /\ itAt' = [itAt EXCEPT ![r].phase = IF r.models = <<>> THEN "threw" ELSE "pick", ![r].i = @ + 1, ![r].hookThrew = TRUE]
  <2> DEFINE threw == TRUE
             i == itAt[r].i + 1
             phase == IF r.models = <<>> THEN "threw" ELSE "pick"
             to == [itAt[r] EXCEPT !.phase = phase, !.i = i, !.hookThrew = threw]
  <2>1. ItTell(r, "error", ItModelAt(r, itAt[r].i)) /\ ItOpen(itAt[r])
    BY <1>1, <1>3, ItModelIs DEF ItTellError, ItOpen
  <2>2. itAt' = [itAt EXCEPT ![r] = to]
    BY <1>1, <1>3
  <2>3. threw \in BOOLEAN /\ (itAt[r].phase = "tell" => threw) /\ (itAt[r].hookThrew => threw) OBVIOUS
  <2> QED BY <1>1, <2>1, <2>2, <2>3, ItErrsKeeps
<1> QED BY <1>2, <1>3 DEF ItTells

LEMMA ItInvInit == ItInit => ItInv
<1> SUFFICES ASSUME ItInit PROVE ItInv OBVIOUS
<1> DEFINE at == [phase |-> "idle", i |-> 0, hookThrew |-> FALSE]
<1>1. /\ itAt = [r \in ItRuns |-> itAt[r]] /\ itTold = [r \in ItRuns |-> itTold[r]] /\ itDone = [r \in ItRuns |-> itDone[r]]
      /\ \A r \in ItRuns : itAt[r] = at /\ itTold[r] = <<>> /\ itDone[r] = 0
  BY DEF ItInit
<1>2. DOMAIN at = {"phase", "i", "hookThrew"} /\ at.phase = "idle" /\ at.i = 0 /\ at.hookThrew = FALSE
  OBVIOUS
<1>a. at.i \in Nat OBVIOUS
<1>b. at.hookThrew \in BOOLEAN OBVIOUS
<1> HIDE DEF at
<1>3. \A r \in ItRuns : ItPlace(r, at, <<>>)
  BY <1>2, <1>a, <1>b DEF ItPlace, ItPhases, ItOpen
<1>4. \A r \in ItRuns : ItStory(r, at, <<>>)
  <2>1. <<>> \in Seq(ItTellings) /\ Len(<<>>) = 0 /\ 0 % 2 # 1
    BY EmptySeq
  <2> QED BY <1>2, <2>1 DEF ItStory, ItPaired, ItClosed, ItInOrder, ItOpen
<1>5. ItCounts(at, 0)
  BY <1>2 DEF ItCounts
<1> QED BY <1>1, <1>3, <1>4, <1>5 DEF ItInv, ItRunHolds

LEMMA ItInvNext == ItInv /\ [ItNext]_itVars => ItInv'
<1> SUFFICES ASSUME ItInv, [ItNext]_itVars PROVE ItInv' OBVIOUS
<1>1. CASE UNCHANGED <<itAt, itTold, itDone>>
  BY <1>1 DEF ItInv
<1>2. ASSUME NEW r \in ItRuns, ItRun(r) \/ ItPick(r) \/ ItFails(r) \/ ItSucceeds(r) \/ ItTells(r)
      PROVE  ItInv'
  BY <1>2, ItRunKeeps, ItPickKeeps, ItFailsKeeps, ItSucceedsKeeps, ItTellsKeeps
<1> QED BY <1>1, <1>2 DEF ItNext, ItDestroy, itVars

LEMMA ItInvImplies == ItInv => ItStoryHolds /\ ItRunsOnce /\ \A r \in ItRuns : itAt[r].phase \in ItPhases
<1> SUFFICES ASSUME ItInv, NEW r \in ItRuns
             PROVE  /\ LET told == itTold[r] IN
                         /\ \A n \in 1 .. Len(told) :
                              /\ (told[n].event = "start") <=> (n % 2 = 1)
                              /\ n % 2 = 0 => told[n].model = told[n - 1].model
                              /\ told[n].event = "complete" => n = Len(told)
                              /\ r.models # <<>> => ItHasKey(told[n].model)
                         /\ itAt[r].phase \in {"done", "threw"} => Len(told) % 2 = 0
                         /\ r.models # <<>> =>
                              \A n, m \in 1 .. Len(told) : (n < m /\ told[n].event = "start" /\ told[m].event = "start") =>
                                \E i, j \in 1 .. Len(r.models) : i < j /\ r.models[i] = told[n].model /\ r.models[j] = told[m].model
                    /\ itDone[r] > 1 => itAt[r].hookThrew
                    /\ itAt[r].phase \in ItPhases
  BY DEF ItStoryHolds, ItRunsOnce
<1>1. ItRunHolds(r, itAt[r], itTold[r], itDone[r])
  BY ItRunOf
<1> DEFINE told == itTold[r]
           at == itAt[r]
           done == itDone[r]
<1>2. ItPlace(r, at, told) /\ ItPaired(r, at, told) /\ ItClosed(r, at, told) /\ ItInOrder(r, told) /\ ItCounts(at, done) /\ Len(told) \in Nat
  BY <1>1, LenProperties DEF ItRunHolds, ItStory
<1> HIDE DEF told, at, done
<1>3. \A n \in 1 .. Len(told) :
        /\ told[n].event = "start" <=> n % 2 = 1
        /\ n % 2 = 0 => told[n].model = told[n - 1].model
        /\ told[n].event = "complete" => n = Len(told)
        /\ r.models # <<>> => ItHasKey(told[n].model)
  BY <1>2 DEF ItPaired
<1>4. at.phase \in {"done", "threw"} => Len(told) % 2 = 0
  BY <1>2, ItParity DEF ItClosed, ItOpen
<1>5. done > 1 => at.hookThrew
  BY <1>2 DEF ItCounts
<1>6. at.phase \in ItPhases
  BY <1>2 DEF ItPlace
<1>7. r.models # <<>> =>
        \A n, m \in 1 .. Len(told) : (n < m /\ told[n].event = "start" /\ told[m].event = "start") =>
          \E i, j \in 1 .. Len(r.models) : i < j /\ r.models[i] = told[n].model /\ r.models[j] = told[m].model
  BY <1>2 DEF ItInOrder
<1> QED BY <1>3, <1>4, <1>5, <1>6, <1>7 DEF told, at, done

(* RunnersFaithful, for any backends, tools, lookups, runs, models and     *)
(* keys: a cache that saw every change agrees with the backends, what the  *)
(* hooks tell of a run pairs up in the order of preference, and no tool    *)
(* that answered is run again but for a hook that threw.                   *)
THEOREM RunnersStayFaithful == PluginsSpec => []RunnersFaithful
<1> DEFINE Inv == turn \in {"registry", "runner"} => RgInv /\ ItInv
<1>1. PluginsInit => Inv
  BY RgInvInit, ItInvInit DEF PluginsInit
<1>2. Inv /\ [PluginsNext]_PluginsVars => Inv'
  <2> SUFFICES ASSUME Inv, [PluginsNext]_PluginsVars, turn' \in {"registry", "runner"} PROVE RgInv' /\ ItInv'
    OBVIOUS
  <2>1. turn \in {"registry", "runner"}
    BY DEF PluginsNext, PluginsVars
  <2>2. [RgNext]_rgVars /\ [ItNext]_itVars
    BY <2>1 DEF PluginsNext, PluginsVars, runnerVars
  <2> QED BY <2>1, <2>2, RgInvNext, ItInvNext
<1>3. Inv => RunnersFaithful
  BY RgInvImplies, ItInvImplies DEF RunnersFaithful, ItFaithful
<1> QED BY <1>1, <1>2, <1>3, PTL DEF PluginsSpec
-----------------------------------------------------------------------------
(* Sequences by their places alone.                                        *)
IsPlaced(s) == Len(s) \in Nat /\ s = [i \in 1 .. Len(s) |-> s[i]]

LEMMA PlacedOf ==
  ASSUME NEW n \in Nat, NEW s, s = [i \in 1 .. n |-> s[i]]
  PROVE  IsPlaced(s) /\ Len(s) = n
<1> DEFINE S == {s[i] : i \in 1 .. n}
<1>1. s \in Seq(S)
  BY DEF S
<1>2. DOMAIN s = 1 .. n OBVIOUS
<1>3. Len(s) = n
  BY <1>1, <1>2, LenProperties
<1> QED BY <1>3 DEF IsPlaced

LEMMA PlacedAppend ==
  ASSUME NEW s, NEW e, NEW t, IsPlaced(s), t = Append(s, e)
  PROVE  IsPlaced(t) /\ Len(t) = Len(s) + 1 /\ t[Len(s) + 1] = e /\ \A i \in 1 .. Len(s) : t[i] = s[i]
<1> DEFINE n == Len(s)
           S == {s[i] : i \in 1 .. n} \cup {e}
<1>1. s \in Seq(S) /\ e \in S
  BY DEF IsPlaced
<1> HIDE DEF S
<1>2. t \in Seq(S) /\ Len(t) = n + 1 /\ t[n + 1] = e /\ \A i \in 1 .. n : t[i] = s[i]
  BY <1>1, AppendProperties
<1>3. t \in [1 .. Len(t) -> S] /\ Len(t) \in Nat
  BY <1>2, LenProperties
<1>4. t = [i \in 1 .. Len(t) |-> t[i]]
  BY <1>3
<1> QED BY <1>2, <1>3, <1>4 DEF IsPlaced

LEMMA PlacedExcept ==
  ASSUME NEW s, NEW j \in 1 .. Len(s), NEW e, NEW t, IsPlaced(s), t = [s EXCEPT ![j] = e]
  PROVE  IsPlaced(t) /\ Len(t) = Len(s) /\ t[j] = e /\ \A i \in 1 .. Len(s) : i # j => t[i] = s[i]
<1> DEFINE n == Len(s)
<1>1. n \in Nat /\ DOMAIN s = 1 .. n
  BY DEF IsPlaced
<1>2. t = [i \in 1 .. n |-> t[i]] /\ t[j] = e /\ \A i \in 1 .. n : i # j => t[i] = s[i]
  BY <1>1
<1> QED BY <1>1, <1>2, PlacedOf

-----------------------------------------------------------------------------
(* The cache.                                                              *)

(* What an operation carries.                                              *)
ChJobIs(job, clock) ==
  /\ job.op \in {"get", "set", "delete", "invalidate", "clear"} /\ {"op", "phase"} \subseteq DOMAIN job
  /\ job.op = "set" =>
       {"sk", "storedAt"} \subseteq DOMAIN job /\ job.storedAt \in 0 .. clock /\ job.sk \in Seq(ToSet(job.sk))
  /\ job.op \in {"invalidate", "clear"} => {"left", "seen"} \subseteq DOMAIN job
ChJobsKept(jobs, clock) == IsPlaced(jobs) /\ \A j \in 1 .. Len(jobs) : ChJobIs(jobs[j], clock)

(* A body is that of a set that is over, under its key.                    *)
ChWasSet(jobs, body, sk) ==
  body \in 1 .. Len(jobs) /\ jobs[body].op = "set" /\ jobs[body].phase = "done" /\ jobs[body].sk = sk
ChStoreKept(jobs, store) ==
  \A sk \in DOMAIN store : ChWasSet(jobs, store[sk].body, sk) /\ store[sk].storedAt = jobs[store[sk].body].storedAt
ChGotKept(jobs, got) ==
  \A g \in got : ChWasSet(jobs, g.body, g.sk) /\ g.at - jobs[g.body].storedAt <= ChTtl

(* What an invalidation saw in its scope and has not deleted yet, it still *)
(* has to delete.                                                          *)
ChSeenOf(jobs, store, job) ==
  (job.op = "invalidate" /\ job.phase \in {"deleting", "done"}) =>
    \A sk \in DOMAIN job.seen :
      /\ ChWasSet(jobs, job.seen[sk].body, sk)
      /\ (sk \in DOMAIN store /\ ChInScope(job, sk) /\ ChPlain(sk) /\ store[sk].body = job.seen[sk].body) =>
           job.phase = "deleting" /\ sk \in job.left
ChSeenKept(jobs, store) == \A j \in 1 .. Len(jobs) : ChSeenOf(jobs, store, jobs[j])

ChHolds(jobs, store, got, clock) ==
  ChJobsKept(jobs, clock) /\ ChStoreKept(jobs, store) /\ ChGotKept(jobs, got) /\ ChSeenKept(jobs, store)
ChInv ==
  /\ chKind \in ChStores /\ chClock \in 0 .. ChEnd /\ Len(chJobs) <= ChOps
  /\ ChHolds(chJobs, chStore, chGot, chClock)

(* Jobs that only go on, and keep what they were begun with.               *)
ChGoesOn(jobs, jobs2) ==
  \A b \in 1 .. Len(jobs) :
    /\ b \in 1 .. Len(jobs2) /\ jobs2[b].op = jobs[b].op
    /\ jobs[b].op = "set" =>
         /\ jobs2[b].sk = jobs[b].sk /\ jobs2[b].storedAt = jobs[b].storedAt
         /\ jobs[b].phase = "done" => jobs2[b].phase = "done"

LEMMA ChWasSetStays ==
  ASSUME NEW jobs, NEW jobs2, ChGoesOn(jobs, jobs2), NEW body, NEW sk, ChWasSet(jobs, body, sk)
  PROVE  ChWasSet(jobs2, body, sk) /\ jobs2[body].storedAt = jobs[body].storedAt
  BY DEF ChGoesOn, ChWasSet

(* An entry of the store is one that was there or what the set at j wrote. *)
ChWrote(jobs, store, store2, j) ==
  \A sk \in DOMAIN store2 :
    \/ sk \in DOMAIN store /\ store2[sk] = store[sk]
    \/ /\ jobs[j].op = "set" /\ jobs[j].phase = "call" /\ sk = jobs[j].sk
       /\ store2[sk].body = j /\ store2[sk].storedAt = jobs[j].storedAt

(* A step of one job.                                                      *)
LEMMA ChStepKeeps ==
  ASSUME NEW jobs, NEW store, NEW got, NEW clock, ChHolds(jobs, store, got, clock),
         NEW j \in 1 .. Len(jobs), NEW job, NEW jobs2, NEW store2, NEW got2,
         jobs2 = [jobs EXCEPT ![j] = job], job.op = jobs[j].op, ChJobIs(job, clock),
         jobs[j].op = "set" => job.sk = jobs[j].sk /\ job.storedAt = jobs[j].storedAt /\ job.phase = "done",
         ChWrote(jobs, store, store2, j),
         \A g \in got2 : g \in got \/ (ChWasSet(jobs, g.body, g.sk) /\ g.at - jobs[g.body].storedAt <= ChTtl),
         ChSeenOf(jobs, store2, job)
  PROVE  ChHolds(jobs2, store2, got2, clock)
<1>1. IsPlaced(jobs) /\ IsPlaced(jobs2) /\ Len(jobs2) = Len(jobs) /\ jobs2[j] = job
      /\ \A i \in 1 .. Len(jobs) : i # j => jobs2[i] = jobs[i]
  <2>1. IsPlaced(jobs)
    BY DEF ChHolds, ChJobsKept
  <2>2. IsPlaced(jobs2)
    BY <2>1, PlacedExcept
  <2> QED BY <2>1, <2>2, PlacedExcept
<1>2. ChJobsKept(jobs2, clock)
  BY <1>1 DEF ChHolds, ChJobsKept
<1>3. ChGoesOn(jobs, jobs2)
  <2> SUFFICES ASSUME NEW b \in 1 .. Len(jobs)
               PROVE  /\ b \in 1 .. Len(jobs2) /\ jobs2[b].op = jobs[b].op
                      /\ jobs[b].op = "set" =>
                           /\ jobs2[b].sk = jobs[b].sk /\ jobs2[b].storedAt = jobs[b].storedAt
                           /\ jobs[b].phase = "done" => jobs2[b].phase = "done"
    BY DEF ChGoesOn
  <2>1. b = j \/ jobs2[b] = jobs[b]
    BY <1>1
  <2>2. jobs2[j] = job /\ b \in 1 .. Len(jobs2)
    BY <1>1
  <2> QED BY <2>1, <2>2
<1>4. ChStoreKept(jobs2, store2)
  <2> SUFFICES ASSUME NEW sk \in DOMAIN store2
        PROVE  ChWasSet(jobs2, store2[sk].body, sk) /\ store2[sk].storedAt = jobs2[store2[sk].body].storedAt
    BY DEF ChStoreKept
  <2>1. CASE sk \in DOMAIN store /\ store2[sk] = store[sk]
    <3>1. ChWasSet(jobs, store[sk].body, sk) /\ store[sk].storedAt = jobs[store[sk].body].storedAt
      BY <2>1 DEF ChHolds, ChStoreKept
    <3>2. ChWasSet(jobs2, store[sk].body, sk) /\ jobs2[store[sk].body].storedAt = jobs[store[sk].body].storedAt
      BY <1>3, <3>1 DEF ChWasSet, ChGoesOn
    <3> QED BY <2>1, <3>1, <3>2
  <2>2. CASE jobs[j].op = "set" /\ jobs[j].phase = "call" /\ sk = jobs[j].sk
             /\ store2[sk].body = j /\ store2[sk].storedAt = jobs[j].storedAt
    <3>1. jobs2[j].op = "set" /\ jobs2[j].phase = "done" /\ jobs2[j].sk = sk /\ jobs2[j].storedAt = jobs[j].storedAt
      BY <1>1, <2>2
    <3>2. j \in 1 .. Len(jobs2)
      BY <1>1
    <3> QED BY <2>2, <3>1, <3>2 DEF ChWasSet
  <2> QED BY <2>1, <2>2 DEF ChWrote
<1>5. ChGotKept(jobs2, got2)
  <2> SUFFICES ASSUME NEW g \in got2
        PROVE  ChWasSet(jobs2, g.body, g.sk) /\ g.at - jobs2[g.body].storedAt <= ChTtl
    BY DEF ChGotKept
  <2>1. ChWasSet(jobs, g.body, g.sk) /\ g.at - jobs[g.body].storedAt <= ChTtl
    <3>1. g \in got => ChWasSet(jobs, g.body, g.sk) /\ g.at - jobs[g.body].storedAt <= ChTtl
      BY DEF ChHolds, ChGotKept
    <3> QED BY <3>1
  <2> QED BY <1>3, <2>1 DEF ChWasSet, ChGoesOn
<1>6. ChSeenKept(jobs2, store2)
  <2> SUFFICES ASSUME NEW i \in 1 .. Len(jobs2) PROVE ChSeenOf(jobs2, store2, jobs2[i])
    BY DEF ChSeenKept
  <2>1. ChSeenOf(jobs, store2, jobs2[i])
    <3>1. CASE i = j
      BY <1>1, <3>1
    <3>2. CASE i # j
      <4>1. jobs2[i] = jobs[i] /\ ChSeenOf(jobs, store, jobs[i])
        BY <1>1, <3>2 DEF ChHolds, ChSeenKept
      <4> SUFFICES ASSUME jobs[i].op = "invalidate", jobs[i].phase \in {"deleting", "done"}, NEW sk \in DOMAIN jobs[i].seen
                   PROVE  /\ ChWasSet(jobs, jobs[i].seen[sk].body, sk)
                          /\ (sk \in DOMAIN store2 /\ ChInScope(jobs[i], sk) /\ ChPlain(sk)
                               /\ store2[sk].body = jobs[i].seen[sk].body) => jobs[i].phase = "deleting" /\ sk \in jobs[i].left
        BY <4>1 DEF ChSeenOf
      <4>2. ChWasSet(jobs, jobs[i].seen[sk].body, sk)
        BY <4>1 DEF ChSeenOf
      <4>3. ASSUME sk \in DOMAIN store2, ChInScope(jobs[i], sk), ChPlain(sk), store2[sk].body = jobs[i].seen[sk].body
            PROVE  jobs[i].phase = "deleting" /\ sk \in jobs[i].left
        <5>1. ~(jobs[j].phase = "call" /\ store2[sk].body = j)
          BY <4>2, <4>3 DEF ChWasSet
        <5>2. sk \in DOMAIN store /\ store2[sk] = store[sk]
          BY <4>3, <5>1 DEF ChWrote
        <5> QED BY <4>1, <4>3, <5>2 DEF ChSeenOf
      <4> QED BY <4>2, <4>3
    <3> QED BY <3>1, <3>2
  <2> QED BY <1>3, <2>1, ChWasSetStays DEF ChSeenOf
<1> QED BY <1>2, <1>4, <1>5, <1>6 DEF ChHolds

(* A job is begun.                                                         *)
LEMMA ChBeginKeeps ==
  ASSUME NEW jobs, NEW store, NEW got, NEW clock, ChHolds(jobs, store, got, clock),
         NEW job, NEW jobs2, jobs2 = Append(jobs, job), ChJobIs(job, clock), job.phase \notin {"deleting", "done"}
  PROVE  ChHolds(jobs2, store, got, clock) /\ Len(jobs2) = Len(jobs) + 1
<1>1. IsPlaced(jobs) /\ IsPlaced(jobs2) /\ Len(jobs2) = Len(jobs) + 1 /\ jobs2[Len(jobs) + 1] = job
      /\ \A i \in 1 .. Len(jobs) : jobs2[i] = jobs[i]
  <2>1. IsPlaced(jobs)
    BY DEF ChHolds, ChJobsKept
  <2>2. IsPlaced(jobs2)
    BY <2>1, PlacedAppend
  <2> QED BY <2>1, <2>2, PlacedAppend
<1>2. \A i \in 1 .. Len(jobs2) : i \in 1 .. Len(jobs) \/ i = Len(jobs) + 1
  <2>1. Len(jobs) \in Nat
    BY <1>1 DEF IsPlaced
  <2>2. \A i \in 1 .. Len(jobs) + 1 : i \in 1 .. Len(jobs) \/ i = Len(jobs) + 1
    BY <2>1
  <2> QED BY <1>1, <2>2
<1>3. ChJobsKept(jobs2, clock)
  BY <1>1, <1>2 DEF ChHolds, ChJobsKept
<1>4. ChGoesOn(jobs, jobs2)
  <2>1. Len(jobs) \in Nat
    BY <1>1 DEF IsPlaced
  <2>2. \A b \in 1 .. Len(jobs) : b \in 1 .. Len(jobs) + 1
    BY <2>1
  <2>3. \A b \in 1 .. Len(jobs) : b \in 1 .. Len(jobs2) /\ jobs2[b] = jobs[b]
    BY <1>1, <2>2
  <2> QED BY <2>3 DEF ChGoesOn
<1>5. ChStoreKept(jobs2, store)
  <2>1. ChStoreKept(jobs, store)
    BY DEF ChHolds
  <2> QED BY <1>4, <2>1 DEF ChStoreKept, ChWasSet, ChGoesOn
<1>6. ChGotKept(jobs2, got)
  <2> SUFFICES ASSUME NEW g \in got
        PROVE  ChWasSet(jobs2, g.body, g.sk) /\ g.at - jobs2[g.body].storedAt <= ChTtl
    BY DEF ChGotKept
  <2>1. ChWasSet(jobs, g.body, g.sk) /\ g.at - jobs[g.body].storedAt <= ChTtl
    BY DEF ChHolds, ChGotKept
  <2>2. ChWasSet(jobs, g.body, g.sk)
    BY <2>1
  <2>3. ChWasSet(jobs2, g.body, g.sk) /\ jobs2[g.body].storedAt = jobs[g.body].storedAt
    BY <1>4, <2>2 DEF ChGoesOn, ChWasSet
  <2> QED BY <2>1, <2>3
<1>7. ChSeenKept(jobs2, store)
  <2> SUFFICES ASSUME NEW i \in 1 .. Len(jobs2) PROVE ChSeenOf(jobs2, store, jobs2[i])
    BY DEF ChSeenKept
  <2>1. ChSeenOf(jobs, store, jobs2[i])
    <3>1. CASE i = Len(jobs) + 1
      BY <1>1, <3>1 DEF ChSeenOf
    <3>2. CASE i \in 1 .. Len(jobs)
      BY <1>1, <3>2 DEF ChHolds, ChSeenKept
    <3> QED BY <1>2, <3>1, <3>2
  <2> QED BY <1>4, <2>1, ChWasSetStays DEF ChSeenOf
<1> QED BY <1>1, <1>3, <1>5, <1>6, <1>7 DEF ChHolds

(* A step of a job that invalidates nothing.                               *)
LEMMA ChPhaseKeeps ==
  ASSUME ChInv, NEW j \in 1 .. Len(chJobs), NEW phase, chJobs' = ChPhase(j, phase), UNCHANGED <<chKind, chClock>>,
         chJobs[j].op # "invalidate", chJobs[j].op = "set" => phase = "done", ChWrote(chJobs, chStore, chStore', j),
         \A g \in chGot' : g \in chGot \/ (ChWasSet(chJobs, g.body, g.sk) /\ g.at - chJobs[g.body].storedAt <= ChTtl)
  PROVE  ChInv'
<1> DEFINE job == [chJobs[j] EXCEPT !.phase = phase]
<1>1. ChHolds(chJobs, chStore, chGot, chClock) /\ IsPlaced(chJobs) /\ ChJobIs(chJobs[j], chClock)
  BY DEF ChInv, ChHolds, ChJobsKept
<1>2. chJobs' = [chJobs EXCEPT ![j] = job]
  BY DEF ChPhase
<1>3. /\ DOMAIN job = DOMAIN chJobs[j] /\ job.phase = phase /\ \A x \in DOMAIN chJobs[j] : x # "phase" => job[x] = chJobs[j][x]
  BY <1>1 DEF ChJobIs
<1>4. job.op = chJobs[j].op /\ (chJobs[j].op = "set" => job.sk = chJobs[j].sk /\ job.storedAt = chJobs[j].storedAt)
  BY <1>1, <1>3 DEF ChJobIs
<1> HIDE DEF job
<1>5. ChJobIs(job, chClock)
  BY <1>1, <1>3, <1>4 DEF ChJobIs
<1>6. ChSeenOf(chJobs, chStore', job)
  BY <1>4 DEF ChSeenOf
<1>7. chJobs[j].op = "set" => job.sk = chJobs[j].sk /\ job.storedAt = chJobs[j].storedAt /\ job.phase = "done"
  BY <1>3, <1>4
<1>8. ChHolds(chJobs', chStore', chGot', chClock)
  BY <1>1, <1>2, <1>4, <1>5, <1>6, <1>7, ChStepKeeps
<1>9. Len(chJobs') = Len(chJobs)
  BY <1>1, <1>2, PlacedExcept
<1> QED BY <1>8, <1>9 DEF ChInv

LEMMA ChDropWrites == ASSUME NEW jobs, NEW store, NEW sk, NEW j PROVE ChWrote(jobs, store, ChDrop(store, sk), j)
  BY DEF ChWrote, ChDrop

LEMMA ChGetKeeps == ASSUME ChInv, NEW j \in 1 .. Len(chJobs), ChGet(j) PROVE ChInv'
<1>1. chJobs[j].op = "get" /\ chJobs[j].phase = "call" /\ UNCHANGED <<chKind, chClock, chStore>>
  BY DEF ChGet
<1>2. ChWrote(chJobs, chStore, chStore', j)
  BY <1>1 DEF ChWrote
<1>3. CASE (chJobs' = ChPhase(j, "done") \/ chJobs' = ChPhase(j, "drop")) /\ UNCHANGED chGot
  BY <1>1, <1>2, <1>3, ChPhaseKeeps
<1>4. CASE /\ chJobs[j].sk \in DOMAIN chStore /\ ~ChIsExpired(chStore[chJobs[j].sk]) /\ chJobs' = ChPhase(j, "done")
           /\ chGot' = chGot \cup {[sk |-> chJobs[j].sk, body |-> chStore[chJobs[j].sk].body, at |-> chClock]}
  <2> DEFINE sk == chJobs[j].sk
             g == [sk |-> sk, body |-> chStore[sk].body, at |-> chClock]
  <2>1. ChWasSet(chJobs, chStore[sk].body, sk) /\ chStore[sk].storedAt = chJobs[chStore[sk].body].storedAt
    BY <1>4 DEF ChInv, ChHolds, ChStoreKept
  <2>2. chStore[sk].storedAt \in Int /\ chClock \in Int /\ ChTtl \in Int
    <3>1. ChJobIs(chJobs[chStore[sk].body], chClock)
      BY <2>1 DEF ChInv, ChHolds, ChJobsKept, ChWasSet
    <3> QED BY <2>1, <3>1, ChAssumption DEF ChInv, ChJobIs, ChWasSet
  <2>3. chClock - chStore[sk].storedAt <= ChTtl
    BY <1>4, <2>2 DEF ChIsExpired
  <2>4. g.body = chStore[sk].body /\ g.sk = sk /\ g.at = chClock OBVIOUS
  <2>5. ChWasSet(chJobs, g.body, g.sk) /\ g.at - chJobs[g.body].storedAt <= ChTtl
    BY <2>1, <2>3, <2>4
  <2>6. \A h \in chGot' : h \in chGot \/ h = g
    BY <1>4
  <2> HIDE DEF g
  <2>7. \A h \in chGot' : h \in chGot \/ (ChWasSet(chJobs, h.body, h.sk) /\ h.at - chJobs[h.body].storedAt <= ChTtl)
    BY <2>5, <2>6
  <2> QED BY <1>1, <1>2, <1>4, <2>7, ChPhaseKeeps
<1> QED BY <1>3, <1>4 DEF ChGet

LEMMA ChOneCallKeeps ==
  ASSUME ChInv, NEW j \in 1 .. Len(chJobs), ChGetDrops(j) \/ ChSet(j) \/ ChDelete(j)
  PROVE  ChInv'
<1>1. CASE ChGetDrops(j) \/ ChDelete(j)
  <2>1. /\ chJobs[j].op \in {"get", "delete"} /\ chJobs' = ChPhase(j, "done") /\ UNCHANGED <<chKind, chClock, chGot>>
        /\ chStore' = ChDrop(chStore, chJobs[j].sk)
    BY <1>1 DEF ChGetDrops, ChDelete
  <2>2. ChWrote(chJobs, chStore, chStore', j)
    BY <2>1, ChDropWrites
  <2> QED BY <2>1, <2>2, ChPhaseKeeps
<1>2. CASE ChSet(j)
  <2>1. /\ chJobs[j].op = "set" /\ chJobs[j].phase = "call" /\ chJobs' = ChPhase(j, "done")
        /\ UNCHANGED <<chKind, chClock, chGot>>
        /\ chStore' = ChPut(chStore, chJobs[j].sk, [body |-> j, storedAt |-> chJobs[j].storedAt])
    BY <1>2 DEF ChSet
  <2>2. ChWrote(chJobs, chStore, chStore', j)
    BY <2>1 DEF ChWrote, ChPut
  <2> QED BY <2>1, <2>2, ChPhaseKeeps
<1> QED BY <1>1, <1>2

(* A key that a store can give back is listed.                             *)
LEMMA ChPlainIsListed ==
  ASSUME ChInv, NEW sk \in DOMAIN chStore, ChPlain(sk)
  PROVE  sk \in ChListed
<1>1. sk \in Seq(ToSet(sk))
  BY DEF ChInv, ChHolds, ChStoreKept, ChJobsKept, ChJobIs, ChWasSet
<1>2. ChDecoded(sk) = sk
  BY <1>1 DEF ChDecoded, ChPlain
<1> QED BY <1>2 DEF ChListed

LEMMA ChListKeysKeeps == ASSUME ChInv, NEW j \in 1 .. Len(chJobs), ChListKeys(j) PROVE ChInv'
<1>1. chJobs[j].op \in {"invalidate", "clear"} /\ UNCHANGED <<chKind, chClock, chGot>>
  BY DEF ChListKeys
<1>2. CASE chJobs[j].op = "clear" /\ chStore' = <<>> /\ chJobs' = ChPhase(j, "done")
  <2>1. ChWrote(chJobs, chStore, chStore', j)
    BY <1>2 DEF ChWrote
  <2> QED BY <1>1, <1>2, <2>1, ChPhaseKeeps
<1>3. ASSUME NEW keys, keys = IF chJobs[j].op = "clear" THEN ChListed ELSE {sk \in ChListed : ChInScope(chJobs[j], sk)},
             chJobs' = [chJobs EXCEPT ![j].phase = "deleting", ![j].left = keys, ![j].seen = chStore], UNCHANGED chStore
      PROVE  ChInv'
  <2> DEFINE job == [chJobs[j] EXCEPT !.phase = "deleting", !.left = keys, !.seen = chStore]
  <2>1. ChHolds(chJobs, chStore, chGot, chClock) /\ IsPlaced(chJobs) /\ ChJobIs(chJobs[j], chClock)
    BY DEF ChInv, ChHolds, ChJobsKept
  <2>2. chJobs' = [chJobs EXCEPT ![j] = job]
    BY <1>3
  <2>3. /\ DOMAIN job = DOMAIN chJobs[j] /\ job.phase = "deleting" /\ job.left = keys /\ job.seen = chStore /\ job.op = chJobs[j].op
        /\ job.name = chJobs[j].name /\ job.prefix = chJobs[j].prefix
    BY <1>1, <2>1 DEF ChJobIs
  <2> HIDE DEF job
  <2>4. ChJobIs(job, chClock)
    BY <1>1, <2>1, <2>3 DEF ChJobIs
  <2>5. ChSeenOf(chJobs, chStore', job)
    <3> SUFFICES ASSUME job.op = "invalidate", NEW sk \in DOMAIN chStore
                 PROVE  /\ ChWasSet(chJobs, chStore[sk].body, sk)
                        /\ (ChInScope(job, sk) /\ ChPlain(sk)) => sk \in keys
      BY <1>3, <2>3 DEF ChSeenOf
    <3>1. ChWasSet(chJobs, chStore[sk].body, sk)
      BY <2>1 DEF ChHolds, ChStoreKept
    <3>2. ASSUME ChInScope(job, sk), ChPlain(sk) PROVE sk \in keys
      <4>1. sk \in ChListed
        BY <3>2, ChPlainIsListed
      <4>2. ChInScope(chJobs[j], sk)
        BY <2>3, <3>2 DEF ChInScope
      <4> QED BY <1>3, <2>3, <4>1, <4>2
    <3> QED BY <3>1, <3>2
  <2>6. ChWrote(chJobs, chStore, chStore', j)
    BY <1>3 DEF ChWrote
  <2>7. ChHolds(chJobs', chStore', chGot', chClock)
    <3>1. chJobs[j].op = "set" => job.sk = chJobs[j].sk /\ job.storedAt = chJobs[j].storedAt /\ job.phase = "done"
      BY <1>1
    <3>2. \A g \in chGot' : g \in chGot
      BY <1>1
    <3> QED BY <2>1, <2>2, <2>3, <2>4, <2>5, <2>6, <3>1, <3>2, ChStepKeeps
  <2>8. Len(chJobs') = Len(chJobs)
    BY <2>1, <2>2, PlacedExcept
  <2> QED BY <1>1, <2>7, <2>8 DEF ChInv
<1> QED BY <1>2, <1>3 DEF ChListKeys

LEMMA ChDeleteOneKeeps == ASSUME ChInv, NEW j \in 1 .. Len(chJobs), ChDeleteOne(j) PROVE ChInv'
<1>1. chJobs[j].op \in {"invalidate", "clear"} /\ chJobs[j].phase = "deleting" /\ UNCHANGED <<chKind, chClock, chGot>>
  BY DEF ChDeleteOne
<1>2. /\ ChHolds(chJobs, chStore, chGot, chClock) /\ IsPlaced(chJobs) /\ ChJobIs(chJobs[j], chClock)
      /\ ChSeenOf(chJobs, chStore, chJobs[j])
  BY DEF ChInv, ChHolds, ChJobsKept, ChSeenKept
<1>3. ASSUME NEW job, chJobs' = [chJobs EXCEPT ![j] = job], ChWrote(chJobs, chStore, chStore', j), ChSeenOf(chJobs, chStore', job),
             job.op = chJobs[j].op, DOMAIN job = DOMAIN chJobs[j]
      PROVE  ChInv'
  <2>1. ChJobIs(job, chClock)
    BY <1>1, <1>2, <1>3 DEF ChJobIs
  <2>2. chJobs[j].op = "set" => job.sk = chJobs[j].sk /\ job.storedAt = chJobs[j].storedAt /\ job.phase = "done"
    BY <1>1
  <2>3. \A g \in chGot' : g \in chGot
    BY <1>1
  <2>4. ChHolds(chJobs', chStore', chGot', chClock)
    BY <1>2, <1>3, <2>1, <2>2, <2>3, ChStepKeeps
  <2>5. Len(chJobs') = Len(chJobs)
    BY <1>2, <1>3, PlacedExcept
  <2> QED BY <1>1, <2>4, <2>5 DEF ChInv
<1>4. CASE chJobs[j].left = {} /\ chJobs' = ChPhase(j, "done") /\ UNCHANGED chStore
  <2> DEFINE job == [chJobs[j] EXCEPT !.phase = "done"]
  <2>1. chJobs' = [chJobs EXCEPT ![j] = job]
    BY <1>4 DEF ChPhase
  <2>2. /\ DOMAIN job = DOMAIN chJobs[j] /\ job.phase = "done" /\ job.op = chJobs[j].op /\ job.name = chJobs[j].name
        /\ job.prefix = chJobs[j].prefix /\ job.left = {} /\ job.seen = chJobs[j].seen
    BY <1>1, <1>2, <1>4 DEF ChJobIs
  <2> HIDE DEF job
  <2>3. ChSeenOf(chJobs, chStore', job)
    BY <1>1, <1>2, <1>4, <2>2 DEF ChSeenOf, ChInScope
  <2>4. ChWrote(chJobs, chStore, chStore', j)
    BY <1>4 DEF ChWrote
  <2> QED BY <1>3, <2>1, <2>2, <2>3, <2>4
<1>5. ASSUME NEW sk \in chJobs[j].left, chStore' = ChDrop(chStore, sk), chJobs' = [chJobs EXCEPT ![j].left = @ \ {sk}]
      PROVE  ChInv'
  <2> DEFINE left == chJobs[j].left \ {sk}
             job == [chJobs[j] EXCEPT !.left = left]
  <2>1. chJobs' = [chJobs EXCEPT ![j] = job]
    BY <1>5
  <2>2. /\ DOMAIN job = DOMAIN chJobs[j] /\ job.phase = "deleting" /\ job.op = chJobs[j].op /\ job.name = chJobs[j].name
        /\ job.prefix = chJobs[j].prefix /\ job.left = left /\ job.seen = chJobs[j].seen
    BY <1>1, <1>2 DEF ChJobIs
  <2> HIDE DEF job
  <2>a. DOMAIN chStore' = DOMAIN chStore \ {sk} /\ \A x \in DOMAIN chStore' : chStore'[x] = chStore[x]
    BY <1>5 DEF ChDrop
  <2>3. ChSeenOf(chJobs, chStore', job)
    BY <1>1, <1>2, <2>2, <2>a DEF ChSeenOf, ChInScope
  <2>4. ChWrote(chJobs, chStore, chStore', j)
    BY <1>5, ChDropWrites
  <2> QED BY <1>3, <2>1, <2>2, <2>3, <2>4
<1> QED BY <1>4, <1>5 DEF ChDeleteOne

LEMMA ChKeysJoin ==
  ASSUME NEW name \in ChNames, NEW key \in ChKeys, NEW sk, sk = ChStorageKey(name, key)
  PROVE  sk \in Seq(ToSet(sk))
<1>1. name \in Seq(ToSet(name)) /\ key \in Seq(ToSet(key))
  BY ChShapes
<1> DEFINE S == ToSet(name) \cup ToSet(key)
<1>2. name \in Seq(S) /\ key \in Seq(S)
  BY <1>1
<1> HIDE DEF S
<1>3. sk \in Seq(S)
  BY <1>2, ConcatProperties DEF ChStorageKey
<1> QED BY <1>3 DEF ToSet

LEMMA ChBegunKeeps ==
  ASSUME ChInv, NEW job, ChBegin(job), ChJobIs(job, chClock), job.phase \in {"call", "keys"}
  PROVE  ChInv'
<1>1. ChHolds(chJobs, chStore, chGot, chClock) /\ Len(chJobs) \in Nat
  BY DEF ChInv, ChHolds, ChJobsKept, IsPlaced
<1>2. Len(chJobs) < ChOps /\ chJobs' = Append(chJobs, job) /\ UNCHANGED <<chKind, chClock, chStore, chGot>>
  BY DEF ChBegin
<1>3. ChHolds(chJobs', chStore, chGot, chClock) /\ Len(chJobs') = Len(chJobs) + 1
  BY <1>1, <1>2, ChBeginKeeps
<1>4. Len(chJobs') <= ChOps
  BY <1>1, <1>2, <1>3, ChAssumption
<1> QED BY <1>2, <1>3, <1>4 DEF ChInv

LEMMA ChOpKeeps ==
  ASSUME ChInv, NEW name \in ChNames, NEW key \in ChKeys, NEW sk, sk = ChStorageKey(name, key),
         ChBeginGet(sk) \/ ChBeginSet(sk) \/ ChBeginDelete(sk)
  PROVE  ChInv'
<1>1. sk \in Seq(ToSet(sk)) /\ chClock \in 0 .. chClock
  BY ChKeysJoin DEF ChInv
<1>2. CASE ChBeginGet(sk)
  <2> DEFINE job == [op |-> "get", sk |-> sk, phase |-> "call"]
  <2>1. ChJobIs(job, chClock) /\ job.phase = "call"
    BY DEF ChJobIs
  <2> QED BY <1>2, <2>1, ChBegunKeeps DEF ChBeginGet
<1>3. CASE ChBeginSet(sk)
  <2> DEFINE job == [op |-> "set", sk |-> sk, phase |-> "call", storedAt |-> chClock]
  <2>1. job.op = "set" /\ job.sk = sk /\ job.storedAt = chClock /\ job.phase = "call" /\ DOMAIN job = {"op", "sk", "phase", "storedAt"}
    OBVIOUS
  <2> HIDE DEF job
  <2>2. ChJobIs(job, chClock)
    BY <1>1, <2>1 DEF ChJobIs
  <2> QED BY <1>3, <2>1, <2>2, ChBegunKeeps DEF ChBeginSet, job
<1>4. CASE ChBeginDelete(sk)
  <2> DEFINE job == [op |-> "delete", sk |-> sk, phase |-> "call"]
  <2>1. ChJobIs(job, chClock) /\ job.phase = "call"
    BY DEF ChJobIs
  <2> QED BY <1>4, <2>1, ChBegunKeeps DEF ChBeginDelete
<1> QED BY <1>2, <1>3, <1>4

LEMMA ChWideOpKeeps ==
  ASSUME ChInv, ChBeginClear \/ \E name \in ChNames, prefix \in ChKeys : ChBeginInvalidate(name, prefix)
  PROVE  ChInv'
<1>1. CASE ChBeginClear
  <2> DEFINE job == [op |-> "clear", phase |-> "keys", left |-> {}, seen |-> <<>>]
  <2>1. ChJobIs(job, chClock) /\ job.phase = "keys"
    BY DEF ChJobIs
  <2> QED BY <1>1, <2>1, ChBegunKeeps DEF ChBeginClear
<1>2. ASSUME NEW name \in ChNames, NEW prefix \in ChKeys, ChBeginInvalidate(name, prefix) PROVE ChInv'
  <2> DEFINE job == [op |-> "invalidate", name |-> name, prefix |-> prefix, phase |-> "keys", left |-> {}, seen |-> <<>>]
  <2>1. ChJobIs(job, chClock) /\ job.phase = "keys"
    BY DEF ChJobIs
  <2> QED BY <1>2, <2>1, ChBegunKeeps DEF ChBeginInvalidate
<1> QED BY <1>1, <1>2

LEMMA ChTickKeeps == ASSUME ChInv, ChTick PROVE ChInv'
<1>1. chClock' = chClock + 1 /\ chClock < ChEnd /\ UNCHANGED <<chKind, chStore, chJobs, chGot>> /\ chClock \in Nat /\ ChEnd \in Nat
  BY ChAssumption DEF ChTick, ChInv
<1>2. chClock' \in 0 .. ChEnd /\ 0 .. chClock \subseteq 0 .. chClock'
  BY <1>1
<1>3. ChJobsKept(chJobs, chClock')
  BY <1>2 DEF ChInv, ChHolds, ChJobsKept, ChJobIs
<1>4. ChHolds(chJobs, chStore, chGot, chClock')
  BY <1>3 DEF ChInv, ChHolds
<1> QED BY <1>1, <1>2, <1>4 DEF ChInv

LEMMA ChInvInit == ChInit => ChInv
<1> SUFFICES ASSUME ChInit PROVE ChInv OBVIOUS
<1>1. chJobs = <<>> /\ Len(chJobs) = 0 /\ chStore = <<>> /\ chGot = {} /\ chClock = 0 /\ chKind \in ChStores
  BY DEF ChInit
<1>2. IsPlaced(chJobs) /\ DOMAIN chStore = {} /\ 1 .. Len(chJobs) = {}
  BY <1>1 DEF IsPlaced
<1>3. ChHolds(chJobs, chStore, chGot, chClock)
  BY <1>1, <1>2 DEF ChHolds, ChJobsKept, ChStoreKept, ChGotKept, ChSeenKept
<1> QED BY <1>1, <1>3, ChAssumption DEF ChInv

LEMMA ChInvNext == ChInv /\ [ChNext]_chVars => ChInv'
<1> SUFFICES ASSUME ChInv, [ChNext]_chVars PROVE ChInv' OBVIOUS
<1>1. CASE UNCHANGED chVars
  BY <1>1 DEF ChInv, chVars
<1>2. ASSUME NEW name \in ChNames, NEW key \in ChKeys, NEW sk, sk = ChStorageKey(name, key),
             ChBeginGet(sk) \/ ChBeginSet(sk) \/ ChBeginDelete(sk)
      PROVE  ChInv'
  BY <1>2, ChOpKeeps
<1>3. ASSUME NEW j \in 1 .. Len(chJobs),
             ChGet(j) \/ ChGetDrops(j) \/ ChSet(j) \/ ChDelete(j) \/ ChListKeys(j) \/ ChDeleteOne(j)
      PROVE  ChInv'
  BY <1>3, ChGetKeeps, ChOneCallKeeps, ChListKeysKeeps, ChDeleteOneKeeps
<1> QED BY <1>1, <1>2, <1>3, ChWideOpKeeps, ChTickKeeps DEF ChNext

LEMMA ChInvImplies == ChInv => ChAnswersAreFresh /\ ChInvalidated
<1> SUFFICES ASSUME ChInv PROVE ChAnswersAreFresh /\ ChInvalidated OBVIOUS
<1>1. ChAnswersAreFresh
  BY DEF ChAnswersAreFresh, ChInv, ChHolds, ChGotKept, ChWasSet
<1>2. ChInvalidated
  <2> SUFFICES ASSUME NEW j \in 1 .. Len(chJobs), chJobs[j].op = "invalidate", chJobs[j].phase = "done",
                      NEW sk \in DOMAIN chJobs[j].seen \cap DOMAIN chStore, ChInScope(chJobs[j], sk), ChPlain(sk)
        PROVE  chStore[sk].body # chJobs[j].seen[sk].body
    BY DEF ChInvalidated
  <2>1. ChSeenOf(chJobs, chStore, chJobs[j])
    BY DEF ChInv, ChHolds, ChSeenKept
  <2> QED BY <2>1 DEF ChSeenOf
<1> QED BY <1>1, <1>2

(* CacheFaithful, for any stores, names, keys and lifetime: a get answers  *)
(* with what was set under its key, within its lifetime, and an            *)
(* invalidation leaves nothing that it saw in its scope, whatever else     *)
(* runs between its deletions (cache.ts).                                  *)
THEOREM CacheStaysFaithful == PluginsSpec => []CacheFaithful
<1> DEFINE Inv == turn = "cache" => ChInv
<1>1. PluginsInit => Inv
  BY ChInvInit DEF PluginsInit
<1>2. Inv /\ [PluginsNext]_PluginsVars => Inv'
  <2> SUFFICES ASSUME Inv, [PluginsNext]_PluginsVars, turn' = "cache" PROVE ChInv' OBVIOUS
  <2>1. turn = "cache"
    BY DEF PluginsNext, PluginsVars
  <2>2. [ChNext]_chVars
    BY <2>1 DEF PluginsNext, PluginsVars, storeVars
  <2> QED BY <2>1, <2>2, ChInvNext
<1>3. Inv => CacheFaithful
  BY ChInvImplies DEF CacheFaithful
<1> QED BY <1>1, <1>2, <1>3, PTL DEF PluginsSpec
-----------------------------------------------------------------------------
(* Induction over the numbers of a set, and the bounds of sets of numbers. *)
LEMMA NatSetInduction ==
  ASSUME NEW T, 0 \in T, \A n \in Nat : n \in T => n + 1 \in T
  PROVE  \A n \in Nat : n \in T
<1> DEFINE R == StrictSubsetOrdering(Nat)
           S == FiniteSubsetsOf(Nat)
           C == {s \in S : \E n \in Nat : n \notin T /\ s = 0 .. n - 1}
<1>1. IsWellFoundedOn(R, S)
  BY FS_StrictSubsetOrderingWellFounded
<1> SUFFICES ASSUME NEW k \in Nat, k \notin T PROVE FALSE OBVIOUS
<1>2. 0 .. k - 1 \in C
  <2>1. IsFiniteSet(0 .. k - 1)
    BY FS_Interval
  <2>2. 0 .. k - 1 \in S
    BY <2>1 DEF FiniteSubsetsOf
  <2> HIDE DEF S
  <2> QED BY <2>2
<1>3. C \subseteq S OBVIOUS
<1> HIDE DEF C, R, S
<1>4. PICK x \in C : \A y \in C : ~(<<y, x>> \in R)
  BY <1>1, <1>2, <1>3, WFMin, Zenon
<1>5. PICK n \in Nat : n \notin T /\ x = 0 .. n - 1
  BY <1>4 DEF C
<1>6. n # 0
  BY <1>5
<1>7. n - 1 \in Nat /\ (n - 1) + 1 = n
  BY <1>6
<1>8. n - 1 \notin T
  BY <1>5, <1>7
<1> DEFINE y == 0 .. (n - 1) - 1
<1>9. y \in S
  <2>1. IsFiniteSet(y)
    BY <1>7, FS_Interval
  <2>2. y \subseteq Nat OBVIOUS
  <2> HIDE DEF y
  <2> QED BY <2>1, <2>2 DEF S, FiniteSubsetsOf
<1>10. y \in C
  BY <1>7, <1>8, <1>9 DEF C
<1>11. <<y, x>> \in R
  <2>1. x \in S
    BY <1>3, <1>4
  <2>2. y \subseteq x /\ y # x
    <3>1. n - 1 \in x /\ n - 1 \notin y
      BY <1>5, <1>7
    <3>2. y \subseteq x
      BY <1>5, <1>7
    <3> QED BY <3>1, <3>2
  <2>3. x \subseteq Nat /\ y \subseteq Nat
    BY <1>5
  <2> HIDE DEF y
  <2> QED BY <1>9, <2>1, <2>2, <2>3 DEF S, R, StrictSubsetOrdering, FiniteSubsetsOf
<1> QED BY <1>4, <1>10, <1>11

LEMMA SetHasMax ==
  ASSUME NEW k \in Nat, NEW S, S \subseteq 0 .. k, S # {}
  PROVE  Max(S) \in S /\ \A y \in S : Max(S) >= y
<1> DEFINE Q(n) == \A s : (s \subseteq 0 .. n /\ s # {}) => \E x \in s : \A y \in s : x >= y
           T == {n \in Nat : Q(n)}
<1>1. 0 \in T
  <2>1. 0 .. 0 = {0} OBVIOUS
  <2> SUFFICES ASSUME NEW s, s \subseteq 0 .. 0, s # {} PROVE \E x \in s : \A y \in s : x >= y OBVIOUS
  <2>2. s = {0}
    BY <2>1
  <2> QED BY <2>2
<1>2. \A n \in Nat : n \in T => n + 1 \in T
  <2> SUFFICES ASSUME NEW n \in Nat, Q(n) PROVE Q(n + 1) OBVIOUS
  <2> SUFFICES ASSUME NEW s, s \subseteq 0 .. n + 1, s # {} PROVE \E x \in s : \A y \in s : x >= y OBVIOUS
  <2>1. CASE n + 1 \in s
    BY <2>1
  <2>2. CASE n + 1 \notin s
    <3>1. s \subseteq 0 .. n
      BY <2>2
    <3> QED BY <3>1
  <2> QED BY <2>1, <2>2
<1> HIDE DEF Q
<1>3. k \in T
  <2> HIDE DEF T
  <2> QED BY <1>1, <1>2, NatSetInduction
<1>4. \E x \in S : \A y \in S : x >= y
  BY <1>3 DEF Q
<1> QED BY <1>4 DEF Max

LEMMA SetHasMin ==
  ASSUME NEW S, S \subseteq Nat, S # {}
  PROVE  Min(S) \in S /\ \A y \in S : Min(S) <= y
<1> DEFINE Q(n) == \A s : (s \subseteq Nat /\ \E z \in s : z <= n) => \E x \in s : \A y \in s : x <= y
           T == {n \in Nat : Q(n)}
<1>1. 0 \in T
  <2> SUFFICES ASSUME NEW s, s \subseteq Nat, NEW z \in s, z <= 0 PROVE \E x \in s : \A y \in s : x <= y
    OBVIOUS
  <2>1. \A y \in s : z <= y OBVIOUS
  <2> QED BY <2>1
<1>2. \A n \in Nat : n \in T => n + 1 \in T
  <2> SUFFICES ASSUME NEW n \in Nat, Q(n) PROVE Q(n + 1) OBVIOUS
  <2> SUFFICES ASSUME NEW s, s \subseteq Nat, NEW z \in s, z <= n + 1 PROVE \E x \in s : \A y \in s : x <= y
    OBVIOUS
  <2>1. CASE \E w \in s : w <= n
    BY <2>1
  <2>2. CASE \A w \in s : ~(w <= n)
    <3>1. \A y \in s : z <= y
      BY <2>2
    <3> QED BY <3>1
  <2> QED BY <2>1, <2>2
<1> HIDE DEF Q
<1>3. PICK z \in S : TRUE OBVIOUS
<1>4. z \in T
  <2> HIDE DEF T
  <2> QED BY <1>1, <1>2, NatSetInduction
<1>5. \E x \in S : \A y \in S : x <= y
  <2>1. Q(z)
    BY <1>4
  <2>2. \E w \in S : w <= z
    <3>1. z \in Nat /\ z <= z
      BY <1>3
    <3> QED BY <1>3, <3>1
  <2> QED BY <2>1, <2>2 DEF Q
<1> QED BY <1>5 DEF Min
-----------------------------------------------------------------------------
(* The chunker.                                                            *)
RvGap(text, a, b) == \A p \in a .. b - 1 : text[p]
RvIsChunk(c) == c.offset \in 0 .. RvLength - 1 /\ c.length \in 1 .. RvMaxChars /\ c.offset + c.length <= RvLength

(* Nothing but spaces between two chunks, nor between the last and where   *)
(* the next begins; when all is over the last reaches the end.             *)
RvHolds(text, chunks, offset, over) ==
  /\ offset \in 0 .. RvLength /\ IsPlaced(chunks) /\ \A n \in 1 .. Len(chunks) : RvIsChunk(chunks[n])
  /\ \A n \in 1 .. Len(chunks) : n > 1 =>
       chunks[n].offset > chunks[n - 1].offset /\ RvGap(text, chunks[n - 1].offset + chunks[n - 1].length, chunks[n].offset)
  /\ Len(chunks) = 0 => offset = 0 /\ ~over
  /\ Len(chunks) > 0 =>
       LET last == chunks[Len(chunks)] IN
         IF over THEN last.offset + last.length = RvLength
         ELSE last.offset < offset /\ RvGap(text, last.offset + last.length, offset)
RvInv == RvHolds(rvText, rvChunks, rvOffset, rvOver)

LEMMA MinOfTwo == ASSUME NEW a \in Nat, NEW b \in Nat PROVE Min({a, b}) = IF a <= b THEN a ELSE b
<1> DEFINE m == Min({a, b})
<1>1. m \in {a, b} /\ \A y \in {a, b} : m <= y
  BY SetHasMin
<1> HIDE DEF m
<1>2. m = IF a <= b THEN a ELSE b
  BY <1>1
<1> QED BY <1>2 DEF m

LEMMA MaxOfTwo == ASSUME NEW a \in Int, NEW b \in Int PROVE Max({a, b}) = IF a >= b THEN a ELSE b
<1> DEFINE m == Max({a, b})
<1>1. \E x \in {a, b} : \A y \in {a, b} : x >= y OBVIOUS
<1>2. m \in {a, b} /\ \A y \in {a, b} : m >= y
  BY <1>1 DEF Max
<1> HIDE DEF m
<1>3. m = IF a >= b THEN a ELSE b
  BY <1>2
<1> QED BY <1>3 DEF m

(* A window is cut back to a space inside it, or not at all.               *)
LEMMA RvSnappedFits ==
  ASSUME NEW o \in 0 .. RvLength - 1, NEW end \in o + 1 .. RvLength
  PROVE  RvSnapped(o, end) \in 1 .. end - o /\ (end = RvLength => RvSnapped(o, end) = end - o)
<1> DEFINE spaces == {p \in o + 1 .. end - 1 : RvSpace(p) /\ 2 * (p - o) >= end - o}
<1>1. RvLength \in Nat /\ o \in Nat /\ end \in Nat /\ o < end
  BY RvAssumption
<1>2. spaces \subseteq 0 .. RvLength /\ spaces \subseteq o + 1 .. end - 1
  BY <1>1
<1>3. RvSnapped(o, end) = IF end < RvLength /\ spaces # {} THEN Max(spaces) - o ELSE end - o
  BY DEF RvSnapped
<1> HIDE DEF spaces
<1>4. spaces # {} => Max(spaces) \in spaces
  BY <1>1, <1>2, RvAssumption, SetHasMax
<1>5. spaces # {} => Max(spaces) \in o + 1 .. end - 1
  BY <1>2, <1>4
<1> QED BY <1>1, <1>3, <1>5

(* The next chunk begins after this one does, and no character but one     *)
(* space behind it is passed over.                                         *)
LEMMA RvStepFits ==
  ASSUME NEW o \in 0 .. RvLength - 1, NEW length \in 1 .. RvLength - o, NEW step \in 1 .. length
  PROVE  LET next == o + RvSnapStep(o, step, length + 1) IN
           next \in o + 1 .. RvLength /\ RvGap(rvText, o + length, next)
<1> DEFINE later == {p \in o + step .. RvLength - 1 : RvSpace(p)}
           found == RvNextSpace(o + step, o, length + 1)
           next == o + RvSnapStep(o, step, length + 1)
<1>1. RvLength \in Nat /\ o \in Nat /\ length \in Nat /\ step \in Nat /\ o + length <= RvLength /\ step <= length /\ step >= 1
  BY RvAssumption
<1>2. CASE o + step >= RvLength
  <2>1. next = RvLength
    BY <1>1, <1>2 DEF RvSnapStep
  <2> HIDE DEF next
  <2> QED BY <1>1, <1>2, <2>1 DEF RvGap, next
<1>3. CASE ~(o + step >= RvLength) /\ found # {}
  <2> DEFINE m == Min(later)
  <2>1. found = IF later # {} /\ m - o + 1 <= length + 1 THEN {m} ELSE {}
    BY DEF RvNextSpace
  <2>2. later # {} /\ m - o + 1 <= length + 1 /\ found = {m}
    BY <1>3, <2>1
  <2>3. later \subseteq Nat
    BY <1>1
  <2>4. m \in later
    <3> HIDE DEF later
    <3> QED BY <2>2, <2>3, SetHasMin
  <2>5. m \in o + step .. RvLength - 1 /\ rvText[m]
    BY <2>4 DEF RvSpace
  <2>6. Min(found) = m
    <3>1. Min({m}) = m
      BY <2>5, <1>1, MinOfTwo
    <3> QED BY <2>2, <3>1
  <2>7. next = o + (Min(found) - o + 1)
    BY <1>3 DEF RvSnapStep
  <2> HIDE DEF m, later, found, next
  <2>8. next = m + 1
    BY <1>1, <2>5, <2>6, <2>7
  <2>9. next \in o + 1 .. RvLength
    BY <1>1, <2>5, <2>8
  <2>10. \A p \in o + length .. next - 1 : p = m
    BY <1>1, <2>2, <2>5, <2>8
  <2> QED BY <2>5, <2>9, <2>10 DEF RvGap, next
<1>4. CASE ~(o + step >= RvLength) /\ found = {}
  <2>1. next = o + step
    BY <1>4 DEF RvSnapStep
  <2> HIDE DEF next
  <2> QED BY <1>1, <1>4, <2>1 DEF RvGap, next
<1> QED BY <1>2, <1>3, <1>4

LEMMA RvInvInit == RvInit => RvInv
<1> SUFFICES ASSUME RvInit PROVE RvInv OBVIOUS
<1>1. rvChunks = <<>> /\ Len(rvChunks) = 0 /\ rvOffset = 0 /\ rvOver = FALSE
  BY DEF RvInit
<1>2. IsPlaced(rvChunks) /\ 1 .. Len(rvChunks) = {}
  BY <1>1 DEF IsPlaced
<1> QED BY <1>1, <1>2, RvAssumption DEF RvInv, RvHolds

LEMMA RvChunkKeeps == ASSUME RvInv, RvChunk PROVE RvInv'
<1> DEFINE o == rvOffset
           end == Min({o + RvMaxChars, RvLength})
           length == RvSnapped(o, end)
           step == Max({length - RvOverlapChars, 1})
           c == [offset |-> o, length |-> length]
           next == o + RvSnapStep(o, step, length + 1)
           n == Len(rvChunks)
<1>1. /\ ~rvOver /\ o < RvLength /\ rvChunks' = Append(rvChunks, c) /\ rvOver' = (end >= RvLength)
      /\ rvOffset' = (IF end >= RvLength THEN o ELSE next) /\ rvText' = rvText
  BY DEF RvChunk
<1>2. /\ o \in 0 .. RvLength /\ IsPlaced(rvChunks) /\ n \in Nat /\ RvLength \in Nat /\ RvMaxChars \in Nat \ {0} /\ RvOverlapChars \in Nat
  BY RvAssumption DEF RvInv, RvHolds, IsPlaced
<1>3. end = IF o + RvMaxChars <= RvLength THEN o + RvMaxChars ELSE RvLength
  BY <1>2, MinOfTwo
<1>4. end \in o + 1 .. RvLength /\ end <= o + RvMaxChars /\ o \in 0 .. RvLength - 1
  <2> HIDE DEF end
  <2> QED BY <1>1, <1>2, <1>3
<1>5. length \in 1 .. end - o /\ (end = RvLength => length = end - o)
  <2> HIDE DEF end
  <2> QED BY <1>4, RvSnappedFits
<1>6. step \in 1 .. length
  <2> HIDE DEF length, end
  <2>1. length \in Int /\ length - RvOverlapChars \in Int /\ length >= 1
    BY <1>2, <1>4, <1>5
  <2>2. step = IF length - RvOverlapChars >= 1 THEN length - RvOverlapChars ELSE 1
    BY <2>1, MaxOfTwo
  <2> HIDE DEF step
  <2> QED BY <1>2, <2>1, <2>2
<1>7. next \in o + 1 .. RvLength /\ RvGap(rvText, o + length, next)
  <2> HIDE DEF step, length, end
  <2>1. length \in 1 .. RvLength - o
    BY <1>2, <1>4, <1>5
  <2> QED BY <1>4, <1>6, <2>1, RvStepFits
<1> HIDE DEF step, length, end, next
<1>8. c.offset = o /\ c.length = length OBVIOUS
<1> HIDE DEF c
<1>9. RvIsChunk(c)
  BY <1>2, <1>4, <1>5, <1>8 DEF RvIsChunk
<1>a. IsPlaced(rvChunks')
  BY <1>1, <1>2, PlacedAppend
<1>10. Len(rvChunks') = n + 1 /\ rvChunks'[n + 1] = c /\ \A i \in 1 .. n : rvChunks'[i] = rvChunks[i]
  BY <1>1, <1>2, PlacedAppend
<1>11. \A i \in 1 .. n + 1 : i \in 1 .. n \/ i = n + 1
  BY <1>2
<1>12. \A i \in 1 .. n : RvIsChunk(rvChunks[i])
  BY DEF RvInv, RvHolds
<1>13. \A i \in 1 .. n + 1 : RvIsChunk(rvChunks'[i])
  BY <1>9, <1>10, <1>11, <1>12
<1> DEFINE B(i) == rvChunks'[i].offset > rvChunks'[i - 1].offset
                   /\ RvGap(rvText, rvChunks'[i - 1].offset + rvChunks'[i - 1].length, rvChunks'[i].offset)
<1>14. \A i \in 1 .. n + 1 : i > 1 => B(i)
  <2> SUFFICES ASSUME NEW i \in 1 .. n + 1, i > 1 PROVE B(i) OBVIOUS
  <2>1. i - 1 \in 1 .. n /\ rvChunks'[i - 1] = rvChunks[i - 1]
    BY <1>2, <1>10
  <2>2. CASE i \in 1 .. n
    <3>1. rvChunks'[i] = rvChunks[i]
      BY <1>10, <2>2
    <3>2. rvChunks[i].offset > rvChunks[i - 1].offset
          /\ RvGap(rvText, rvChunks[i - 1].offset + rvChunks[i - 1].length, rvChunks[i].offset)
      BY <2>2 DEF RvInv, RvHolds
    <3> QED BY <2>1, <3>1, <3>2
  <2>3. CASE i = n + 1
    <3>1. i - 1 = n /\ n > 0
      BY <1>2, <2>1, <2>3
    <3>2. rvChunks[n].offset < o /\ RvGap(rvText, rvChunks[n].offset + rvChunks[n].length, o)
      BY <1>1, <3>1 DEF RvInv, RvHolds
    <3>3. rvChunks'[i] = c /\ rvChunks'[i - 1] = rvChunks[n]
      BY <1>10, <2>1, <2>3, <3>1
    <3>4. rvChunks[n].offset \in Int
      BY <1>2, <1>12, <3>1 DEF RvIsChunk
    <3> QED BY <1>2, <1>8, <3>2, <3>3, <3>4
  <2> QED BY <1>11, <2>2, <2>3
<1>15. rvOffset' \in 0 .. RvLength
  BY <1>1, <1>2, <1>7
<1>16. IF rvOver' THEN c.offset + c.length = RvLength
       ELSE c.offset < rvOffset' /\ RvGap(rvText, c.offset + c.length, rvOffset')
  <2>1. CASE end >= RvLength
    <3>1. end = RvLength
      BY <1>2, <1>4, <2>1
    <3>2. rvOver'
      BY <1>1, <2>1
    <3>3. c.offset + c.length = RvLength
      BY <1>2, <1>4, <1>5, <1>8, <3>1
    <3> QED BY <3>2, <3>3
  <2>2. CASE ~(end >= RvLength)
    <3>1. ~rvOver'
      BY <1>1, <2>2
    <3>2. rvOffset' = next
      BY <1>1, <2>2
    <3>3. c.offset < rvOffset' /\ RvGap(rvText, c.offset + c.length, rvOffset')
      BY <1>4, <1>7, <1>8, <3>2
    <3> QED BY <3>1, <3>3
  <2> QED BY <2>1, <2>2
<1>17. n + 1 > 0 /\ ~(n + 1 = 0)
  BY <1>2
<1> QED BY <1>1, <1>a, <1>10, <1>13, <1>14, <1>15, <1>16, <1>17 DEF RvInv, RvHolds

LEMMA RvInvNext == RvInv /\ [RvNext]_rvVars => RvInv'
<1>1. RvInv /\ UNCHANGED rvVars => RvInv'
  BY DEF RvInv, rvVars
<1> QED BY <1>1, RvChunkKeeps DEF RvNext

LEMMA RvInvImplies == RvInv => RvChunksCover
<1> SUFFICES ASSUME RvInv PROVE RvChunksCover OBVIOUS
<1>1. Len(rvChunks) \in Nat /\ RvLength \in Nat /\ rvOffset \in 0 .. RvLength /\ RvMaxChars \in Nat
  BY RvAssumption DEF RvInv, RvHolds, IsPlaced
<1>2. \A n \in 1 .. Len(rvChunks) :
        /\ rvChunks[n].length \in 1 .. RvMaxChars
        /\ n > 1 =>
             /\ rvChunks[n].offset > rvChunks[n - 1].offset
             /\ \A p \in rvChunks[n - 1].offset + rvChunks[n - 1].length .. rvChunks[n].offset - 1 : RvSpace(p)
  BY DEF RvInv, RvHolds, RvIsChunk, RvGap, RvSpace
<1>3. ASSUME rvOver \/ (rvOffset >= RvLength /\ rvChunks # <<>>)
      PROVE  \A p \in rvChunks[Len(rvChunks)].offset + rvChunks[Len(rvChunks)].length .. RvLength - 1 : RvSpace(p)
  <2> DEFINE last == rvChunks[Len(rvChunks)]
  <2>1. Len(rvChunks) > 0
    <3>1. Len(rvChunks) = 0 => rvChunks = <<>>
      BY DEF RvInv, RvHolds, IsPlaced
    <3>2. Len(rvChunks) = 0 => ~rvOver
      BY DEF RvInv, RvHolds
    <3> QED BY <1>1, <1>3, <3>1, <3>2
  <2>2. RvIsChunk(last)
    BY <1>1, <2>1 DEF RvInv, RvHolds
  <2>3. CASE rvOver
    <3>1. last.offset + last.length = RvLength
      BY <2>1, <2>3 DEF RvInv, RvHolds
    <3> HIDE DEF last
    <3>2. last.offset + last.length .. RvLength - 1 = {}
      BY <1>1, <3>1
    <3> QED BY <3>2 DEF last
  <2>4. CASE ~rvOver
    <3>1. rvOffset = RvLength
      BY <1>1, <1>3, <2>4
    <3>2. RvGap(rvText, last.offset + last.length, rvOffset)
      BY <2>1, <2>4 DEF RvInv, RvHolds
    <3> QED BY <3>1, <3>2 DEF RvGap, RvSpace
  <2> QED BY <2>3, <2>4
<1> QED BY <1>2, <1>3 DEF RvChunksCover
-----------------------------------------------------------------------------
(* The vector store.  Until it has loaded, nothing is applied, and every   *)
(* load under way brings what is on disk.  From then on the newest write   *)
(* is of the entries as they are: it is under way, or the disk has them.   *)
VsBefore(at, disk, acked) ==
  /\ acked = disk
  /\ \A j \in VsJobs : at[j].phase \notin {"apply", "persist"} /\ (at[j].phase = "load" => at[j].snap = disk)
VsAfter(at, entries, disk, acked, write, landed) ==
  /\ entries = acked
  /\ \A j \in VsJobs : at[j].phase = "persist" => at[j].n \in 1 .. write /\ (at[j].n = write => at[j].snap = entries)
  /\ (\A j \in VsJobs : at[j].phase = "persist" => at[j].n # write) =>
       /\ disk = entries
       /\ \A j \in VsJobs : at[j].phase = "persist" => landed = write
VsHolds(at, loaded, entries, disk, acked, write, landed) ==
  IF loaded THEN VsAfter(at, entries, disk, acked, write, landed) ELSE VsBefore(at, disk, acked)
VsFields == {"phase", "i", "snap", "n"}
VsInv ==
  /\ vsWrite \in Nat /\ vsLanded \in Nat /\ \A j \in VsJobs : DOMAIN vsAt[j] = VsFields /\ vsAt[j].n \in Nat
  /\ DOMAIN vsAt = VsJobs
  /\ ~vsRaced => VsHolds(vsAt, vsLoaded, vsEntries, vsDisk, vsAcked, vsWrite, vsLanded)

(* A step of one job.                                                      *)
VsMoves(at, at2, j, to) ==
  /\ DOMAIN at2 = VsJobs /\ at2[j] = to /\ \A k \in VsJobs : k # j => at2[k] = at[k]
  /\ DOMAIN to = VsFields /\ to.n \in Nat

LEMMA VsMoved ==
  ASSUME VsInv, NEW j \in VsJobs, NEW to, vsAt' = [vsAt EXCEPT ![j] = to], DOMAIN to = VsFields, to.n \in Nat
  PROVE  /\ VsMoves(vsAt, vsAt', j, to)
         /\ \A k \in VsJobs : DOMAIN vsAt'[k] = VsFields /\ vsAt'[k].n \in Nat
<1>1. DOMAIN vsAt = VsJobs /\ \A k \in VsJobs : DOMAIN vsAt[k] = VsFields /\ vsAt[k].n \in Nat
  BY DEF VsInv
<1>2. VsMoves(vsAt, vsAt', j, to)
  BY <1>1 DEF VsMoves
<1>3. \A k \in VsJobs : vsAt'[k] = to \/ vsAt'[k] = vsAt[k]
  BY <1>1
<1>4. \A k \in VsJobs : DOMAIN vsAt'[k] = VsFields /\ vsAt'[k].n \in Nat
  BY <1>1, <1>3
<1> QED BY <1>2, <1>4

(* One that neither loads nor writes.                                      *)
LEMMA VsGoesKeeps ==
  ASSUME VsInv, NEW j \in VsJobs, NEW to, vsAt' = [vsAt EXCEPT ![j] = to], DOMAIN to = VsFields, to.n \in Nat,
         vsAt[j].phase \notin {"apply", "persist"}, to.phase # "persist", to.phase = "apply" => vsLoaded,
         to.phase = "load" => to.snap = vsDisk,
         UNCHANGED <<vsEntries, vsLoaded, vsDisk, vsAcked, vsRaced, vsWrite, vsLanded>>
  PROVE  VsInv'
<1>1. /\ VsMoves(vsAt, vsAt', j, to)
      /\ \A k \in VsJobs : DOMAIN vsAt'[k] = VsFields /\ vsAt'[k].n \in Nat
  BY VsMoved
<1>2. CASE ~vsRaced /\ vsLoaded
  <2>1. VsAfter(vsAt, vsEntries, vsDisk, vsAcked, vsWrite, vsLanded)
    BY <1>2 DEF VsInv, VsHolds
  <2>2. \A k \in VsJobs : vsAt'[k].phase = "persist" => vsAt'[k] = vsAt[k] /\ vsAt[k].phase = "persist"
    BY <1>1 DEF VsMoves
  <2>3. \A k \in VsJobs : vsAt[k].phase = "persist" => vsAt'[k] = vsAt[k]
    BY <1>1 DEF VsMoves
  <2>4. VsAfter(vsAt', vsEntries, vsDisk, vsAcked, vsWrite, vsLanded)
    <3>1. \A k \in VsJobs : vsAt'[k].phase = "persist" =>
            vsAt'[k].n \in 1 .. vsWrite /\ (vsAt'[k].n = vsWrite => vsAt'[k].snap = vsEntries)
      BY <2>1, <2>2 DEF VsAfter
    <3>2. ASSUME \A k \in VsJobs : vsAt'[k].phase = "persist" => vsAt'[k].n # vsWrite
          PROVE  vsDisk = vsEntries /\ \A k \in VsJobs : vsAt'[k].phase = "persist" => vsLanded = vsWrite
      <4>1. \A k \in VsJobs : vsAt[k].phase = "persist" => vsAt[k].n # vsWrite
        BY <2>3, <3>2
      <4> QED BY <2>1, <2>2, <4>1 DEF VsAfter
    <3> QED BY <2>1, <3>1, <3>2 DEF VsAfter
  <2> QED BY <1>1, <1>2, <2>4 DEF VsInv, VsHolds, VsMoves
<1>3. CASE ~vsRaced /\ ~vsLoaded
  <2>1. VsBefore(vsAt, vsDisk, vsAcked)
    BY <1>3 DEF VsInv, VsHolds
  <2>2. \A k \in VsJobs : vsAt'[k] = vsAt[k] \/ vsAt'[k] = to
    BY <1>1 DEF VsMoves
  <2>3. VsBefore(vsAt', vsDisk, vsAcked)
    BY <1>3, <2>1, <2>2 DEF VsBefore
  <2> QED BY <1>1, <1>3, <2>3 DEF VsInv, VsHolds, VsMoves
<1>4. CASE vsRaced
  BY <1>1, <1>4 DEF VsInv, VsMoves
<1> QED BY <1>2, <1>3, <1>4

LEMMA VsCallsKeep == ASSUME VsInv, NEW j \in VsJobs, VsStart(j) \/ VsEmbed(j) \/ VsCall(j) PROVE VsInv'
<1>1. DOMAIN vsAt[j] = VsFields /\ vsAt[j].n \in Nat
  BY DEF VsInv
<1>2. UNCHANGED <<vsEntries, vsLoaded, vsDisk, vsAcked, vsRaced, vsWrite, vsLanded>> /\ vsAt[j].phase \in {"idle", "embed", "call"}
  BY DEF VsStart, VsEmbed, VsCall
<1>3. CASE VsStart(j)
  <2> DEFINE phase == IF j.op = "add" THEN "embed" ELSE "call"
             to == [vsAt[j] EXCEPT !.phase = phase, !.i = 1]
  <2>1. vsAt' = [vsAt EXCEPT ![j] = to]
    BY <1>3 DEF VsStart
  <2>2. DOMAIN to = VsFields /\ to.n = vsAt[j].n /\ to.phase \in {"embed", "call"}
    BY <1>1 DEF VsFields
  <2> HIDE DEF to
  <2> QED BY <1>1, <1>2, <2>1, <2>2, VsGoesKeeps
<1>4. ASSUME NEW phase \in {"call", "over", "apply"}, vsAt' = [vsAt EXCEPT ![j].phase = phase], phase = "apply" => vsLoaded
      PROVE  VsInv'
  <2> DEFINE to == [vsAt[j] EXCEPT !.phase = phase]
  <2>1. vsAt' = [vsAt EXCEPT ![j] = to]
    BY <1>4
  <2>2. DOMAIN to = VsFields /\ to.n = vsAt[j].n /\ to.phase = phase
    BY <1>1 DEF VsFields
  <2> HIDE DEF to
  <2> QED BY <1>1, <1>2, <1>4, <2>1, <2>2, VsGoesKeeps
<1>5. CASE vsAt' = [vsAt EXCEPT ![j].phase = "load", ![j].snap = vsDisk]
  <2> DEFINE to == [vsAt[j] EXCEPT !.phase = "load", !.snap = vsDisk]
  <2>1. vsAt' = [vsAt EXCEPT ![j] = to]
    BY <1>5
  <2>2. DOMAIN to = VsFields /\ to.n = vsAt[j].n /\ to.phase = "load" /\ to.snap = vsDisk
    BY <1>1 DEF VsFields
  <2> HIDE DEF to
  <2> QED BY <1>1, <1>2, <2>1, <2>2, VsGoesKeeps
<1> QED BY <1>3, <1>4, <1>5 DEF VsEmbed, VsCall, VsEnsureLoaded

LEMMA VsLoadKeeps == ASSUME VsInv, NEW j \in VsJobs, VsLoad(j) PROVE VsInv'
<1> DEFINE to == [vsAt[j] EXCEPT !.phase = "apply"]
<1>1. DOMAIN vsAt[j] = VsFields /\ vsAt[j].n \in Nat
  BY DEF VsInv
<1>2. /\ vsAt[j].phase = "load" /\ vsAt' = [vsAt EXCEPT ![j] = to] /\ vsEntries' = vsAt[j].snap
      /\ UNCHANGED <<vsDisk, vsAcked, vsWrite, vsLanded>>
  BY DEF VsLoad
<1>a. vsLoaded'
  BY DEF VsLoad
<1>b. vsRaced' <=> (vsRaced \/ vsLoaded)
  BY DEF VsLoad
<1>3. DOMAIN to = VsFields /\ to.n = vsAt[j].n /\ to.phase = "apply"
  BY <1>1 DEF VsFields
<1> HIDE DEF to
<1>4. /\ VsMoves(vsAt, vsAt', j, to)
      /\ \A k \in VsJobs : DOMAIN vsAt'[k] = VsFields /\ vsAt'[k].n \in Nat
  BY <1>1, <1>2, <1>3, VsMoved
<1>5. CASE vsRaced \/ vsLoaded
  BY <1>2, <1>4, <1>5, <1>b DEF VsInv, VsMoves
<1>6. CASE ~(vsRaced \/ vsLoaded)
  <2>1. VsBefore(vsAt, vsDisk, vsAcked)
    BY <1>6 DEF VsInv, VsHolds
  <2>2. vsEntries' = vsDisk /\ vsAcked = vsDisk
    BY <1>2, <2>1 DEF VsBefore
  <2>3. \A k \in VsJobs : vsAt'[k].phase # "persist"
    BY <1>3, <1>4, <2>1 DEF VsBefore, VsMoves
  <2>4. VsAfter(vsAt', vsEntries', vsDisk', vsAcked', vsWrite', vsLanded')
    BY <1>2, <2>2, <2>3 DEF VsAfter
  <2> QED BY <1>2, <1>4, <1>a, <2>4 DEF VsInv, VsHolds, VsMoves
<1> QED BY <1>5, <1>6

LEMMA VsApplyKeeps == ASSUME VsInv, NEW j \in VsJobs, VsApply(j) PROVE VsInv'
<1> DEFINE E == VsEffect(j, vsEntries)
           w == vsWrite + 1
           to == [vsAt[j] EXCEPT !.phase = "persist", !.snap = E, !.n = w]
<1>1. DOMAIN vsAt[j] = VsFields /\ vsWrite \in Nat /\ vsLanded \in Nat
  BY DEF VsInv
<1>2. /\ vsAt[j].phase = "apply" /\ vsAt' = [vsAt EXCEPT ![j] = to] /\ vsEntries' = E /\ vsAcked' = VsEffect(j, vsAcked)
      /\ vsWrite' = w /\ UNCHANGED <<vsLoaded, vsDisk, vsRaced, vsLanded>>
  BY DEF VsApply
<1>3. DOMAIN to = VsFields /\ to.n = w /\ to.phase = "persist" /\ to.snap = E
  <2> HIDE DEF E, w
  <2> QED BY <1>1 DEF VsFields
<1>4. w \in Nat /\ w > vsWrite /\ w \in 1 .. w
  BY <1>1
<1> HIDE DEF to
<1>5. /\ VsMoves(vsAt, vsAt', j, to)
      /\ \A k \in VsJobs : DOMAIN vsAt'[k] = VsFields /\ vsAt'[k].n \in Nat
  BY <1>1, <1>2, <1>3, <1>4, VsMoved
<1>6. CASE vsRaced
  BY <1>1, <1>2, <1>4, <1>5, <1>6 DEF VsInv, VsMoves
<1>7. CASE ~vsRaced
  <2>1. vsLoaded
    BY <1>2, <1>7 DEF VsInv, VsHolds, VsBefore
  <2>2. VsAfter(vsAt, vsEntries, vsDisk, vsAcked, vsWrite, vsLanded)
    BY <1>7, <2>1 DEF VsInv, VsHolds
  <2>3. vsAcked' = E
    <3>1. vsEntries = vsAcked
      BY <2>2 DEF VsAfter
    <3> QED BY <1>2, <3>1
  <2> HIDE DEF E, w
  <2>4. \A k \in VsJobs : k # j /\ vsAt'[k].phase = "persist" => vsAt'[k].n \in 1 .. w /\ vsAt'[k].n # w
    <3>1. \A k \in VsJobs : k # j => vsAt'[k] = vsAt[k]
      BY <1>5 DEF VsMoves
    <3>2. \A k \in VsJobs : vsAt[k].phase = "persist" => vsAt[k].n \in 1 .. vsWrite
      BY <2>2 DEF VsAfter
    <3>3. \A n \in 1 .. vsWrite : n \in 1 .. w /\ n # w
      BY <1>1, <1>4
    <3> QED BY <3>1, <3>2, <3>3
  <2>5. vsAt'[j] = to
    BY <1>5 DEF VsMoves
  <2>6. VsAfter(vsAt', E, vsDisk, E, w, vsLanded)
    BY <1>3, <1>4, <2>4, <2>5 DEF VsAfter
  <2> QED BY <1>1, <1>2, <1>4, <1>5, <1>7, <2>1, <2>3, <2>6 DEF VsInv, VsHolds, VsMoves
<1> QED BY <1>6, <1>7

LEMMA VsPersistKeeps == ASSUME VsInv, NEW j \in VsJobs, VsPersist(j) PROVE VsInv'
<1> DEFINE at == vsAt[j]
           more == j.op = "add" /\ at.i < j.chunks
           i == IF more THEN at.i + 1 ELSE at.i
           phase == IF more THEN "call" ELSE "over"
           to == [at EXCEPT !.phase = phase, !.i = i, !.snap = {}]
<1>1. DOMAIN at = VsFields /\ vsWrite \in Nat /\ vsLanded \in Nat /\ at.n \in Nat
  BY DEF VsInv
<1>2. /\ at.phase = "persist" /\ vsDisk' = at.snap /\ vsLanded' = at.n
      /\ UNCHANGED <<vsEntries, vsLoaded, vsAcked, vsWrite>>
  BY DEF VsPersist
<1>a. vsAt' = [vsAt EXCEPT ![j] = to]
  BY <1>1 DEF VsPersist, VsFields
<1>b. vsRaced' <=> (vsRaced \/ at.n < vsLanded)
  BY DEF VsPersist
<1>c. phase \in {"call", "over"} OBVIOUS
<1> HIDE DEF more, i, phase
<1>3. DOMAIN to = VsFields /\ to.n = at.n /\ to.phase # "persist"
  <2> HIDE DEF at
  <2> QED BY <1>1, <1>c DEF VsFields
<1> HIDE DEF to
<1>4. /\ VsMoves(vsAt, vsAt', j, to)
      /\ \A k \in VsJobs : DOMAIN vsAt'[k] = VsFields /\ vsAt'[k].n \in Nat
  BY <1>1, <1>3, <1>a, VsMoved
<1>5. CASE vsRaced \/ at.n < vsLanded
  BY <1>1, <1>2, <1>4, <1>5, <1>b DEF VsInv, VsMoves
<1>6. CASE ~(vsRaced \/ at.n < vsLanded)
  <2>1. vsLoaded
    BY <1>2, <1>6 DEF VsInv, VsHolds, VsBefore
  <2>2. VsAfter(vsAt, vsEntries, vsDisk, vsAcked, vsWrite, vsLanded)
    BY <1>6, <2>1 DEF VsInv, VsHolds
  <2>3. \A k \in VsJobs : vsAt'[k].phase = "persist" => vsAt'[k] = vsAt[k] /\ k # j
    BY <1>3, <1>4 DEF VsMoves
  <2>4. vsAt'[j].phase # "persist" /\ \A k \in VsJobs : k # j => vsAt'[k] = vsAt[k]
    BY <1>3, <1>4 DEF VsMoves
  <2>5. at.n \in 1 .. vsWrite /\ (at.n = vsWrite => at.snap = vsEntries)
    BY <1>2, <2>2 DEF VsAfter
  <2> HIDE DEF at
  <2>6. \A k \in VsJobs : vsAt'[k].phase = "persist" =>
          vsAt'[k].n \in 1 .. vsWrite /\ (vsAt'[k].n = vsWrite => vsAt'[k].snap = vsEntries)
    BY <2>2, <2>3 DEF VsAfter
  <2>7. ASSUME \A k \in VsJobs : vsAt'[k].phase = "persist" => vsAt'[k].n # vsWrite
        PROVE  at.snap = vsEntries /\ at.n = vsWrite
    <3>1. CASE at.n = vsWrite
      BY <2>5, <3>1
    <3>2. CASE at.n # vsWrite
      <4>1. \A k \in VsJobs : vsAt[k].phase = "persist" => vsAt[k].n # vsWrite
        BY <2>4, <2>7, <3>2 DEF at
      <4>2. vsLanded = vsWrite
        BY <1>2, <2>2, <4>1 DEF VsAfter, at
      <4> QED BY <1>1, <1>6, <2>5, <3>2, <4>2
    <3> QED BY <3>1, <3>2
  <2>8. VsAfter(vsAt', vsEntries, at.snap, vsAcked, vsWrite, at.n)
    BY <2>2, <2>6, <2>7 DEF VsAfter
  <2> QED BY <1>1, <1>2, <1>4, <2>1, <2>8 DEF VsInv, VsHolds, VsMoves
<1> QED BY <1>5, <1>6

LEMMA VsRestartKeeps == ASSUME VsInv, VsRestart PROVE VsInv'
<1>1. /\ vsEntries' = {} /\ vsAcked' = vsDisk /\ UNCHANGED <<vsDisk, vsWrite, vsLanded>>
      /\ vsAt' = [j \in VsJobs |-> IF vsAt[j].phase = "idle" THEN VsIdle ELSE [VsIdle EXCEPT !.phase = "over"]]
  BY DEF VsRestart
<1>2. ~vsLoaded'
  BY DEF VsRestart
<1>3. \A j \in VsJobs : vsAt'[j] = VsIdle \/ vsAt'[j] = [VsIdle EXCEPT !.phase = "over"]
  BY <1>1
<1>4. \A j \in VsJobs : DOMAIN vsAt'[j] = VsFields /\ vsAt'[j].n \in Nat /\ vsAt'[j].phase \in {"idle", "over"}
  <2>1. DOMAIN VsIdle = VsFields /\ VsIdle.n \in Nat /\ VsIdle.phase = "idle"
    BY DEF VsIdle, VsFields
  <2> DEFINE over == [VsIdle EXCEPT !.phase = "over"]
  <2>2. DOMAIN over = VsFields /\ over.n \in Nat /\ over.phase = "over"
    BY DEF VsIdle, VsFields
  <2> HIDE DEF over
  <2>3. \A j \in VsJobs : vsAt'[j] = VsIdle \/ vsAt'[j] = over
    BY <1>3 DEF over
  <2> QED BY <2>1, <2>2, <2>3
<1>5. VsBefore(vsAt', vsDisk', vsAcked')
  BY <1>1, <1>4 DEF VsBefore
<1>6. DOMAIN vsAt' = VsJobs
  BY <1>1
<1> QED BY <1>1, <1>2, <1>4, <1>5, <1>6 DEF VsInv, VsHolds

LEMMA VsInvInit == VsInit => VsInv
<1> SUFFICES ASSUME VsInit PROVE VsInv OBVIOUS
<1>1. /\ vsDisk = VsStored /\ vsAt = [j \in VsJobs |-> VsIdle] /\ vsAcked = VsStored /\ vsWrite = 0 /\ vsLanded = 0
  BY DEF VsInit
<1>2. ~vsLoaded
  BY DEF VsInit
<1>3. DOMAIN VsIdle = VsFields /\ VsIdle.n = 0 /\ VsIdle.phase = "idle"
  BY DEF VsIdle, VsFields
<1>4. DOMAIN vsAt = VsJobs /\ \A j \in VsJobs : vsAt[j] = VsIdle
  BY <1>1
<1>5. VsBefore(vsAt, vsDisk, vsAcked)
  BY <1>1, <1>3, <1>4 DEF VsBefore
<1> QED BY <1>1, <1>2, <1>3, <1>4, <1>5 DEF VsInv, VsHolds

LEMMA VsInvNext == VsInv /\ [VsNext]_vsVars => VsInv'
<1> SUFFICES ASSUME VsInv, [VsNext]_vsVars PROVE VsInv' OBVIOUS
<1>1. CASE UNCHANGED vsVars
  BY <1>1 DEF VsInv, vsVars
<1>2. ASSUME NEW j \in VsJobs, VsStart(j) \/ VsEmbed(j) \/ VsCall(j) \/ VsLoad(j) \/ VsApply(j) \/ VsPersist(j)
      PROVE  VsInv'
  BY <1>2, VsCallsKeep, VsLoadKeeps, VsApplyKeeps, VsPersistKeeps
<1> QED BY <1>1, <1>2, VsRestartKeeps DEF VsNext

LEMMA VsInvImplies == VsInv => VsNothingLost
  BY DEF VsInv, VsHolds, VsAfter, VsNothingLost

-----------------------------------------------------------------------------
(* Hosted corpora.                                                         *)
LEMMA HrStatesAreTrue == HrReadyMeansIndexed
<1> SUFFICES ASSUME NEW status \in {HrGoogleStatus, HrXaiStatus}, status = "ready"
      PROVE  HrCount("pending") = 0 /\ HrCount("failed") = 0 /\ HrCount("active") > 0
  BY DEF HrReadyMeansIndexed
<1>1. \A s : HrCount(s) \in Nat
  BY HrAssumption, FS_Subset, FS_CardinalityType DEF HrCount
<1> DEFINE p == HrCount("pending")
           f == HrCount("failed")
           a == HrCount("active")
<1>2. p \in Nat /\ f \in Nat /\ a \in Nat
  BY <1>1
<1>3. CASE status = HrGoogleStatus
  <2>1. status = IF p > 0 THEN "indexing" ELSE IF f > 0 THEN "error" ELSE IF a > 0 THEN "ready" ELSE "pending"
    BY <1>3 DEF HrGoogleStatus
  <2> HIDE DEF p, f, a
  <2>2. p = 0 /\ f = 0 /\ a > 0
    BY <1>2, <2>1
  <2> QED BY <2>2 DEF p, f, a
<1>4. CASE status = HrXaiStatus
  <2>1. status = IF p + a + f = 0 THEN "pending" ELSE IF f > 0 THEN "error" ELSE IF a = p + a + f THEN "ready" ELSE "indexing"
    BY <1>4 DEF HrXaiStatus
  <2> HIDE DEF p, f, a
  <2>2. p = 0 /\ f = 0 /\ a > 0
    BY <1>2, <2>1
  <2> QED BY <2>2 DEF p, f, a
<1> QED BY <1>3, <1>4

(* IndexFaithful, for any texts, corpora and documents: the chunks leave   *)
(* out nothing but spaces, memory and disk hold what was applied unless a  *)
(* load or a write came out of order, and a corpus is ready when all of it *)
(* is indexed (retrieval/).                                                *)
THEOREM IndexStaysFaithful == PluginsSpec => []IndexFaithful
<1> DEFINE Inv == turn \in {"chunker", "vectors", "hosted"} => RvInv /\ VsInv
<1>1. PluginsInit => Inv
  BY RvInvInit, VsInvInit DEF PluginsInit
<1>2. Inv /\ [PluginsNext]_PluginsVars => Inv'
  <2> SUFFICES ASSUME Inv, [PluginsNext]_PluginsVars, turn' \in {"chunker", "vectors", "hosted"} PROVE RvInv' /\ VsInv'
    OBVIOUS
  <2>1. turn \in {"chunker", "vectors", "hosted"}
    BY DEF PluginsNext, PluginsVars
  <2>2. [RvNext]_rvVars /\ [VsNext]_vsVars
    BY <2>1 DEF PluginsNext, PluginsVars, storeVars
  <2> QED BY <2>1, <2>2, RvInvNext, VsInvNext
<1>3. Inv => IndexFaithful
  BY RvInvImplies, VsInvImplies, HrStatesAreTrue DEF IndexFaithful
<1> QED BY <1>1, <1>2, <1>3, PTL DEF PluginsSpec
-----------------------------------------------------------------------------
(* The catalog.  Every entry is found by its other names, as a slug or by  *)
(* the alias index, and what an index gives was given that name.           *)
MgIsEntry(e, name, models, alias, claimed) ==
  /\ e.name = name /\ MgGiven(e) \subseteq claimed /\ (e.gone => ~e.active)
  /\ \A x \in MgOtherNames(e) : x \in DOMAIN models \cup DOMAIN alias
MgHolds(models, alias, norm, claimed) ==
  /\ \A n \in DOMAIN models : MgIsEntry(models[n], n, models, alias, claimed)
  /\ \A n \in DOMAIN alias : alias[n] \in DOMAIN models /\ <<n, alias[n]>> \in claimed
  /\ \A b \in DOMAIN norm : norm[b] \in DOMAIN models
MgInv == MgHolds(mgModels, mgAlias, mgNorm, mgClaimed)

LEMMA MgSetKeeps ==
  ASSUME NEW c, NEW claimed, MgHolds(c.models, c.alias, c.norm, claimed), NEW e, MgGiven(e) \subseteq claimed, e.gone => ~e.active,
         NEW d, d = MgSetEntry(c, e)
  PROVE  MgHolds(d.models, d.alias, d.norm, claimed)
<1> DEFINE models == MgWith(c.models, {e.name}, e)
           others == MgOtherNames(e) \ DOMAIN models
           alias == MgWith(c.alias, others, e.name)
           bases == {MgNormalize(n) : n \in {e.name} \cup MgOtherNames(e)} \ DOMAIN c.norm
           norm == MgWith(c.norm, bases, e.name)
<1>1. d.models = models /\ d.alias = alias /\ d.norm = norm
  BY DEF MgSetEntry
<1>2. /\ DOMAIN models = DOMAIN c.models \cup {e.name} /\ models[e.name] = e
      /\ \A n \in DOMAIN c.models : n # e.name => models[n] = c.models[n]
  BY DEF MgWith
<1> HIDE DEF models, others, bases
<1>3. /\ DOMAIN alias = DOMAIN c.alias \cup others /\ \A n \in others : alias[n] = e.name
      /\ \A n \in DOMAIN c.alias : n \notin others => alias[n] = c.alias[n]
  BY DEF MgWith
<1>4. /\ DOMAIN norm = DOMAIN c.norm \cup bases /\ \A b \in bases : norm[b] = e.name
      /\ \A b \in DOMAIN c.norm : b \notin bases => norm[b] = c.norm[b]
  BY DEF MgWith
<1>5. \A x \in MgOtherNames(e) : x \in DOMAIN models \cup DOMAIN alias
  BY <1>3 DEF others
<1>6. \A n \in others : <<n, e.name>> \in claimed
  BY DEF MgGiven, MgOtherNames, others
<1> HIDE DEF alias, norm
<1>7. \A n \in DOMAIN models : MgIsEntry(models[n], n, models, alias, claimed)
  <2> SUFFICES ASSUME NEW n \in DOMAIN models PROVE MgIsEntry(models[n], n, models, alias, claimed) OBVIOUS
  <2>1. CASE n = e.name
    <3>1. models[n] = e
      BY <1>2, <2>1
    <3>2. MgIsEntry(e, n, models, alias, claimed)
      BY <1>5, <2>1 DEF MgIsEntry
    <3> QED BY <3>1, <3>2
  <2>2. CASE n # e.name
    <3>1. n \in DOMAIN c.models /\ models[n] = c.models[n]
      BY <1>2, <2>2
    <3>2. MgIsEntry(c.models[n], n, c.models, c.alias, claimed)
      BY <3>1 DEF MgHolds
    <3>3. MgIsEntry(c.models[n], n, models, alias, claimed)
      BY <1>2, <1>3, <3>2 DEF MgIsEntry
    <3> QED BY <3>1, <3>3
  <2> QED BY <2>1, <2>2
<1>8. \A n \in DOMAIN alias : alias[n] \in DOMAIN models /\ <<n, alias[n]>> \in claimed
  <2> SUFFICES ASSUME NEW n \in DOMAIN alias PROVE alias[n] \in DOMAIN models /\ <<n, alias[n]>> \in claimed
    OBVIOUS
  <2>1. CASE n \in others
    BY <1>2, <1>3, <1>6, <2>1
  <2>2. CASE n \notin others
    <3>1. n \in DOMAIN c.alias /\ alias[n] = c.alias[n]
      BY <1>3, <2>2
    <3>2. c.alias[n] \in DOMAIN c.models /\ <<n, c.alias[n]>> \in claimed
      BY <3>1 DEF MgHolds
    <3> QED BY <1>2, <3>1, <3>2
  <2> QED BY <2>1, <2>2
<1>9. \A b \in DOMAIN norm : norm[b] \in DOMAIN models
  <2> SUFFICES ASSUME NEW b \in DOMAIN norm PROVE norm[b] \in DOMAIN models OBVIOUS
  <2>1. CASE b \in bases
    BY <1>2, <1>4, <2>1
  <2>2. CASE b \notin bases
    <3>1. b \in DOMAIN c.norm /\ norm[b] = c.norm[b]
      BY <1>4, <2>2
    <3>2. c.norm[b] \in DOMAIN c.models
      BY <3>1 DEF MgHolds
    <3> QED BY <1>2, <3>1, <3>2
  <2> QED BY <2>1, <2>2
<1> QED BY <1>1, <1>7, <1>8, <1>9 DEF MgHolds

(* The recursion of a load is well-defined.                                *)
LEMMA MgAfterIs ==
  ASSUME NEW data, Len(data) \in Nat
  PROVE  MgAfter(data) =
           [n \in 0 .. Len(data) |->
              IF n = 0 THEN [models |-> mgModels, alias |-> mgAlias, norm |-> mgNorm]
              ELSE MgSetEntry(MgAfter(data)[n - 1], data[n])]
<1> DEFINE c == [models |-> mgModels, alias |-> mgAlias, norm |-> mgNorm]
           T == {n \in Nat : \E f : f = [i \in 0 .. n |-> IF i = 0 THEN c ELSE MgSetEntry(f[i - 1], data[i])]}
<1> HIDE DEF c
<1>1. 0 \in T
  <2> DEFINE f == [i \in 0 .. 0 |-> c]
  <2>1. f = [i \in 0 .. 0 |-> IF i = 0 THEN c ELSE MgSetEntry(f[i - 1], data[i])] OBVIOUS
  <2> HIDE DEF f
  <2> QED BY <2>1
<1>2. \A n \in Nat : n \in T => n + 1 \in T
  <2> SUFFICES ASSUME NEW n \in Nat, NEW f, f = [i \in 0 .. n |-> IF i = 0 THEN c ELSE MgSetEntry(f[i - 1], data[i])]
        PROVE  n + 1 \in T
    OBVIOUS
  <2> DEFINE last == MgSetEntry(f[n], data[n + 1])
             g == [i \in 0 .. n + 1 |-> IF i = n + 1 THEN last ELSE f[i]]
  <2>1. \A i \in 0 .. n + 1 : g[i] = IF i = 0 THEN c ELSE MgSetEntry(g[i - 1], data[i])
    <3> SUFFICES ASSUME NEW i \in 0 .. n + 1 PROVE g[i] = IF i = 0 THEN c ELSE MgSetEntry(g[i - 1], data[i])
      OBVIOUS
    <3>1. CASE i = n + 1
      <4>1. i # 0 /\ i - 1 = n /\ g[i] = last /\ g[n] = f[n]
        BY <3>1
      <4> QED BY <3>1, <4>1
    <3>2. CASE i \in 0 .. n /\ i # 0
      <4>1. g[i] = f[i] /\ i - 1 \in 0 .. n /\ g[i - 1] = f[i - 1]
        BY <3>2
      <4>2. f[i] = MgSetEntry(f[i - 1], data[i])
        BY <3>2
      <4> QED BY <3>2, <4>1, <4>2
    <3>3. CASE i = 0
      BY <3>3
    <3>4. i = n + 1 \/ (i \in 0 .. n /\ i # 0) \/ i = 0 OBVIOUS
    <3> QED BY <3>1, <3>2, <3>3, <3>4
  <2>2. g = [i \in 0 .. n + 1 |-> g[i]] OBVIOUS
  <2> HIDE DEF g
  <2>3. g = [i \in 0 .. n + 1 |-> IF i = 0 THEN c ELSE MgSetEntry(g[i - 1], data[i])]
    BY <2>1, <2>2
  <2> QED BY <2>3
<1>3. Len(data) \in T
  <2> HIDE DEF T
  <2> QED BY <1>1, <1>2, NatSetInduction
<1>4. \E f : f = [i \in 0 .. Len(data) |-> IF i = 0 THEN c ELSE MgSetEntry(f[i - 1], data[i])]
  BY <1>3
<1> QED BY <1>4 DEF MgAfter, c

LEMMA MgLoadKeeps ==
  ASSUME MgInv, NEW data \in MgData, MgLoad(data)
  PROVE  MgInv'
<1> DEFINE N == Len(data)
           after == MgAfter(data)
           claimed == mgClaimed \cup UNION {MgGiven(data[k]) : k \in 1 .. Len(data)}
           c == [models |-> mgModels, alias |-> mgAlias, norm |-> mgNorm]
           Q(n) == n <= N => MgHolds(after[n].models, after[n].alias, after[n].norm, claimed)
           T == {n \in Nat : Q(n)}
<1>1. N \in Nat /\ \A k \in 1 .. N : data[k].gone => ~data[k].active
  BY MgShapes, LenProperties
<1>2. after = [n \in 0 .. N |-> IF n = 0 THEN c ELSE MgSetEntry(after[n - 1], data[n])]
  BY <1>1, MgAfterIs
<1>3. mgModels' = after[N].models /\ mgAlias' = after[N].alias /\ mgNorm' = after[N].norm /\ mgClaimed' = claimed
  BY DEF MgLoad
<1>4. c.models = mgModels /\ c.alias = mgAlias /\ c.norm = mgNorm OBVIOUS
<1>5. \A k \in 1 .. N : MgGiven(data[k]) \subseteq claimed OBVIOUS
<1>6. MgHolds(mgModels, mgAlias, mgNorm, claimed)
  <2>1. mgClaimed \subseteq claimed OBVIOUS
  <2> HIDE DEF claimed
  <2> QED BY <2>1 DEF MgInv, MgHolds, MgIsEntry
<1> HIDE DEF c, after, claimed, N
<1>7. 0 \in T
  <2>1. after[0] = c
    BY <1>1, <1>2
  <2> QED BY <1>4, <1>6, <2>1
<1>8. \A n \in Nat : n \in T => n + 1 \in T
  <2> SUFFICES ASSUME NEW n \in Nat, Q(n), n + 1 <= N
        PROVE  MgHolds(after[n + 1].models, after[n + 1].alias, after[n + 1].norm, claimed)
    OBVIOUS
  <2>1. after[n + 1] = MgSetEntry(after[n], data[n + 1]) /\ n + 1 \in 1 .. N /\ n <= N
    <3>1. n + 1 \in 0 .. N /\ n + 1 # 0 /\ n + 1 - 1 = n
      BY <1>1
    <3>2. \A m \in 0 .. N : m # 0 => after[m] = MgSetEntry(after[m - 1], data[m])
      BY <1>2
    <3> QED BY <1>1, <3>1, <3>2
  <2>2. MgHolds(after[n].models, after[n].alias, after[n].norm, claimed)
    BY <2>1
  <2>3. MgGiven(data[n + 1]) \subseteq claimed /\ (data[n + 1].gone => ~data[n + 1].active)
    BY <1>1, <1>5, <2>1
  <2> HIDE DEF Q
  <2> QED BY <2>1, <2>2, <2>3, MgSetKeeps
<1>9. N \in T
  <2> HIDE DEF T
  <2> QED BY <1>1, <1>7, <1>8, NatSetInduction
<1> QED BY <1>1, <1>3, <1>9 DEF MgInv

LEMMA MgInvInit == MgInit => MgInv
  BY DEF MgInit, MgInv, MgHolds, MgEmpty

LEMMA MgInvNext == MgInv /\ [MgNext]_mgVars => MgInv'
<1>1. MgInv /\ UNCHANGED mgVars => MgInv'
  BY DEF MgInv, mgVars
<1>2. MgInv /\ MgTomorrow => MgInv'
  BY DEF MgInv, MgTomorrow
<1> QED BY <1>1, <1>2, MgLoadKeeps DEF MgNext

(* The provider's id of an entry, or its slug, finds the entry.            *)
LEMMA MgIdFinds ==
  ASSUME MgInv, NEW slug \in DOMAIN mgModels, NEW r, r = MgIdOf(mgModels[slug]), MgUnshared(r)
  PROVE  MgGet(r) = {mgModels[slug]}
<1> DEFINE e == mgModels[slug]
<1>1. MgIsEntry(e, slug, mgModels, mgAlias, mgClaimed)
  BY DEF MgInv, MgHolds
<1>2. CASE e.id = {}
  <2>1. r = slug
    BY <1>1, <1>2 DEF MgIdOf, MgIsEntry
  <2> QED BY <2>1 DEF MgGet
<1>3. CASE e.id # {}
  <2>1. r \in e.id
    BY <1>3 DEF MgIdOf
  <2>2. <<r, slug>> \in mgClaimed
    BY <1>1, <2>1 DEF MgIsEntry, MgGiven
  <2>3. \A s : <<r, s>> \in mgClaimed => s = slug
    BY <2>2 DEF MgUnshared
  <2>4. r \in DOMAIN mgModels \cup DOMAIN mgAlias
    BY <1>1, <2>1 DEF MgIsEntry, MgOtherNames
  <2>5. CASE r \in DOMAIN mgModels
    <3>1. MgIsEntry(mgModels[r], r, mgModels, mgAlias, mgClaimed)
      BY <2>5 DEF MgInv, MgHolds
    <3>2. <<r, r>> \in mgClaimed
      BY <3>1 DEF MgIsEntry, MgGiven
    <3>3. r = slug
      BY <2>3, <3>2
    <3> QED BY <3>3 DEF MgGet
  <2>6. CASE r \notin DOMAIN mgModels
    <3>1. r \in DOMAIN mgAlias /\ <<r, mgAlias[r]>> \in mgClaimed
      BY <2>4, <2>6 DEF MgInv, MgHolds
    <3>2. mgAlias[r] = slug
      BY <2>3, <3>1
    <3> QED BY <2>6, <3>1, <3>2 DEF MgGet
  <2> QED BY <2>5, <2>6
<1> QED BY <1>2, <1>3

LEMMA MgInvImplies == MgInv => MgFaithful
<1> SUFFICES ASSUME MgInv PROVE MgFaithful OBVIOUS
<1>1. MgCalledIsPriced
  <2> SUFFICES ASSUME NEW n \in MgNames, MgUnshared(MgResolve(n)) PROVE MgGet(MgResolve(n)) = MgGet(n)
    BY DEF MgCalledIsPriced
  <2>1. CASE n \in DOMAIN mgModels
    <3>1. MgResolve(n) = MgIdOf(mgModels[n]) /\ MgGet(n) = {mgModels[n]}
      BY <2>1 DEF MgResolve, MgGet
    <3> QED BY <2>1, <3>1, MgIdFinds
  <2>2. CASE n \notin DOMAIN mgModels /\ (n \in DOMAIN mgAlias \/ MgNormalize(n) \notin DOMAIN mgNorm)
    <3>1. MgResolve(n) = n
      BY <2>2 DEF MgResolve
    <3> QED BY <3>1
  <2>3. CASE n \notin DOMAIN mgModels /\ n \notin DOMAIN mgAlias /\ MgNormalize(n) \in DOMAIN mgNorm
    <3> DEFINE slug == mgNorm[MgNormalize(n)]
    <3>1. MgResolve(n) = MgIdOf(mgModels[slug]) /\ MgGet(n) = {mgModels[slug]}
      BY <2>3 DEF MgResolve, MgGet
    <3>2. slug \in DOMAIN mgModels
      BY <2>3 DEF MgInv, MgHolds
    <3> HIDE DEF slug
    <3> QED BY <3>1, <3>2, MgIdFinds
  <2> QED BY <2>1, <2>2, <2>3
<1>2. MgRefusalHolds
  <2> SUFFICES ASSUME NEW n \in MgNames
               PROVE  /\ (MgUnavailable(n) /\ ~MgRefused(n)) => MgResolve(n) = n
                      /\ \A hint \in MgHint(n) : hint \notin DOMAIN mgModels => ~MgRefused(hint)
    BY DEF MgRefusalHolds
  <2>1. (MgUnavailable(n) /\ ~MgRefused(n)) => MgResolve(n) = n
    BY DEF MgRefused, MgResolve
  <2>2. ASSUME NEW hint \in MgHint(n), hint \notin DOMAIN mgModels PROVE ~MgRefused(hint)
    <3>1. PICK e \in MgGet(n) : hint \in e.id
      BY <2>2 DEF MgHint
    <3>2. PICK slug \in DOMAIN mgModels : e = mgModels[slug]
      BY DEF MgGet, MgInv, MgHolds
    <3>3. MgIsEntry(e, slug, mgModels, mgAlias, mgClaimed)
      BY <3>2 DEF MgInv, MgHolds
    <3>4. hint \in DOMAIN mgAlias
      BY <2>2, <3>1, <3>3 DEF MgIsEntry, MgOtherNames
    <3> QED BY <2>2, <3>4 DEF MgRefused
  <2> QED BY <2>1, <2>2
<1>3. MgPicksAreCallable
  <2> SUFFICES ASSUME NEW price \in MgPrices, NEW e \in MgBest(price, FALSE) PROVE ~MgRefused(e.name)
    BY DEF MgPicksAreCallable
  <2>1. e \in MgCandidates(price, FALSE)
    BY DEF MgBest
  <2>2. PICK n \in DOMAIN mgModels : e = mgModels[n]
    BY <2>1 DEF MgCandidates
  <2>3. e.active /\ ~MgPastShutdown(e)
    BY <2>1 DEF MgCandidates, MgOffered
  <2>4. MgIsEntry(e, n, mgModels, mgAlias, mgClaimed)
    BY <2>2 DEF MgInv, MgHolds
  <2>5. e.name = n /\ ~e.gone
    BY <2>3, <2>4 DEF MgIsEntry
  <2>6. MgGet(n) = {e}
    BY <2>2 DEF MgGet
  <2> QED BY <2>3, <2>5, <2>6 DEF MgRefused, MgUnavailable
<1> QED BY <1>1, <1>2, <1>3 DEF MgFaithful

(* CatalogFaithful, for any data that may be loaded, in any order and any  *)
(* number of times: as long as no two entries were given the same name the *)
(* name that goes out finds the entry that was asked for, a refusal's hint *)
(* leads past it, and a recommended model can be called (catalog.ts,       *)
(* select-model.ts).                                                       *)
THEOREM CatalogStaysFaithful == PluginsSpec => []CatalogFaithful
<1> DEFINE Inv == turn = "catalog" => MgInv
<1>1. PluginsInit => Inv
  BY MgInvInit DEF PluginsInit
<1>2. Inv /\ [PluginsNext]_PluginsVars => Inv'
  <2> SUFFICES ASSUME Inv, [PluginsNext]_PluginsVars, turn' = "catalog" PROVE MgInv' OBVIOUS
  <2>1. turn = "catalog"
    BY DEF PluginsNext, PluginsVars
  <2>2. [MgNext]_mgVars
    BY <2>1 DEF PluginsNext, PluginsVars, storeVars
  <2> QED BY <2>1, <2>2, MgInvNext
<1>3. Inv => CatalogFaithful
  BY MgInvImplies DEF CatalogFaithful
<1> QED BY <1>1, <1>2, <1>3, PTL DEF PluginsSpec
-----------------------------------------------------------------------------
(* Media.                                                                  *)

(* The usage of an answer is with its first item, and so is the sum.       *)
LEMMA MeUsageSum ==
  ASSUME NEW raw, Len(raw) \in Nat, NEW u \in Nat, \A i \in 1 .. Len(raw) : raw[i].usage = IF i = 1 THEN u ELSE 0
  PROVE  MeAggregateUsage(raw) = IF Len(raw) > 0 THEN u ELSE 0
<1> DEFINE N == Len(raw)
           Sums(f) == f = [n \in 0 .. N |-> IF n = 0 THEN 0 ELSE f[n - 1] + raw[n].usage]
           g == [n \in 0 .. N |-> IF n = 0 THEN 0 ELSE u]
<1>1. Sums(g)
  <2>1. \A n \in 0 .. N : g[n] = IF n = 0 THEN 0 ELSE g[n - 1] + raw[n].usage
    <3> SUFFICES ASSUME NEW n \in 0 .. N PROVE g[n] = IF n = 0 THEN 0 ELSE g[n - 1] + raw[n].usage OBVIOUS
    <3>1. CASE n = 0
      BY <3>1
    <3>2. CASE n = 1
      BY <3>2
    <3>3. CASE n # 0 /\ n # 1
      <4>1. n \in 1 .. N /\ n - 1 \in 0 .. N /\ n - 1 # 0
        BY <3>3
      <4>2. g[n] = u /\ g[n - 1] = u /\ raw[n].usage = 0
        BY <3>3, <4>1
      <4> HIDE DEF g
      <4> QED BY <3>3, <4>2
    <3> QED BY <3>1, <3>2, <3>3
  <2>2. g = [n \in 0 .. N |-> g[n]] OBVIOUS
  <2> HIDE DEF g
  <2> QED BY <2>1, <2>2
<1> DEFINE f == CHOOSE h : Sums(h)
<1>2. Sums(f)
  <2> HIDE DEF Sums
  <2> QED BY <1>1
<1>3. MeAggregateUsage(raw) = f[N]
  BY DEF MeAggregateUsage
<1> HIDE DEF f
<1>a. \A n \in 0 .. N : f[n] = IF n = 0 THEN 0 ELSE f[n - 1] + raw[n].usage
  BY <1>2
<1> DEFINE T == {n \in Nat : n <= N => f[n] = g[n]}
<1>4. 0 \in T
  BY <1>a
<1>5. \A n \in Nat : n \in T => n + 1 \in T
  <2> SUFFICES ASSUME NEW n \in Nat, n <= N => f[n] = g[n], n + 1 <= N PROVE f[n + 1] = g[n + 1] OBVIOUS
  <2>1. n \in 0 .. N /\ n + 1 \in 1 .. N /\ n + 1 \in 0 .. N /\ (n + 1) - 1 = n /\ n + 1 # 0 OBVIOUS
  <2>2. f[n + 1] = f[n] + raw[n + 1].usage
    BY <1>a, <2>1
  <2>3. f[n] = g[n]
    BY <2>1
  <2>4. CASE n = 0
    BY <2>1, <2>2, <2>3, <2>4
  <2>5. CASE n # 0
    BY <2>1, <2>2, <2>3, <2>5
  <2> QED BY <2>4, <2>5
<1> HIDE DEF g
<1>6. N \in T
  <2> HIDE DEF T
  <2> QED BY <1>4, <1>5, NatSetInduction
<1>7. f[N] = g[N]
  BY <1>6
<1> QED BY <1>3, <1>7 DEF g

MeRawIs(c, raw) ==
  IsPlaced(raw) /\ \A i \in 1 .. Len(raw) : raw[i].usage = IF i = 1 THEN (IF c.kind # "video" THEN 1 ELSE 0) ELSE 0
MePhases == {"idle", "ask", "items", "submit", "poll", "download", "save", "returned", "threw"}

(* Where a call is, and what it has so far: nothing raw before an answer,  *)
(* nothing stored before it is whole, and nothing announced before it is   *)
(* returned.                                                               *)
MeCallIs(c, phase, op, polled, raw, saved, announced, errors) ==
  /\ phase \in MePhases /\ polled \in 0 .. MePolls /\ (phase = "poll" => polled < MePolls)
  /\ phase \in {"idle", "submit"} => polled = 0
  /\ phase \in {"ask", "items"} => c.kind # "video"
  /\ phase \in {"submit", "poll", "download"} => c.kind = "video"
  /\ phase = "poll" => op \in {"running", "done", "error"}
  /\ c.kind = "video" /\ phase \in {"save", "returned"} => op = "done"
  /\ c \in errors => op = "error" /\ phase = "threw"
  /\ MeRawIs(c, raw) /\ saved \in 0 .. Len(raw)
  /\ phase \in {"idle", "ask", "submit", "poll", "download"} => Len(raw) = 0
  /\ phase = "items" => saved = 0
  /\ IF phase = "returned"
     THEN Len(announced) = 1 /\ announced[1] = [count |-> Len(raw), usage |-> MeAggregateUsage(raw)] /\ saved = Len(raw)
     ELSE announced = <<>>

MeInv ==
  /\ meErrors \subseteq MeCalls /\ meProgress \subseteq MeCalls
  /\ DOMAIN mePhase = MeCalls /\ DOMAIN meOperation = MeCalls /\ DOMAIN mePolled = MeCalls /\ DOMAIN meRaw = MeCalls
  /\ DOMAIN meSaved = MeCalls /\ DOMAIN meAnnounced = MeCalls
  /\ \A c \in MeCalls :
       MeCallIs(c, mePhase[c], meOperation[c], mePolled[c], meRaw[c], meSaved[c], meAnnounced[c], meErrors)

(* A function that changes at one place, to what is there.                 *)
MeFrame(f, g, c) == DOMAIN g = MeCalls /\ \A q \in MeCalls : q # c => g[q] = f[q]
LEMMA MeFrames ==
  ASSUME NEW f, NEW g, NEW c \in MeCalls, DOMAIN f = MeCalls, g = f \/ \E x : g = [f EXCEPT ![c] = x]
  PROVE  MeFrame(f, g, c)
  BY DEF MeFrame

LEMMA MeStep ==
  ASSUME MeInv, NEW c \in MeCalls,
         mePhase' = mePhase \/ \E x : mePhase' = [mePhase EXCEPT ![c] = x],
         meOperation' = meOperation \/ \E x : meOperation' = [meOperation EXCEPT ![c] = x],
         mePolled' = mePolled \/ \E x : mePolled' = [mePolled EXCEPT ![c] = x],
         meRaw' = meRaw \/ \E x : meRaw' = [meRaw EXCEPT ![c] = x],
         meSaved' = meSaved \/ \E x : meSaved' = [meSaved EXCEPT ![c] = x],
         meAnnounced' = meAnnounced \/ \E x : meAnnounced' = [meAnnounced EXCEPT ![c] = x],
         meErrors' \in {meErrors, meErrors \cup {c}}, meProgress' \in {meProgress, meProgress \cup {c}},
         MeCallIs(c, mePhase'[c], meOperation'[c], mePolled'[c], meRaw'[c], meSaved'[c], meAnnounced'[c], meErrors')
  PROVE  MeInv'
<1>1. /\ DOMAIN mePhase = MeCalls /\ DOMAIN meOperation = MeCalls /\ DOMAIN mePolled = MeCalls /\ DOMAIN meRaw = MeCalls
      /\ DOMAIN meSaved = MeCalls /\ DOMAIN meAnnounced = MeCalls /\ meErrors \subseteq MeCalls /\ meProgress \subseteq MeCalls
  BY DEF MeInv
<1>2. MeFrame(mePhase, mePhase', c) /\ MeFrame(meOperation, meOperation', c)
  BY <1>1, MeFrames
<1>3. MeFrame(mePolled, mePolled', c) /\ MeFrame(meRaw, meRaw', c)
  BY <1>1, MeFrames
<1>4. MeFrame(meSaved, meSaved', c) /\ MeFrame(meAnnounced, meAnnounced', c)
  BY <1>1, MeFrames
<1>5. \A q \in MeCalls : q # c =>
        /\ mePhase'[q] = mePhase[q] /\ meOperation'[q] = meOperation[q] /\ mePolled'[q] = mePolled[q] /\ meRaw'[q] = meRaw[q]
        /\ meSaved'[q] = meSaved[q] /\ meAnnounced'[q] = meAnnounced[q] /\ (q \in meErrors' <=> q \in meErrors)
  BY <1>2, <1>3, <1>4 DEF MeFrame
<1>6. \A q \in MeCalls :
        MeCallIs(q, mePhase'[q], meOperation'[q], mePolled'[q], meRaw'[q], meSaved'[q], meAnnounced'[q], meErrors')
  <2> SUFFICES ASSUME NEW q \in MeCalls, q # c
        PROVE  MeCallIs(q, mePhase'[q], meOperation'[q], mePolled'[q], meRaw'[q], meSaved'[q], meAnnounced'[q], meErrors')
    OBVIOUS
  <2>1. MeCallIs(q, mePhase[q], meOperation[q], mePolled[q], meRaw[q], meSaved[q], meAnnounced[q], meErrors)
    BY DEF MeInv
  <2>2. MeCallIs(q, mePhase[q], meOperation[q], mePolled[q], meRaw[q], meSaved[q], meAnnounced[q], meErrors')
    BY <1>5, <2>1 DEF MeCallIs
  <2> QED BY <1>5, <2>2
<1> QED BY <1>1, <1>2, <1>3, <1>4, <1>6 DEF MeInv, MeFrame

MeHas(c) == MeCallIs(c, mePhase[c], meOperation[c], mePolled[c], meRaw[c], meSaved[c], meAnnounced[c], meErrors)
LEMMA MeHasNow ==
  ASSUME MeInv, NEW c \in MeCalls
  PROVE  /\ MeHas(c) /\ c \in DOMAIN mePhase /\ c \in DOMAIN meOperation /\ c \in DOMAIN mePolled /\ c \in DOMAIN meRaw
         /\ c \in DOMAIN meSaved /\ c \in DOMAIN meAnnounced
  BY DEF MeInv, MeHas

(* A call goes on, or ends, with all it has.                               *)
LEMMA MeGoesOn ==
  ASSUME MeInv, NEW c \in MeCalls, NEW phase, MeGo(c, phase), phase \in {"ask", "submit", "threw"},
         mePhase[c] \in {"idle", "ask", "items", "submit", "poll", "download", "save"},
         phase # "threw" => mePhase[c] = "idle", phase = "ask" => c.kind # "video", phase = "submit" => c.kind = "video",
         UNCHANGED <<meOperation, mePolled, meRaw, meSaved, meAnnounced, meErrors, meProgress>>
  PROVE  MeInv'
<1>1. MeHas(c) /\ c \in DOMAIN mePhase
  BY MeHasNow
<1>2. mePhase'[c] = phase
  BY <1>1 DEF MeGo
<1>3. MeCallIs(c, phase, meOperation[c], mePolled[c], meRaw[c], meSaved[c], meAnnounced[c], meErrors)
  BY <1>1 DEF MeHas, MeCallIs, MePhases
<1>4. MeCallIs(c, mePhase'[c], meOperation'[c], mePolled'[c], meRaw'[c], meSaved'[c], meAnnounced'[c], meErrors')
  BY <1>2, <1>3
<1> QED BY <1>4, MeStep DEF MeGo

LEMMA MeCallKeeps ==
  ASSUME MeInv, NEW c \in MeCalls, MeCall(c)
  PROVE  MeInv'
<1>1. mePhase[c] = "idle" /\ UNCHANGED <<meOperation, mePolled, meRaw, meSaved, meAnnounced, meErrors, meProgress>>
  BY DEF MeCall
<1>2. CASE MeGo(c, "threw")
  BY <1>1, <1>2, MeGoesOn
<1>3. CASE MeGo(c, "ask") /\ c.kind # "video"
  BY <1>1, <1>3, MeGoesOn
<1>4. CASE MeGo(c, "submit") /\ c.kind = "video"
  BY <1>1, <1>4, MeGoesOn
<1> QED BY <1>2, <1>3, <1>4 DEF MeCall

LEMMA MeRequestFailsKeeps ==
  ASSUME MeInv, NEW c \in MeCalls, MeRequestFails(c)
  PROVE  MeInv'
<1>1. mePhase[c] \in {"ask", "items", "submit", "poll", "download"} /\ MeGo(c, "threw")
  BY DEF MeRequestFails
<1>2. UNCHANGED <<meOperation, mePolled, meRaw, meSaved, meAnnounced, meErrors, meProgress>>
  BY DEF MeRequestFails
<1> QED BY <1>1, <1>2, MeGoesOn

(* The results of a call come in, and are to be saved once they are all    *)
(* there.                                                                  *)
LEMMA MeTakesIn ==
  ASSUME MeInv, NEW c \in MeCalls, NEW raw, NEW phase, meRaw' = meRaw \/ \E x : meRaw' = [meRaw EXCEPT ![c] = x],
         MeGo(c, phase), meRaw'[c] = raw, MeRawIs(c, raw), phase \in {"items", "save"}, phase = "items" => c.kind # "video",
         mePhase[c] \in {"ask", "items", "download"}, c.kind = "video" => meOperation[c] = "done",
         UNCHANGED <<meOperation, mePolled, meSaved, meAnnounced, meErrors, meProgress>>
  PROVE  MeInv'
<1>1. MeHas(c) /\ c \in DOMAIN mePhase
  BY MeHasNow
<1>2. mePhase'[c] = phase
  BY <1>1 DEF MeGo
<1>3. meSaved[c] = 0
  BY <1>1 DEF MeHas, MeCallIs
<1>4. Len(raw) \in Nat
  BY DEF MeRawIs, IsPlaced
<1>5. MeCallIs(c, phase, meOperation[c], mePolled[c], raw, meSaved[c], meAnnounced[c], meErrors)
  BY <1>1, <1>3, <1>4 DEF MeHas, MeCallIs, MePhases
<1>6. MeCallIs(c, mePhase'[c], meOperation'[c], mePolled'[c], meRaw'[c], meSaved'[c], meAnnounced'[c], meErrors')
  BY <1>2, <1>5
<1> QED BY <1>6, MeStep DEF MeGo

LEMMA MeRawOfIs ==
  ASSUME NEW n \in Nat, NEW c, c.kind # "video"
  PROVE  MeRawIs(c, MeRawOf(n))
<1> DEFINE raw == MeRawOf(n)
<1>1. raw = [i \in 1 .. n |-> raw[i]] /\ \A i \in 1 .. n : raw[i].usage = IF i = 1 THEN 1 ELSE 0
  BY DEF MeRawOf
<1> HIDE DEF raw
<1>2. IsPlaced(raw) /\ Len(raw) = n
  BY <1>1, PlacedOf
<1>3. MeRawIs(c, raw)
  BY <1>1, <1>2 DEF MeRawIs
<1> QED BY <1>3 DEF raw

LEMMA MeAnswerKeeps ==
  ASSUME MeInv, NEW c \in MeCalls, NEW n \in 0 .. MeItems, MeAnswer(c, n)
  PROVE  MeInv'
<1>1. mePhase[c] = "ask" /\ UNCHANGED <<meOperation, mePolled, meSaved, meAnnounced, meErrors, meProgress>>
  BY DEF MeAnswer
<1>2. MeHas(c) /\ c \in DOMAIN mePhase /\ c \in DOMAIN meRaw
  BY MeHasNow
<1>3. c.kind # "video"
  BY <1>1, <1>2 DEF MeHas, MeCallIs
<1>4. CASE MeGo(c, "threw") /\ UNCHANGED meRaw
  BY <1>1, <1>4, MeGoesOn
<1>5. CASE MeGo(c, "save") /\ meRaw' = [meRaw EXCEPT ![c] = MeRawOf(n)]
  <2>1. MeRawIs(c, MeRawOf(n))
    BY <1>3, MeRawOfIs, MeAssumption
  <2>2. meRaw'[c] = MeRawOf(n)
    BY <1>2, <1>5
  <2> QED BY <1>1, <1>3, <1>5, <2>1, <2>2, MeTakesIn
<1>6. CASE MeGo(c, "items") /\ UNCHANGED meRaw
  <2>1. MeRawIs(c, meRaw[c]) /\ meRaw'[c] = meRaw[c]
    BY <1>2, <1>6 DEF MeHas, MeCallIs
  <2> QED BY <1>1, <1>3, <1>6, <2>1, MeTakesIn
<1> QED BY <1>4, <1>5, <1>6 DEF MeAnswer

LEMMA MeDownloadItemKeeps ==
  ASSUME MeInv, NEW c \in MeCalls, MeDownloadItem(c)
  PROVE  MeInv'
<1> DEFINE raw == meRaw[c]
           item == [usage |-> IF raw = <<>> THEN 1 ELSE 0]
           more == Append(raw, item)
<1>1. mePhase[c] = "items" /\ UNCHANGED <<meOperation, mePolled, meSaved, meAnnounced, meErrors, meProgress>>
  BY DEF MeDownloadItem
<1>2. MeHas(c) /\ c \in DOMAIN meRaw
  BY MeHasNow
<1>3. c.kind # "video" /\ MeRawIs(c, raw)
  BY <1>1, <1>2 DEF MeHas, MeCallIs
<1>4. meRaw' = [meRaw EXCEPT ![c] = more] /\ (MeGo(c, "save") \/ MeGo(c, "items"))
  BY DEF MeDownloadItem
<1>5. item.usage = IF Len(raw) = 0 THEN 1 ELSE 0
  <2>1. raw \in Seq({raw[i] : i \in 1 .. Len(raw)})
    BY <1>3 DEF MeRawIs, IsPlaced
  <2>2. raw = <<>> <=> Len(raw) = 0
    BY <2>1, EmptySeq, LenProperties
  <2> HIDE DEF raw
  <2> QED BY <2>2
<1> HIDE DEF item, raw
<1>6. IsPlaced(raw)
  BY <1>3 DEF MeRawIs
<1>7. IsPlaced(more) /\ Len(more) = Len(raw) + 1 /\ more[Len(raw) + 1] = item /\ \A i \in 1 .. Len(raw) : more[i] = raw[i]
  BY <1>6, PlacedAppend
<1> HIDE DEF more
<1>8. MeRawIs(c, more)
  <2> SUFFICES ASSUME NEW i \in 1 .. Len(more) PROVE more[i].usage = IF i = 1 THEN 1 ELSE 0
    BY <1>3, <1>7 DEF MeRawIs
  <2>1. Len(raw) \in Nat
    BY <1>6 DEF IsPlaced
  <2>2. CASE i = Len(raw) + 1
    <3>1. more[i] = item /\ (i = 1 <=> Len(raw) = 0)
      BY <1>7, <2>1, <2>2
    <3> QED BY <1>5, <3>1
  <2>3. CASE i # Len(raw) + 1
    <3>1. i \in 1 .. Len(raw) /\ more[i] = raw[i]
      BY <1>7, <2>1, <2>3
    <3> QED BY <1>3, <3>1 DEF MeRawIs
  <2> QED BY <2>2, <2>3
<1>9. meRaw'[c] = more
  BY <1>2, <1>4
<1> QED BY <1>1, <1>3, <1>4, <1>8, <1>9, MeTakesIn

LEMMA MeSubmitKeeps ==
  ASSUME MeInv, NEW c \in MeCalls, MeSubmit(c)
  PROVE  MeInv'
<1>1. MeHas(c) /\ c \in DOMAIN mePhase /\ c \in DOMAIN meOperation
  BY MeHasNow
<1>2. mePhase[c] = "submit" /\ mePhase'[c] = "poll" /\ meOperation'[c] = "running"
  BY <1>1 DEF MeSubmit, MeGo
<1>3. UNCHANGED <<mePolled, meRaw, meSaved, meAnnounced, meErrors, meProgress>>
  BY DEF MeSubmit
<1>4. MeCallIs(c, "poll", "running", mePolled[c], meRaw[c], meSaved[c], meAnnounced[c], meErrors)
  BY <1>1, <1>2, MeAssumption DEF MeHas, MeCallIs, MePhases
<1>5. MeCallIs(c, mePhase'[c], meOperation'[c], mePolled'[c], meRaw'[c], meSaved'[c], meAnnounced'[c], meErrors')
  BY <1>2, <1>3, <1>4
<1> QED BY <1>3, <1>5, MeStep DEF MeSubmit, MeGo

LEMMA MeOperationEndsKeeps ==
  ASSUME MeInv, NEW c \in MeCalls, MeOperationEnds(c)
  PROVE  MeInv'
<1>1. MeHas(c) /\ c \in DOMAIN meOperation
  BY MeHasNow
<1>2. mePhase[c] = "poll" /\ meOperation'[c] \in {"done", "error"} /\ c \notin meErrors
  BY <1>1 DEF MeOperationEnds, MeHas, MeCallIs
<1>3. UNCHANGED <<mePhase, mePolled, meRaw, meSaved, meAnnounced, meErrors, meProgress>>
  BY DEF MeOperationEnds
<1>4. MeCallIs(c, mePhase[c], meOperation'[c], mePolled[c], meRaw[c], meSaved[c], meAnnounced[c], meErrors)
  BY <1>1, <1>2 DEF MeHas, MeCallIs, MePhases
<1>5. MeCallIs(c, mePhase'[c], meOperation'[c], mePolled'[c], meRaw'[c], meSaved'[c], meAnnounced'[c], meErrors')
  BY <1>3, <1>4
<1> QED BY <1>3, <1>5, MeStep DEF MeOperationEnds

LEMMA MePollKeeps ==
  ASSUME MeInv, NEW c \in MeCalls, MePoll(c)
  PROVE  MeInv'
<1>1. MeHas(c) /\ c \in DOMAIN mePhase /\ c \in DOMAIN mePolled
  BY MeHasNow
<1>2. /\ mePhase[c] = "poll" /\ mePolled[c] \in 0 .. MePolls /\ mePolled[c] < MePolls /\ c \notin meErrors
      /\ meOperation[c] \in {"running", "done", "error"} /\ c.kind = "video" /\ Len(meRaw[c]) = 0 /\ MeRawIs(c, meRaw[c])
      /\ meSaved[c] \in 0 .. Len(meRaw[c]) /\ meAnnounced[c] = <<>>
  BY <1>1 DEF MePoll, MeHas, MeCallIs
<1>3. UNCHANGED <<meOperation, meRaw, meSaved, meAnnounced>> /\ mePolled'[c] = mePolled[c] + 1
  BY <1>1 DEF MePoll
<1>4. mePolled[c] + 1 \in 0 .. MePolls
  BY <1>2, MeAssumption
<1>5. \/ MeGo(c, "poll") /\ mePolled[c] + 1 < MePolls /\ UNCHANGED meErrors
      \/ MeGo(c, "threw") /\ UNCHANGED meErrors
      \/ MeGo(c, "download") /\ UNCHANGED meErrors
      \/ MeGo(c, "threw") /\ meErrors' = meErrors \cup {c} /\ meOperation[c] = "error"
  BY <1>2 DEF MePoll, MeStatus
<1>6. \/ mePhase'[c] = "poll" /\ mePolled[c] + 1 < MePolls /\ meErrors' = meErrors
      \/ mePhase'[c] \in {"threw", "download"} /\ meErrors' = meErrors
      \/ mePhase'[c] = "threw" /\ meErrors' = meErrors \cup {c} /\ meOperation[c] = "error"
  BY <1>1, <1>5 DEF MeGo
<1>7. MeCallIs(c, mePhase'[c], meOperation[c], mePolled[c] + 1, meRaw[c], meSaved[c], meAnnounced[c], meErrors')
  BY <1>2, <1>4, <1>6 DEF MeCallIs, MePhases
<1>8. MeCallIs(c, mePhase'[c], meOperation'[c], mePolled'[c], meRaw'[c], meSaved'[c], meAnnounced'[c], meErrors')
  BY <1>3, <1>7
<1>9. \E x : mePhase' = [mePhase EXCEPT ![c] = x]
  BY <1>5 DEF MeGo
<1>10. \E x : mePolled' = [mePolled EXCEPT ![c] = x]
  BY DEF MePoll
<1>11. meErrors' \in {meErrors, meErrors \cup {c}} /\ meProgress' \in {meProgress, meProgress \cup {c}}
  BY <1>2, <1>5 DEF MePoll, MeStatus
<1> QED BY <1>3, <1>8, <1>9, <1>10, <1>11, MeStep

LEMMA MeDownloadKeeps ==
  ASSUME MeInv, NEW c \in MeCalls, MeDownload(c)
  PROVE  MeInv'
<1>1. mePhase[c] = "download" /\ UNCHANGED <<meOperation, mePolled, meSaved, meAnnounced, meErrors, meProgress>>
  BY DEF MeDownload
<1>2. MeHas(c) /\ c \in DOMAIN meRaw
  BY MeHasNow
<1>3. c.kind = "video"
  BY <1>1, <1>2 DEF MeHas, MeCallIs
<1>4. CASE MeGo(c, "threw") /\ UNCHANGED meRaw
  BY <1>1, <1>4, MeGoesOn
<1>5. CASE meOperation[c] = "done" /\ MeGo(c, "save") /\ meRaw' = [meRaw EXCEPT ![c] = <<[usage |-> 0]>>]
  <2> DEFINE raw == <<[usage |-> 0]>>
  <2>1. raw = [i \in 1 .. 1 |-> raw[i]] /\ raw[1].usage = 0 OBVIOUS
  <2>2. meRaw'[c] = raw
    BY <1>2, <1>5
  <2>3. \E x : meRaw' = [meRaw EXCEPT ![c] = x]
    BY <1>5
  <2> HIDE DEF raw
  <2>4. IsPlaced(raw) /\ Len(raw) = 1
    BY <2>1, PlacedOf
  <2>5. MeRawIs(c, raw)
    BY <1>3, <2>1, <2>4 DEF MeRawIs
  <2> QED BY <1>1, <1>5, <2>2, <2>3, <2>5, MeTakesIn
<1> QED BY <1>4, <1>5 DEF MeDownload

LEMMA MeSaveKeeps ==
  ASSUME MeInv, NEW c \in MeCalls, MeSave(c)
  PROVE  MeInv'
<1>1. mePhase[c] = "save" /\ meSaved[c] < Len(meRaw[c]) /\ UNCHANGED <<meOperation, mePolled, meRaw, meAnnounced, meErrors, meProgress>>
  BY DEF MeSave
<1>2. MeHas(c) /\ c \in DOMAIN meSaved
  BY MeHasNow
<1>3. CASE MeGo(c, "threw") /\ UNCHANGED meSaved
  BY <1>1, <1>3, MeGoesOn
<1>4. CASE meSaved' = [meSaved EXCEPT ![c] = @ + 1] /\ UNCHANGED mePhase
  <2>1. meSaved'[c] = meSaved[c] + 1
    BY <1>2, <1>4
  <2>2. Len(meRaw[c]) \in Nat
    BY <1>2 DEF MeHas, MeCallIs, MeRawIs, IsPlaced
  <2>3. MeCallIs(c, mePhase[c], meOperation[c], mePolled[c], meRaw[c], meSaved[c] + 1, meAnnounced[c], meErrors)
    BY <1>1, <1>2, <2>2 DEF MeHas, MeCallIs, MePhases
  <2>4. MeCallIs(c, mePhase'[c], meOperation'[c], mePolled'[c], meRaw'[c], meSaved'[c], meAnnounced'[c], meErrors')
    BY <1>1, <1>4, <2>1, <2>3
  <2>5. \E x : meSaved' = [meSaved EXCEPT ![c] = x]
    BY <1>4
  <2> QED BY <1>1, <1>4, <2>4, <2>5, MeStep
<1> QED BY <1>3, <1>4 DEF MeSave

LEMMA MeAnnounceKeeps ==
  ASSUME MeInv, NEW c \in MeCalls, MeAnnounce(c)
  PROVE  MeInv'
<1> DEFINE a == [count |-> meSaved[c], usage |-> MeAggregateUsage(meRaw[c])]
<1>1. /\ mePhase[c] = "save" /\ meSaved[c] = Len(meRaw[c]) /\ meAnnounced' = [meAnnounced EXCEPT ![c] = Append(meAnnounced[c], a)]
      /\ MeGo(c, "returned") /\ UNCHANGED <<meOperation, mePolled, meRaw, meSaved, meErrors, meProgress>>
  BY DEF MeAnnounce
<1>2. MeHas(c) /\ c \in DOMAIN mePhase /\ c \in DOMAIN meAnnounced
  BY MeHasNow
<1>3. a = [count |-> Len(meRaw[c]), usage |-> MeAggregateUsage(meRaw[c])]
  BY <1>1
<1> HIDE DEF a
<1>4. meAnnounced[c] = <<>>
  BY <1>1, <1>2 DEF MeHas, MeCallIs
<1>5. meAnnounced'[c] = <<a>> /\ mePhase'[c] = "returned"
  BY <1>1, <1>2, <1>4 DEF MeGo
<1>6. MeCallIs(c, "returned", meOperation[c], mePolled[c], meRaw[c], meSaved[c], <<a>>, meErrors)
  <2>1. Len(<<a>>) = 1 /\ <<a>>[1] = a OBVIOUS
  <2> QED BY <1>1, <1>2, <1>3, <2>1 DEF MeHas, MeCallIs, MePhases
<1>7. MeCallIs(c, mePhase'[c], meOperation'[c], mePolled'[c], meRaw'[c], meSaved'[c], meAnnounced'[c], meErrors')
  BY <1>1, <1>5, <1>6
<1>8. (\E x : meAnnounced' = [meAnnounced EXCEPT ![c] = x]) /\ (\E x : mePhase' = [mePhase EXCEPT ![c] = x])
  BY <1>1 DEF MeGo
<1> QED BY <1>1, <1>7, <1>8, MeStep

LEMMA MeInvInit == MeInit => MeInv
<1> SUFFICES ASSUME MeInit PROVE MeInv OBVIOUS
<1>1. Len(<<>>) = 0 /\ <<>> = [i \in 1 .. 0 |-> <<>>[i]] OBVIOUS
<1>2. \A c \in MeCalls : MeRawIs(c, <<>>)
  BY <1>1 DEF MeRawIs, IsPlaced
<1> QED BY <1>1, <1>2, MeAssumption DEF MeInit, MeInv, MeCallIs, MePhases

LEMMA MeInvNext == MeInv /\ [MeNext]_meVars => MeInv'
<1>1. MeInv /\ UNCHANGED meVars => MeInv'
  BY DEF MeInv, MeCallIs, MeRawIs, meVars
<1> QED BY <1>1, MeCallKeeps, MeRequestFailsKeeps, MeAnswerKeeps, MeDownloadItemKeeps, MeSubmitKeeps, MeOperationEndsKeeps,
           MePollKeeps, MeDownloadKeeps, MeSaveKeeps, MeAnnounceKeeps DEF MeNext

LEMMA MeInvImplies == MeInv => MeTypeOK /\ MeFaithful
<1> SUFFICES ASSUME MeInv PROVE MeTypeOK /\ MeFaithful OBVIOUS
<1>1. \A c \in MeCalls : MeHas(c)
  BY MeHasNow
<1>2. MeTypeOK
  <2> SUFFICES ASSUME NEW c \in MeCalls
               PROVE  /\ mePhase[c] \in MePhases /\ mePolled[c] \in 0 .. MePolls
                      /\ meSaved[c] <= Len(meRaw[c]) /\ Len(meAnnounced[c]) <= 1
    BY DEF MeTypeOK, MeInv, MePhases
  <2>1. meSaved[c] \in 0 .. Len(meRaw[c]) /\ Len(meRaw[c]) \in Nat
    BY <1>1 DEF MeHas, MeCallIs, MeRawIs, IsPlaced
  <2>2. Len(meAnnounced[c]) = 1 \/ meAnnounced[c] = <<>>
    BY <1>1 DEF MeHas, MeCallIs
  <2>3. Len(meAnnounced[c]) <= 1
    <3>1. Len(<<>>) = 0 OBVIOUS
    <3>2. CASE Len(meAnnounced[c]) = 1
      BY <3>2
    <3>3. CASE meAnnounced[c] = <<>>
      <4>1. Len(meAnnounced[c]) = 0
        BY <3>1, <3>3
      <4> QED BY <4>1
    <3> QED BY <2>2, <3>2, <3>3
  <2>4. mePhase[c] \in MePhases /\ mePolled[c] \in 0 .. MePolls
    BY <1>1 DEF MeHas, MeCallIs
  <2> QED BY <2>1, <2>3, <2>4
<1>3. MeReturnedIsAnnounced
  <2> SUFFICES ASSUME NEW c \in MeCalls, mePhase[c] = "returned"
               PROVE  \E a \in ToSet(meAnnounced[c]) :
                        /\ Len(meAnnounced[c]) = 1 /\ a.count = Len(meRaw[c]) /\ a.count = meSaved[c]
                        /\ a.usage = IF c.kind # "video" /\ a.count > 0 THEN 1 ELSE 0
    BY <1>1 DEF MeReturnedIsAnnounced, MeHas, MeCallIs
  <2> DEFINE a == [count |-> Len(meRaw[c]), usage |-> MeAggregateUsage(meRaw[c])]
             u == IF c.kind # "video" THEN 1 ELSE 0
  <2>1. Len(meAnnounced[c]) = 1 /\ meAnnounced[c][1] = a /\ meSaved[c] = Len(meRaw[c]) /\ MeRawIs(c, meRaw[c])
    BY <1>1 DEF MeHas, MeCallIs
  <2>2. Len(meRaw[c]) \in Nat /\ \A i \in 1 .. Len(meRaw[c]) : meRaw[c][i].usage = IF i = 1 THEN u ELSE 0
    BY <2>1 DEF MeRawIs, IsPlaced
  <2>3. u \in Nat OBVIOUS
  <2> HIDE DEF u
  <2>4. MeAggregateUsage(meRaw[c]) = IF Len(meRaw[c]) > 0 THEN u ELSE 0
    BY <2>2, <2>3, MeUsageSum
  <2>5. a.count = Len(meRaw[c]) /\ a.usage = IF c.kind # "video" /\ a.count > 0 THEN 1 ELSE 0
    BY <2>4 DEF u
  <2> HIDE DEF a
  <2>6. a \in ToSet(meAnnounced[c])
    BY <2>1 DEF ToSet
  <2> QED BY <2>1, <2>5, <2>6
<1>4. MeVideosAreReal
  BY <1>1 DEF MeVideosAreReal, MeHas, MeCallIs
<1> QED BY <1>2, <1>3, <1>4 DEF MeFaithful

(* MediaFaithful, for any calls, any number of results and of polls: what  *)
(* is returned was stored whole and announced once with its usage counted  *)
(* once, and nothing is announced of a call that throws (output.ts,        *)
(* helpers/media.ts).                                                      *)
THEOREM MediaStaysFaithful == PluginsSpec => []MediaFaithful
<1> DEFINE Inv == turn = "media" => MeInv
<1>1. PluginsInit => Inv
  BY MeInvInit DEF PluginsInit
<1>2. Inv /\ [PluginsNext]_PluginsVars => Inv'
  <2> SUFFICES ASSUME Inv, [PluginsNext]_PluginsVars, turn' = "media" PROVE MeInv' OBVIOUS
  <2>1. turn = "media"
    BY DEF PluginsNext, PluginsVars
  <2>2. [MeNext]_meVars
    BY <2>1 DEF PluginsNext, PluginsVars, serviceVars
  <2> QED BY <2>1, <2>2, MeInvNext
<1>3. Inv => MediaFaithful
  BY MeInvImplies DEF MediaFaithful
<1> QED BY <1>1, <1>2, <1>3, PTL DEF PluginsSpec
-----------------------------------------------------------------------------
(* The server: its response store.                                         *)

(* What is left of a sequence without one of its elements.                 *)
LEMMA RemovedAt ==
  ASSUME NEW S, NEW s \in Seq(S), NEW n \in 1 .. Len(s), NEW t, t = RemoveAt(s, n)
  PROVE  /\ t \in Seq(S) /\ Len(t) = Len(s) - 1
         /\ \A k \in 1 .. Len(t) : (k < n => t[k] = s[k]) /\ (~(k < n) => t[k] = s[k + 1])
<1> DEFINE a == SubSeq(s, 1, n - 1)
           b == SubSeq(s, n + 1, Len(s))
<1>1. Len(s) \in Nat /\ n \in Nat /\ n >= 1 /\ n <= Len(s) /\ \A i \in 1 .. Len(s) : s[i] \in S
  BY LenProperties, ElementOfSeq
<1>2. a \in Seq(S) /\ Len(a) = n - 1 /\ \A i \in 1 .. n - 1 : a[i] = s[i]
  <2>1. \A i \in 1 .. n - 1 : s[i] \in S
    BY <1>1
  <2>2. 1 \in Int /\ n - 1 \in Int
    BY <1>1
  <2>3. a \in Seq(S) /\ Len(a) = (IF 1 <= n - 1 THEN n - 1 - 1 + 1 ELSE 0) /\ \A i \in 1 .. n - 1 - 1 + 1 : a[i] = s[1 + i - 1]
    BY <2>1, <2>2, SubSeqProperties
  <2> HIDE DEF a
  <2> QED BY <1>1, <2>3
<1>3. b \in Seq(S) /\ Len(b) = Len(s) - n /\ \A i \in 1 .. Len(s) - n : b[i] = s[n + i]
  <2>1. \A i \in n + 1 .. Len(s) : s[i] \in S
    BY <1>1
  <2>2. n + 1 \in Int /\ Len(s) \in Int
    BY <1>1
  <2>3. /\ b \in Seq(S) /\ Len(b) = IF n + 1 <= Len(s) THEN Len(s) - (n + 1) + 1 ELSE 0
        /\ \A i \in 1 .. Len(s) - (n + 1) + 1 : b[i] = s[n + 1 + i - 1]
    BY <2>1, <2>2, SubSeqProperties
  <2> HIDE DEF b
  <2> QED BY <1>1, <2>3
<1>4. t = a \o b
  BY DEF RemoveAt
<1> HIDE DEF a, b
<1> DEFINE ab == a \o b
<1>c. ab \in Seq(S) /\ Len(ab) = Len(a) + Len(b) /\ \A k \in 1 .. Len(a) + Len(b) : ab[k] = IF k <= Len(a) THEN a[k] ELSE b[k - Len(a)]
  BY <1>2, <1>3, ConcatProperties
<1>d. t = ab
  BY <1>4
<1> HIDE DEF ab
<1>5. t \in Seq(S) /\ Len(t) = Len(a) + Len(b) /\ \A k \in 1 .. Len(a) + Len(b) : t[k] = IF k <= Len(a) THEN a[k] ELSE b[k - Len(a)]
  BY <1>c, <1>d
<1>6. Len(t) = Len(s) - 1
  BY <1>1, <1>2, <1>3, <1>5
<1>7. ASSUME NEW k \in 1 .. Len(t) PROVE (k < n => t[k] = s[k]) /\ (~(k < n) => t[k] = s[k + 1])
  <2>1. CASE k < n
    <3>1. k \in 1 .. n - 1 /\ k <= Len(a) /\ k \in 1 .. Len(a) + Len(b)
      BY <1>1, <1>2, <1>3, <1>6, <2>1
    <3> QED BY <1>2, <1>5, <2>1, <3>1
  <2>2. CASE ~(k < n)
    <3>1. k - Len(a) \in 1 .. Len(s) - n /\ ~(k <= Len(a)) /\ k \in 1 .. Len(a) + Len(b) /\ n + (k - Len(a)) = k + 1
      BY <1>1, <1>2, <1>3, <1>6, <2>2
    <3>2. t[k] = b[k - Len(a)]
      BY <1>5, <3>1
    <3>3. b[k - Len(a)] = s[n + (k - Len(a))]
      BY <1>3, <3>1
    <3> QED BY <2>2, <3>1, <3>2, <3>3
  <2> QED BY <2>1, <2>2
<1> QED BY <1>5, <1>6, <1>7

SvOps == {"get", "set", "delete"} \X SvIds \X Nat
SvEntries == SvIds \X Nat
SvIsCache(cache) ==
  cache \in Seq(SvEntries) /\ \A a, b \in 1 .. Len(cache) : cache[a][1] = cache[b][1] => a = b
SvWrites(io, n, i) == io[n][1] # "get" /\ io[n][2] = i

(* The writes of i that are under way are all of v, and where there is     *)
(* none, the persistence holds v.                                          *)
SvSettled(i, v, io, stored) ==
  /\ \A n \in 1 .. Len(io) : SvWrites(io, n, i) => io[n][3] = v
  /\ (\A n \in 1 .. Len(io) : ~SvWrites(io, n, i)) => stored[i] = v
(* Of two operations on i that are under way neither is a write.           *)
SvClean(i, io) ==
  \A n, m \in 1 .. Len(io) : n # m /\ io[n][2] = i /\ SvWrites(io, m, i) => FALSE

SvStoreInv ==
  /\ SvIsCache(svCache) /\ Len(svCache) <= SvCapacity
  /\ svIo \in Seq(SvOps) /\ svStored \in [SvIds -> Nat] /\ svRaced \subseteq SvIds /\ svCount \in 0 .. SvPuts
  /\ \A i \in SvIds \ svRaced : SvClean(i, svIo)
  /\ \A k \in 1 .. Len(svCache) : svCache[k][1] \notin svRaced => SvSettled(svCache[k][1], svCache[k][2], svIo, svStored)

(* What is in the cache without i: all the others, each in its place.      *)
LEMMA SvWithoutIs ==
  ASSUME SvIsCache(svCache), NEW i, NEW t, t = SvCacheWithout(i)
  PROVE  /\ SvIsCache(t) /\ Len(t) <= Len(svCache)
         /\ \A k \in 1 .. Len(t) : t[k][1] # i /\ \E m \in 1 .. Len(svCache) : t[k] = svCache[m]
<1> DEFINE c == svCache
<1>1. c \in Seq(SvEntries) /\ Len(c) \in Nat /\ DOMAIN c = 1 .. Len(c) /\ \A a, b \in 1 .. Len(c) : c[a][1] = c[b][1] => a = b
  BY LenProperties DEF SvIsCache
<1>2. CASE ~SvCached(i)
  <2>1. t = c
    BY <1>2 DEF SvCacheWithout
  <2>2. \A k \in 1 .. Len(c) : c[k][1] # i
    BY <1>1, <1>2 DEF SvCached, ToSet
  <2> QED BY <1>1, <2>1, <2>2
<1>3. CASE SvCached(i)
  <2> DEFINE n == CHOOSE n \in DOMAIN c : c[n][1] = i
  <2>1. \E m \in DOMAIN c : c[m][1] = i
    BY <1>3 DEF SvCached, ToSet
  <2>2. n \in 1 .. Len(c) /\ c[n][1] = i
    BY <1>1, <2>1
  <2>3. t = RemoveAt(c, n)
    BY <1>3 DEF SvCacheWithout
  <2> HIDE DEF n, c
  <2>4. t \in Seq(SvEntries) /\ Len(t) = Len(c) - 1 /\ \A k \in 1 .. Len(t) : (k < n => t[k] = c[k]) /\ (~(k < n) => t[k] = c[k + 1])
    <3>1. c \in Seq(SvEntries) /\ n \in 1 .. Len(c)
      BY <1>1, <2>2
    <3>2. RemoveAt(c, n) \in Seq(SvEntries)
    BY <3>1, RemovedAt
    <3>3. Len(RemoveAt(c, n)) = Len(c) - 1
    BY <3>1, RemovedAt
    <3>4. \A k \in 1 .. Len(RemoveAt(c, n)) : (k < n => RemoveAt(c, n)[k] = c[k]) /\ (~(k < n) => RemoveAt(c, n)[k] = c[k + 1])
    BY <3>1, RemovedAt
    <3> QED BY <2>3, <3>2, <3>3, <3>4
  <2> DEFINE at(k) == IF k < n THEN k ELSE k + 1
  <2>5. \A k \in 1 .. Len(t) : at(k) \in 1 .. Len(c) /\ at(k) # n
    BY <1>1, <2>2, <2>4
  <2>6. \A a, b \in 1 .. Len(t) : at(a) = at(b) => a = b
    BY <1>1, <2>2, <2>4
  <2>7. \A k \in 1 .. Len(t) : t[k] = c[at(k)]
    BY <2>4
  <2> HIDE DEF at
  <2>8. \A k \in 1 .. Len(t) : t[k][1] # i
    BY <1>1, <2>2, <2>5, <2>7
  <2>9. \A a, b \in 1 .. Len(t) : t[a][1] = t[b][1] => a = b
    BY <1>1, <2>5, <2>6, <2>7
  <2>10. Len(t) <= Len(c)
    BY <1>1, <2>4
  <2> QED BY <2>4, <2>5, <2>7, <2>8, <2>9, <2>10 DEF SvIsCache, c
<1> QED BY <1>2, <1>3

LEMMA SvPutIs ==
  ASSUME SvIsCache(svCache), NEW i \in SvIds, NEW v \in Nat, NEW t, t = SvPutInCache(i, v)
  PROVE  /\ SvIsCache(t) /\ Len(t) <= SvCapacity
         /\ \A k \in 1 .. Len(t) : t[k] = <<i, v>> \/ (t[k][1] # i /\ \E m \in 1 .. Len(svCache) : t[k] = svCache[m])
<1> DEFINE u == SvCacheWithout(i)
           c == Append(u, <<i, v>>)
           from == IF Len(c) > SvCapacity THEN Len(c) - SvCapacity + 1 ELSE 1
<1>1. t = SubSeq(c, from, Len(c))
  BY DEF SvPutInCache
<1>2. /\ SvIsCache(u) /\ \A k \in 1 .. Len(u) : u[k][1] # i /\ \E m \in 1 .. Len(svCache) : u[k] = svCache[m]
  BY SvWithoutIs
<1>3. u \in Seq(SvEntries) /\ Len(u) \in Nat /\ \A a, b \in 1 .. Len(u) : u[a][1] = u[b][1] => a = b
  BY <1>2, LenProperties DEF SvIsCache
<1> HIDE DEF u
<1>4. <<i, v>> \in SvEntries /\ <<i, v>>[1] = i
  BY DEF SvEntries
<1>5. c \in Seq(SvEntries) /\ Len(c) = Len(u) + 1 /\ c[Len(u) + 1] = <<i, v>> /\ \A k \in 1 .. Len(u) : c[k] = u[k]
  BY <1>3, <1>4, AppendProperties
<1> HIDE DEF c
<1>6. \A k \in 1 .. Len(c) : c[k] = <<i, v>> \/ (c[k][1] # i /\ \E m \in 1 .. Len(svCache) : c[k] = svCache[m])
  <2> SUFFICES ASSUME NEW k \in 1 .. Len(c)
        PROVE  c[k] = <<i, v>> \/ (c[k][1] # i /\ \E m \in 1 .. Len(svCache) : c[k] = svCache[m])
    OBVIOUS
  <2>1. CASE k = Len(u) + 1
    BY <1>5, <2>1
  <2>2. CASE k # Len(u) + 1
    <3>1. k \in 1 .. Len(u) /\ c[k] = u[k]
      BY <1>3, <1>5, <2>2
    <3> QED BY <1>2, <3>1
  <2> QED BY <2>1, <2>2
<1>7. \A a, b \in 1 .. Len(c) : c[a][1] = c[b][1] => a = b
  <2> SUFFICES ASSUME NEW a \in 1 .. Len(c), NEW b \in 1 .. Len(c), c[a][1] = c[b][1] PROVE a = b OBVIOUS
  <2>1. \A k \in 1 .. Len(c) : k \in 1 .. Len(u) \/ k = Len(u) + 1
    BY <1>3, <1>5
  <2>2. CASE a \in 1 .. Len(u) /\ b \in 1 .. Len(u)
    BY <1>3, <1>5, <2>2
  <2>3. CASE a = Len(u) + 1 /\ b = Len(u) + 1
    BY <2>3
  <2>4. CASE a \in 1 .. Len(u) /\ b = Len(u) + 1
    <3>1. c[a][1] # i /\ c[b][1] = i
      BY <1>2, <1>4, <1>5, <2>4
    <3> QED BY <3>1
  <2>5. CASE a = Len(u) + 1 /\ b \in 1 .. Len(u)
    <3>1. c[a][1] = i /\ c[b][1] # i
      BY <1>2, <1>4, <1>5, <2>5
    <3> QED BY <3>1
  <2> QED BY <2>1, <2>2, <2>3, <2>4, <2>5
<1>8. Len(c) \in Nat /\ from \in 1 .. Len(c) /\ Len(c) - from + 1 <= SvCapacity
  BY <1>3, <1>5, SvAssumption
<1> HIDE DEF from
<1>9. t \in Seq(SvEntries) /\ Len(t) = Len(c) - from + 1 /\ \A k \in 1 .. Len(t) : t[k] = c[from + k - 1]
  <2>1. \A k \in from .. Len(c) : c[k] \in SvEntries
    BY <1>5, <1>8, ElementOfSeq
  <2>2. from \in Int /\ Len(c) \in Int /\ from <= Len(c)
    BY <1>8
  <2> QED BY <1>1, <2>1, <2>2, SubSeqProperties
<1>10. \A k \in 1 .. Len(t) : from + k - 1 \in 1 .. Len(c)
  BY <1>8, <1>9
<1>11. \A a, b \in 1 .. Len(t) : from + a - 1 = from + b - 1 => a = b
  BY <1>8
<1>12. \A a, b \in 1 .. Len(t) : t[a][1] = t[b][1] => a = b
  <2> SUFFICES ASSUME NEW a \in 1 .. Len(t), NEW b \in 1 .. Len(t), t[a][1] = t[b][1] PROVE a = b OBVIOUS
  <2>1. from + a - 1 = from + b - 1
    BY <1>7, <1>9, <1>10
  <2> QED BY <1>11, <2>1
<1>13. Len(t) <= SvCapacity /\ SvIsCache(t)
  BY <1>8, <1>9, <1>12 DEF SvIsCache
<1>14. \A k \in 1 .. Len(t) : t[k] = <<i, v>> \/ (t[k][1] # i /\ \E m \in 1 .. Len(svCache) : t[k] = svCache[m])
  BY <1>6, <1>9, <1>10
<1> QED BY <1>13, <1>14

(* What is issued goes to the end of the operations under way.             *)
LEMMA SvIssued ==
  ASSUME svIo \in Seq(SvOps), NEW op \in {"get", "set", "delete"}, NEW i \in SvIds, NEW v \in Nat, SvIssue(op, i, v)
  PROVE  /\ svIo' \in Seq(SvOps) /\ Len(svIo) \in Nat /\ Len(svIo') = Len(svIo) + 1
         /\ \A n \in 1 .. Len(svIo) : n \in 1 .. Len(svIo') /\ svIo'[n] = svIo[n]
         /\ \A n \in 1 .. Len(svIo') : n \in 1 .. Len(svIo) \/ n = Len(svIo) + 1
         /\ Len(svIo) + 1 \in 1 .. Len(svIo')
         /\ svIo'[Len(svIo) + 1][1] = op /\ svIo'[Len(svIo) + 1][2] = i /\ svIo'[Len(svIo) + 1][3] = v
<1>1. <<op, i, v>> \in SvOps /\ Len(svIo) \in Nat
  BY LenProperties DEF SvOps
<1>2. svIo' = Append(svIo, <<op, i, v>>)
  BY DEF SvIssue
<1>3. svIo' \in Seq(SvOps) /\ Len(svIo') = Len(svIo) + 1 /\ svIo'[Len(svIo) + 1] = <<op, i, v>> /\ \A n \in 1 .. Len(svIo) : svIo'[n] = svIo[n]
  BY <1>1, <1>2, AppendProperties
<1>4. svIo'[Len(svIo) + 1][1] = op /\ svIo'[Len(svIo) + 1][2] = i /\ svIo'[Len(svIo) + 1][3] = v
  BY <1>3
<1>5. /\ \A n \in 1 .. Len(svIo) : n \in 1 .. Len(svIo')
      /\ \A n \in 1 .. Len(svIo') : n \in 1 .. Len(svIo) \/ n = Len(svIo) + 1
      /\ Len(svIo) + 1 \in 1 .. Len(svIo')
  BY <1>1, <1>3
<1> QED BY <1>1, <1>3, <1>4, <1>5

(* An operation on i leaves another id as it is, and a read leaves what i  *)
(* settles to; i stays clean where it overlaps nothing.                    *)
LEMMA SvIssuedKeeps ==
  ASSUME svIo \in Seq(SvOps), NEW op \in {"get", "set", "delete"}, NEW i \in SvIds, NEW v \in Nat, SvIssue(op, i, v)
  PROVE  /\ \A j : j # i /\ SvClean(j, svIo) => SvClean(j, svIo')
         /\ SvClean(i, svIo) /\ ~SvOverlaps(op, i) => SvClean(i, svIo')
         /\ \A j, w : (j # i \/ op = "get") /\ SvSettled(j, w, svIo, svStored) => SvSettled(j, w, svIo', svStored)
<1>1. /\ \A n \in 1 .. Len(svIo) : n \in 1 .. Len(svIo') /\ svIo'[n] = svIo[n]
      /\ \A n \in 1 .. Len(svIo') : n \in 1 .. Len(svIo) \/ n = Len(svIo) + 1
      /\ svIo'[Len(svIo) + 1][1] = op /\ svIo'[Len(svIo) + 1][2] = i /\ DOMAIN svIo = 1 .. Len(svIo)
  BY SvIssued, LenProperties
<1> DEFINE new == Len(svIo) + 1
<1> HIDE DEF new
<1>2. \A n \in 1 .. Len(svIo') : (n \in 1 .. Len(svIo) /\ svIo'[n] = svIo[n]) \/ n = new
  BY <1>1 DEF new
<1>3. svIo'[new][1] = op /\ svIo'[new][2] = i
  BY <1>1 DEF new
<1>4. ASSUME NEW j, j # i, SvClean(j, svIo) PROVE SvClean(j, svIo')
  <2>1. \A n \in 1 .. Len(svIo') : svIo'[n][2] = j => n \in 1 .. Len(svIo) /\ svIo'[n] = svIo[n]
    BY <1>2, <1>3, <1>4
  <2> QED BY <1>4, <2>1 DEF SvClean, SvWrites
<1>5. ASSUME SvClean(i, svIo), ~SvOverlaps(op, i) PROVE SvClean(i, svIo')
  <2> SUFFICES ASSUME NEW n \in 1 .. Len(svIo'), NEW m \in 1 .. Len(svIo'), n # m, svIo'[n][2] = i, svIo'[m][2] = i,
                      svIo'[m][1] # "get"
        PROVE  FALSE
    BY DEF SvClean, SvWrites
  <2>1. \A k \in 1 .. Len(svIo) : svIo[k][2] = i => svIo[k][1] \notin {"set", "delete"} \cup (IF op = "get" THEN {} ELSE {"get"})
    BY <1>1, <1>5 DEF SvOverlaps, SvUnderWay
  <2>2. \A k \in 1 .. Len(svIo) : svIo[k][1] \in {"get", "set", "delete"}
    <3>1. \A k \in 1 .. Len(svIo) : svIo[k] \in SvOps
      BY ElementOfSeq
    <3> QED BY <3>1 DEF SvOps
  <2>3. CASE op = "get"
    <3>1. m # new
      BY <1>3, <2>3
    <3>2. m \in 1 .. Len(svIo) /\ svIo'[m] = svIo[m]
      BY <1>2, <3>1
    <3> QED BY <2>1, <2>2, <3>2
  <2>4. CASE op # "get"
    <3>1. \A k \in 1 .. Len(svIo) : svIo[k][2] # i
      BY <2>1, <2>2, <2>4
    <3>2. n = new /\ m = new
      BY <1>2, <3>1
    <3> QED BY <3>2
  <2> QED BY <2>3, <2>4
<1>6. ASSUME NEW j, NEW w, j # i \/ op = "get", SvSettled(j, w, svIo, svStored) PROVE SvSettled(j, w, svIo', svStored)
  <2>1. \A n \in 1 .. Len(svIo') : SvWrites(svIo', n, j) => n \in 1 .. Len(svIo) /\ svIo'[n] = svIo[n] /\ SvWrites(svIo, n, j)
    BY <1>2, <1>3, <1>6 DEF SvWrites
  <2>2. \A n \in 1 .. Len(svIo) : n \in 1 .. Len(svIo') /\ (SvWrites(svIo', n, j) <=> SvWrites(svIo, n, j))
    BY <1>1 DEF SvWrites
  <2> QED BY <1>6, <2>1, <2>2 DEF SvSettled
<1> QED BY <1>4, <1>5, <1>6

LEMMA SvGetKeeps == ASSUME SvStoreInv, NEW i \in SvIds, SvGet(i) PROVE SvStoreInv'
<1>1. CASE SvCached(i) /\ svCache' = SvPutInCache(i, SvCacheValue(i)) /\ UNCHANGED <<svIo, svRaced>>
  <2>1. PICK m \in 1 .. Len(svCache) : svCache[m][1] = i /\ svCache[m][2] = SvCacheValue(i)
    <3>1. svCache \in Seq(SvEntries) /\ DOMAIN svCache = 1 .. Len(svCache)
      BY LenProperties DEF SvStoreInv, SvIsCache
    <3> DEFINE e == CHOOSE e \in ToSet(svCache) : e[1] = i
    <3>2. e \in ToSet(svCache) /\ e[1] = i
      BY <1>1 DEF SvCached
    <3>3. SvCacheValue(i) = e[2]
      BY DEF SvCacheValue
    <3> HIDE DEF e
    <3> QED BY <3>1, <3>2, <3>3 DEF ToSet
  <2> DEFINE v == SvCacheValue(i)
  <2>2. v \in Nat
    <3>1. svCache[m] \in SvEntries
      BY ElementOfSeq DEF SvStoreInv, SvIsCache
    <3> QED BY <2>1, <3>1 DEF SvEntries
  <2>3. svCache' = SvPutInCache(i, v)
    BY <1>1
  <2> HIDE DEF v
  <2>4. /\ SvIsCache(svCache') /\ Len(svCache') <= SvCapacity
        /\ \A k \in 1 .. Len(svCache') : svCache'[k] = <<i, v>> \/ (svCache'[k][1] # i /\ \E n \in 1 .. Len(svCache) : svCache'[k] = svCache[n])
    BY <2>2, <2>3, SvPutIs DEF SvStoreInv
  <2>5. UNCHANGED <<svIo, svStored, svRaced, svCount>>
    BY <1>1 DEF SvGet
  <2>6. ASSUME NEW k \in 1 .. Len(svCache'), svCache'[k][1] \notin svRaced
        PROVE  SvSettled(svCache'[k][1], svCache'[k][2], svIo, svStored)
    <3>1. PICK n \in 1 .. Len(svCache) : svCache[n][1] = svCache'[k][1] /\ svCache[n][2] = svCache'[k][2]
      <4>1. CASE svCache'[k] = <<i, v>>
        <5>1. svCache'[k][1] = i /\ svCache'[k][2] = v
          BY <4>1
        <5> QED BY <2>1, <5>1 DEF v
      <4>2. CASE \E n \in 1 .. Len(svCache) : svCache'[k] = svCache[n]
        BY <4>2
      <4> QED BY <2>4, <4>1, <4>2
    <3> QED BY <2>6, <3>1 DEF SvStoreInv
  <2> QED BY <2>4, <2>5, <2>6 DEF SvStoreInv
<1>2. CASE ~SvCached(i) /\ SvIssue("get", i, 0) /\ UNCHANGED svCache /\ SvNoteOverlap("get", i)
  <2> DEFINE op == "get"
  <2>1. svIo \in Seq(SvOps) /\ UNCHANGED <<svCache, svStored, svCount>> /\ svRaced' = IF SvOverlaps(op, i) THEN svRaced \cup {i} ELSE svRaced
    BY <1>2 DEF SvGet, SvStoreInv, SvNoteOverlap
  <2>2. op \in {"get", "set", "delete"} /\ op = "get" /\ SvIssue(op, i, 0) /\ 0 \in Nat
    BY <1>2
  <2> HIDE DEF op
  <2>3. svIo' \in Seq(SvOps)
    BY <2>1, <2>2, SvIssued
  <2>4. /\ \A j : j # i /\ SvClean(j, svIo) => SvClean(j, svIo')
        /\ SvClean(i, svIo) /\ ~SvOverlaps(op, i) => SvClean(i, svIo')
        /\ \A j, w : SvSettled(j, w, svIo, svStored) => SvSettled(j, w, svIo', svStored)
    BY <2>1, <2>2, SvIssuedKeeps
  <2>5. \A j \in SvIds \ svRaced' : SvClean(j, svIo')
    BY <2>1, <2>4 DEF SvStoreInv
  <2>6. svRaced' \subseteq SvIds /\ svRaced \subseteq svRaced'
    BY <2>1 DEF SvStoreInv
  <2> QED BY <2>1, <2>3, <2>4, <2>5, <2>6 DEF SvStoreInv
<1> QED BY <1>1, <1>2 DEF SvGet

(* A write is issued, and tells the cache.                                 *)
LEMMA SvWrittenKeeps ==
  ASSUME SvStoreInv, NEW i \in SvIds, NEW op \in {"set", "delete"}, NEW v \in Nat, SvIssue(op, i, v),
         svCount < SvPuts, svCount' = svCount + 1, SvNoteOverlap(op, i), UNCHANGED svStored,
         SvIsCache(svCache'), Len(svCache') <= SvCapacity,
         \A k \in 1 .. Len(svCache') :
           \/ svCache'[k] = <<i, v>>
           \/ svCache'[k][1] # i /\ \E n \in 1 .. Len(svCache) : svCache'[k] = svCache[n]
  PROVE  SvStoreInv'
<1>1. svIo \in Seq(SvOps) /\ DOMAIN svIo = 1 .. Len(svIo)
  BY LenProperties DEF SvStoreInv
<1>2. /\ svIo' \in Seq(SvOps) /\ Len(svIo) \in Nat /\ Len(svIo) + 1 \in 1 .. Len(svIo')
      /\ \A n \in 1 .. Len(svIo) : svIo'[n] = svIo[n]
      /\ \A n \in 1 .. Len(svIo') : n \in 1 .. Len(svIo) \/ n = Len(svIo) + 1
      /\ svIo'[Len(svIo) + 1][1] = op /\ svIo'[Len(svIo) + 1][2] = i /\ svIo'[Len(svIo) + 1][3] = v
  BY <1>1, SvIssued
<1>3. /\ \A j : j # i /\ SvClean(j, svIo) => SvClean(j, svIo')
      /\ SvClean(i, svIo) /\ ~SvOverlaps(op, i) => SvClean(i, svIo')
      /\ \A j, w : j # i /\ SvSettled(j, w, svIo, svStored) => SvSettled(j, w, svIo', svStored)
  BY <1>1, SvIssuedKeeps
<1>4. svCount' \in 0 .. SvPuts
  BY SvAssumption DEF SvStoreInv
<1>5. svRaced' = IF SvOverlaps(op, i) THEN svRaced \cup {i} ELSE svRaced
  BY DEF SvNoteOverlap
<1>6. i \notin svRaced' => SvSettled(i, v, svIo', svStored)
  <2> SUFFICES ASSUME i \notin svRaced' PROVE SvSettled(i, v, svIo', svStored) OBVIOUS
  <2>1. SvWrites(svIo', Len(svIo) + 1, i)
    BY <1>2 DEF SvWrites
  <2>2. \A n \in 1 .. Len(svIo) : ~SvWrites(svIo, n, i)
    <3>1. \A n \in 1 .. Len(svIo) : svIo[n] \in SvOps
      BY <1>1, ElementOfSeq
    <3>2. \A n \in 1 .. Len(svIo) : svIo[n][1] \in {"get", "set", "delete"}
      BY <3>1 DEF SvOps
    <3>3. ~SvOverlaps(op, i)
      BY <1>5
    <3> QED BY <1>1, <3>2, <3>3 DEF SvOverlaps, SvUnderWay, SvWrites
  <2>3. \A n \in 1 .. Len(svIo') : SvWrites(svIo', n, i) => n = Len(svIo) + 1
    BY <1>2, <2>2 DEF SvWrites
  <2> QED BY <1>2, <2>1, <2>3 DEF SvSettled
<1>7. \A j \in SvIds \ svRaced' : SvClean(j, svIo')
  BY <1>3, <1>5 DEF SvStoreInv
<1>8. ASSUME NEW k \in 1 .. Len(svCache'), svCache'[k][1] \notin svRaced'
      PROVE  SvSettled(svCache'[k][1], svCache'[k][2], svIo', svStored)
  <2>1. CASE svCache'[k] = <<i, v>>
    <3>1. svCache'[k][1] = i /\ svCache'[k][2] = v
      BY <2>1
    <3> QED BY <1>6, <1>8, <3>1
  <2>2. CASE svCache'[k][1] # i /\ \E n \in 1 .. Len(svCache) : svCache'[k] = svCache[n]
    <3>1. SvSettled(svCache'[k][1], svCache'[k][2], svIo, svStored)
      BY <1>5, <1>8, <2>2 DEF SvStoreInv
    <3> QED BY <1>3, <2>2, <3>1
  <2> QED BY <2>1, <2>2
<1>9. svRaced' \subseteq SvIds /\ svStored' \in [SvIds -> Nat]
  BY <1>5 DEF SvStoreInv
<1> QED BY <1>2, <1>4, <1>7, <1>8, <1>9 DEF SvStoreInv

LEMMA SvPutKeeps == ASSUME SvStoreInv, NEW i \in SvIds, SvPut(i) PROVE SvStoreInv'
<1> DEFINE v == svCount + 1
           op == "set"
<1>1. v \in Nat /\ op \in {"set", "delete"}
  BY SvAssumption DEF SvStoreInv
<1>2. /\ svCount < SvPuts /\ svCount' = svCount + 1 /\ SvNoteOverlap(op, i) /\ UNCHANGED svStored
      /\ svCache' = SvPutInCache(i, v) /\ SvIssue(op, i, v)
  BY DEF SvPut
<1> HIDE DEF v, op
<1>3. /\ SvIsCache(svCache') /\ Len(svCache') <= SvCapacity
      /\ \A k \in 1 .. Len(svCache') : svCache'[k] = <<i, v>> \/ (svCache'[k][1] # i /\ \E n \in 1 .. Len(svCache) : svCache'[k] = svCache[n])
  BY <1>1, <1>2, SvPutIs DEF SvStoreInv
<1> QED BY <1>1, <1>2, <1>3, SvWrittenKeeps

LEMMA SvDeleteKeeps == ASSUME SvStoreInv, NEW i \in SvIds, SvDelete(i) PROVE SvStoreInv'
<1> DEFINE op == "delete"
<1>1. op \in {"set", "delete"} /\ 0 \in Nat OBVIOUS
<1>2. /\ svCount < SvPuts /\ svCount' = svCount + 1 /\ SvNoteOverlap(op, i) /\ UNCHANGED svStored
      /\ svCache' = SvCacheWithout(i) /\ SvIssue(op, i, 0)
  BY DEF SvDelete
<1> HIDE DEF op
<1>3. /\ SvIsCache(svCache') /\ Len(svCache') <= Len(svCache)
      /\ \A k \in 1 .. Len(svCache') : svCache'[k][1] # i /\ \E n \in 1 .. Len(svCache) : svCache'[k] = svCache[n]
  BY <1>2, SvWithoutIs DEF SvStoreInv
<1>4. Len(svCache') <= SvCapacity
  <2>1. Len(svCache) \in Nat /\ Len(svCache') \in Nat /\ Len(svCache) <= SvCapacity
    BY <1>3, LenProperties DEF SvStoreInv, SvIsCache
  <2> QED BY <1>3, <2>1, SvAssumption
<1> QED BY <1>1, <1>2, <1>3, <1>4, SvWrittenKeeps

(* An operation that ends is gone from those under way, and the rest keep  *)
(* their order.                                                            *)
LEMMA SvEnds ==
  ASSUME svIo \in Seq(SvOps), NEW n \in 1 .. Len(svIo), svIo' = RemoveAt(svIo, n)
  PROVE  /\ svIo' \in Seq(SvOps)
         /\ \A a \in 1 .. Len(svIo') : \E b \in 1 .. Len(svIo) : b # n /\ svIo'[a] = svIo[b]
         /\ \A b \in 1 .. Len(svIo) : b # n => \E a \in 1 .. Len(svIo') : svIo'[a] = svIo[b]
         /\ \A j : SvClean(j, svIo) => SvClean(j, svIo')
<1>1. Len(svIo) \in Nat
  BY LenProperties
<1>2. svIo' \in Seq(SvOps) /\ Len(svIo') = Len(svIo) - 1
  BY RemovedAt
<1>3. \A k \in 1 .. Len(svIo') : (k < n => svIo'[k] = svIo[k]) /\ (~(k < n) => svIo'[k] = svIo[k + 1])
  BY RemovedAt
<1> DEFINE at(k) == IF k < n THEN k ELSE k + 1
           back(k) == IF k < n THEN k ELSE k - 1
<1>4. \A k \in 1 .. Len(svIo') : at(k) \in 1 .. Len(svIo) /\ at(k) # n /\ svIo'[k] = svIo[at(k)]
  BY <1>1, <1>2, <1>3
<1>5. \A k, l \in 1 .. Len(svIo') : k # l => at(k) # at(l)
  BY <1>1, <1>2
<1>6. \A k \in 1 .. Len(svIo) : k # n => back(k) \in 1 .. Len(svIo') /\ at(back(k)) = k
  BY <1>1, <1>2
<1> HIDE DEF at, back
<1>7. \A j : SvClean(j, svIo) => SvClean(j, svIo')
  BY <1>4, <1>5 DEF SvClean, SvWrites
<1> QED BY <1>2, <1>4, <1>6, <1>7

LEMMA SvLandKeeps == ASSUME SvStoreInv, NEW n \in 1 .. Len(svIo), SvLand(n) PROVE SvStoreInv'
<1> DEFINE op == svIo[n]
           i == op[2]
<1>1. svIo \in Seq(SvOps) /\ svIo' = RemoveAt(svIo, n)
  BY DEF SvLand, SvStoreInv
<1>2. /\ svIo' \in Seq(SvOps)
      /\ \A a \in 1 .. Len(svIo') : \E b \in 1 .. Len(svIo) : b # n /\ svIo'[a] = svIo[b]
      /\ \A b \in 1 .. Len(svIo) : b # n => \E a \in 1 .. Len(svIo') : svIo'[a] = svIo[b]
      /\ \A j : SvClean(j, svIo) => SvClean(j, svIo')
  BY <1>1, SvEnds
<1>3. /\ svStored' = IF op[1] = "get" THEN svStored ELSE [svStored EXCEPT ![i] = op[3]]
      /\ svCache' = IF op[1] = "get" /\ svStored[i] # 0 THEN SvPutInCache(i, svStored[i]) ELSE svCache
      /\ UNCHANGED <<svRaced, svCount>>
  BY DEF SvLand
<1>4. op[1] \in {"get", "set", "delete"} /\ i \in SvIds /\ op[3] \in Nat
  <2>1. op \in SvOps
    BY <1>1, ElementOfSeq
  <2> QED BY <2>1 DEF SvOps
<1>5. svIo[n][1] = op[1] /\ svIo[n][2] = i /\ svIo[n][3] = op[3] OBVIOUS
<1> HIDE DEF op, i
<1>6. svStored' \in [SvIds -> Nat]
  BY <1>3, <1>4 DEF SvStoreInv
<1>7. ASSUME NEW j \in SvIds \ svRaced, NEW v, SvSettled(j, v, svIo, svStored) PROVE SvSettled(j, v, svIo', svStored')
  <2>1. SvClean(j, svIo)
    BY <1>7 DEF SvStoreInv
  <2>2. \A a \in 1 .. Len(svIo') : SvWrites(svIo', a, j) => svIo'[a][3] = v
    BY <1>2, <1>7 DEF SvSettled, SvWrites
  <2>3. ASSUME \A a \in 1 .. Len(svIo') : ~SvWrites(svIo', a, j) PROVE svStored'[j] = v
    <3>1. \A b \in 1 .. Len(svIo) : b # n => ~SvWrites(svIo, b, j)
      BY <1>2, <2>3 DEF SvWrites
    <3>2. CASE SvWrites(svIo, n, j)
      <4>1. svIo[n][3] = v /\ j = i /\ op[1] # "get"
        BY <1>5, <1>7, <3>2 DEF SvSettled, SvWrites
      <4> QED BY <1>3, <1>4, <1>5, <4>1 DEF SvStoreInv
    <3>3. CASE ~SvWrites(svIo, n, j)
      <4>1. svStored[j] = v
        BY <1>7, <3>1, <3>3 DEF SvSettled
      <4>2. svStored'[j] = svStored[j]
        BY <1>3, <1>4, <1>5, <3>3 DEF SvStoreInv, SvWrites
      <4> QED BY <4>1, <4>2
    <3> QED BY <3>2, <3>3
  <2> QED BY <2>2, <2>3 DEF SvSettled
<1>8. \A k \in 1 .. Len(svCache) : svCache[k][1] \notin svRaced => SvSettled(svCache[k][1], svCache[k][2], svIo', svStored')
  <2> SUFFICES ASSUME NEW k \in 1 .. Len(svCache), svCache[k][1] \notin svRaced
        PROVE  SvSettled(svCache[k][1], svCache[k][2], svIo', svStored')
    OBVIOUS
  <2>1. SvSettled(svCache[k][1], svCache[k][2], svIo, svStored)
    BY DEF SvStoreInv
  <2>2. svCache[k] \in SvEntries
    BY ElementOfSeq DEF SvStoreInv, SvIsCache
  <2>3. svCache[k][1] \in SvIds
    BY <2>2 DEF SvEntries
  <2> QED BY <1>7, <2>1, <2>3
<1>9. \A j \in SvIds \ svRaced : SvClean(j, svIo')
  BY <1>2 DEF SvStoreInv
<1>10. CASE op[1] = "get" /\ svStored[i] # 0
  <2> DEFINE v == svStored[i]
  <2>1. v \in Nat /\ svCache' = SvPutInCache(i, v) /\ svStored' = svStored
    BY <1>3, <1>4, <1>10 DEF SvStoreInv
  <2>2. i \notin svRaced => SvSettled(i, v, svIo', svStored')
    <3> SUFFICES ASSUME i \notin svRaced PROVE SvSettled(i, v, svIo', svStored') OBVIOUS
    <3>1. SvClean(i, svIo)
      BY <1>4 DEF SvStoreInv
    <3>2. \A b \in 1 .. Len(svIo) : b # n => ~SvWrites(svIo, b, i)
      BY <1>5, <3>1 DEF SvClean
    <3>3. \A a \in 1 .. Len(svIo') : ~SvWrites(svIo', a, i)
      BY <1>2, <3>2 DEF SvWrites
    <3> QED BY <2>1, <3>3 DEF SvSettled
  <2> HIDE DEF v
  <2>3. /\ SvIsCache(svCache') /\ Len(svCache') <= SvCapacity
        /\ \A k \in 1 .. Len(svCache') : svCache'[k] = <<i, v>> \/ (svCache'[k][1] # i /\ \E m \in 1 .. Len(svCache) : svCache'[k] = svCache[m])
    BY <1>4, <2>1, SvPutIs DEF SvStoreInv
  <2>4. ASSUME NEW k \in 1 .. Len(svCache'), svCache'[k][1] \notin svRaced
        PROVE  SvSettled(svCache'[k][1], svCache'[k][2], svIo', svStored')
    <3>1. CASE svCache'[k] = <<i, v>>
      <4>1. svCache'[k][1] = i /\ svCache'[k][2] = v
        BY <3>1
      <4> QED BY <2>2, <2>4, <4>1
    <3>2. CASE \E m \in 1 .. Len(svCache) : svCache'[k] = svCache[m]
      BY <1>8, <2>4, <3>2
    <3> QED BY <2>3, <3>1, <3>2
  <2> QED BY <1>2, <1>3, <1>6, <1>9, <2>3, <2>4 DEF SvStoreInv
<1>11. CASE ~(op[1] = "get" /\ svStored[i] # 0)
  BY <1>2, <1>3, <1>6, <1>8, <1>9, <1>11 DEF SvStoreInv
<1> QED BY <1>10, <1>11

(* A write that fails leaves its id to the raced ones; a read, nothing.    *)
LEMMA SvFailKeeps == ASSUME SvStoreInv, NEW n \in 1 .. Len(svIo), SvFail(n) PROVE SvStoreInv'
<1>1. svIo \in Seq(SvOps) /\ svIo' = RemoveAt(svIo, n) /\ UNCHANGED <<svCache, svStored, svCount>>
  BY DEF SvFail, SvStoreInv
<1>2. /\ svIo' \in Seq(SvOps)
      /\ \A a \in 1 .. Len(svIo') : \E b \in 1 .. Len(svIo) : b # n /\ svIo'[a] = svIo[b]
      /\ \A b \in 1 .. Len(svIo) : b # n => \E a \in 1 .. Len(svIo') : svIo'[a] = svIo[b]
      /\ \A j : SvClean(j, svIo) => SvClean(j, svIo')
  BY <1>1, SvEnds
<1>3. svIo[n] \in SvOps
  BY <1>1, ElementOfSeq
<1>4. svIo[n][2] \in SvIds
  BY <1>3 DEF SvOps
<1>5. svRaced' = IF svIo[n][1] = "get" THEN svRaced ELSE svRaced \cup {svIo[n][2]}
  BY DEF SvFail
<1>6. svRaced' \subseteq SvIds /\ svRaced \subseteq svRaced'
  BY <1>4, <1>5 DEF SvStoreInv
<1>7. \A j : j \notin svRaced' => ~SvWrites(svIo, n, j)
  BY <1>5 DEF SvWrites
<1>8. ASSUME NEW j, NEW v, j \notin svRaced', SvSettled(j, v, svIo, svStored) PROVE SvSettled(j, v, svIo', svStored)
  <2>1. ASSUME NEW a \in 1 .. Len(svIo'), SvWrites(svIo', a, j) PROVE svIo'[a][3] = v
    <3>1. PICK b \in 1 .. Len(svIo) : b # n /\ svIo'[a] = svIo[b]
      BY <1>2
    <3>2. SvWrites(svIo, b, j)
      BY <2>1, <3>1 DEF SvWrites
    <3>3. svIo[b][3] = v
      BY <1>8, <3>2 DEF SvSettled
    <3> QED BY <3>1, <3>3
  <2>2. (\A a \in 1 .. Len(svIo') : ~SvWrites(svIo', a, j)) => \A b \in 1 .. Len(svIo) : b # n => ~SvWrites(svIo, b, j)
    BY <1>2 DEF SvWrites
  <2> QED BY <1>7, <1>8, <2>1, <2>2 DEF SvSettled
<1>9. \A j \in SvIds \ svRaced' : SvClean(j, svIo')
  BY <1>2, <1>6 DEF SvStoreInv
<1>10. \A k \in 1 .. Len(svCache) : svCache[k][1] \notin svRaced' => SvSettled(svCache[k][1], svCache[k][2], svIo', svStored)
  BY <1>6, <1>8 DEF SvStoreInv
<1> QED BY <1>1, <1>2, <1>6, <1>9, <1>10 DEF SvStoreInv

LEMMA SvStoreInvInit == SvInit => SvStoreInv
<1> SUFFICES ASSUME SvInit PROVE SvStoreInv OBVIOUS
<1>1. Len(<<>>) = 0 /\ <<>> \in Seq(SvOps) /\ <<>> \in Seq(SvEntries) OBVIOUS
<1> QED BY <1>1, SvAssumption DEF SvInit, SvStoreInv, SvIsCache, SvClean, SvSettled

LEMMA SvStoreInvNext == SvStoreInv /\ [SvStoreNext]_svStoreVars => SvStoreInv'
<1>1. SvStoreInv /\ UNCHANGED svStoreVars => SvStoreInv'
  BY DEF SvStoreInv, SvIsCache, SvClean, SvSettled, SvWrites, svStoreVars
<1>2. SvStoreInv /\ SvRestart => SvStoreInv'
  <2> SUFFICES ASSUME SvStoreInv, SvRestart PROVE SvStoreInv' OBVIOUS
  <2>1. Len(<<>>) = 0 /\ <<>> \in Seq(SvOps) /\ <<>> \in Seq(SvEntries) OBVIOUS
  <2> QED BY <2>1, SvAssumption DEF SvRestart, SvStoreInv, SvIsCache, SvClean, SvSettled
<1>3. SvStoreInv => DOMAIN svIo = 1 .. Len(svIo)
  BY LenProperties DEF SvStoreInv
<1>4. SvStoreInv /\ SvStoreNext => SvStoreInv'
  <2> SUFFICES ASSUME SvStoreInv, SvStoreNext PROVE SvStoreInv' OBVIOUS
  <2>1. CASE \E i \in SvIds : SvGet(i) \/ SvPut(i) \/ SvDelete(i)
    BY <2>1, SvGetKeeps, SvPutKeeps, SvDeleteKeeps
  <2>2. CASE \E n \in DOMAIN svIo : SvLand(n) \/ SvFail(n)
    BY <1>3, <2>2, SvLandKeeps, SvFailKeeps
  <2> QED BY <1>2, <2>1, <2>2 DEF SvStoreNext
<1> QED BY <1>1, <1>4

LEMMA SvStoreInvImplies == SvStoreInv => SvStoreAgrees
<1> SUFFICES ASSUME SvStoreInv, NEW i \in SvIds, SvCached(i), i \notin svRaced, \A n \in DOMAIN svIo : svIo[n][2] # i
      PROVE  SvCacheValue(i) = svStored[i]
  BY DEF SvStoreAgrees
<1>1. DOMAIN svCache = 1 .. Len(svCache) /\ DOMAIN svIo = 1 .. Len(svIo)
  BY LenProperties DEF SvStoreInv, SvIsCache
<1> DEFINE e == CHOOSE e \in ToSet(svCache) : e[1] = i
<1>2. e \in ToSet(svCache) /\ e[1] = i
  BY DEF SvCached
<1>3. SvCacheValue(i) = e[2]
  BY DEF SvCacheValue
<1> HIDE DEF e
<1>4. PICK k \in 1 .. Len(svCache) : svCache[k] = e
  BY <1>1, <1>2 DEF ToSet
<1>5. SvSettled(i, e[2], svIo, svStored)
  BY <1>2, <1>4 DEF SvStoreInv
<1> QED BY <1>1, <1>3, <1>5 DEF SvSettled, SvWrites

-----------------------------------------------------------------------------
(* The server: its requests.                                               *)
SvPhases == {"new", "refuse", "route", "load", "run", "save", "answer", "done", "failed"}
SvEnded == {"answer", "done", "failed"}
SvIdsOf(S) == {q.id : q \in S}
SvPassed(c) ==
  {q \in svRequests : q.route = "chat" /\ SvConversation(q) = c /\ SvVerifies(q) /\ svPhase[q] \in SvEnded \cup {"save"}}
SvAnswered(c) ==
  {q \in svRequests : q.route = "chat" /\ SvConversation(q) = c /\ svPhase[q] \in SvEnded /\ svStatus[q] = 200}

(* A history holds turns of its own conversation, of requests that were    *)
(* let in and have run, each once.                                         *)
SvIsHistory(h, requests, passed) == h \in Seq(SvIdsOf(requests)) /\ IsInjective(h) /\ ToSet(h) \subseteq SvIdsOf(passed)

SvTypes ==
  /\ svRequests \in SvWorkloads /\ svModels \subseteq SvModels /\ svOverlapped \subseteq SvConversations
  /\ svPhase \in [svRequests -> SvPhases] /\ svStatus \in [svRequests -> {0, 200, 204, 400, 401, 404, 500}]
  /\ DOMAIN svTold = svRequests /\ DOMAIN svHistory = svRequests /\ DOMAIN svSaved = SvConversations
(* A request is reported when it ends; a refused one also before, if a     *)
(* hook threw at the report of its 401.                                    *)
SvTwice(q, end) == q.throws = "onServerResponse" /\ ~SvVerifies(q) /\ end = 500
SvStory(q, phase, says, end) ==
  /\ phase \in {"done", "failed"} => says = <<end>> \/ (SvTwice(q, end) /\ says = <<401, 500>>)
  /\ phase = "answer" => says = <<>> \/ (SvTwice(q, end) /\ says = <<401>>)
  /\ phase \notin SvEnded => says = <<>>
  /\ phase = "refuse" => ~SvVerifies(q) /\ end = 401
  /\ phase \in {"route", "load", "run", "save"} => SvVerifies(q)
  /\ phase \in {"load", "run", "save"} => q.route = "chat"
SvStories == \A q \in svRequests : SvStory(q, svPhase[q], svTold[q], svStatus[q])
SvHistories ==
  /\ \A c \in SvConversations : SvIsHistory(svSaved[c], svRequests, SvPassed(c))
  /\ \A q \in svRequests : svPhase[q] \in {"run", "save"} => SvIsHistory(svHistory[q], svRequests, SvPassed(SvConversation(q)))

(* Where no two requests were in a conversation at once, what is saved is  *)
(* what was answered, and the one request inside has that, and its turn    *)
(* once it has run.                                                        *)
SvAlone ==
  ~SvAgentLoader => \A c \in SvConversations \ svOverlapped :
    /\ ToSet(svSaved[c]) = SvIdsOf(SvAnswered(c))
    /\ \A p, q \in svRequests :
         /\ svPhase[p] \in {"run", "save"} /\ SvConversation(p) = c /\ svPhase[q] \in {"run", "save"} /\ SvConversation(q) = c
         => p = q
    /\ \A q \in svRequests : SvConversation(q) = c =>
         /\ svPhase[q] = "run" => ToSet(svHistory[q]) = SvIdsOf(SvAnswered(c))
         /\ svPhase[q] = "save" => ToSet(svHistory[q]) = SvIdsOf(SvAnswered(c)) \cup {q.id}

SvRequestInv == SvTypes /\ SvStories /\ SvHistories /\ SvAlone

LEMMA SvIdsDiffer ==
  ASSUME SvTypes
  PROVE  /\ \A p, q \in svRequests : p.id = q.id => p = q
         /\ \A q \in svRequests : SvConversation(q) \in SvConversations
  BY SvAssumption DEF SvTypes, SvConversations

(* What has passed before has passed still, and stays in its history.      *)
LEMMA SvHistoryStays ==
  ASSUME NEW requests, NEW small, NEW large, small \subseteq large
  PROVE  \A h : SvIsHistory(h, requests, small) => SvIsHistory(h, requests, large)
<1>1. SvIdsOf(small) \subseteq SvIdsOf(large)
  BY DEF SvIdsOf
<1> QED BY <1>1 DEF SvIsHistory

(* A request moves and no history with it.                                 *)
LEMMA SvMoves ==
  ASSUME SvRequestInv, NEW q \in svRequests, UNCHANGED <<svRequests, svModels, svHistory, svSaved, svOverlapped>>,
         svPhase' \in [svRequests -> SvPhases], svStatus' \in [svRequests -> {0, 200, 204, 400, 401, 404, 500}],
         \A p \in svRequests : p # q => svPhase'[p] = svPhase[p] /\ svStatus'[p] = svStatus[p],
         SvStories', DOMAIN svTold' = svRequests,
         svPhase'[q] \notin {"run", "save"}, svPhase[q] \in SvEnded \cup {"save"} => svPhase'[q] \in SvEnded,
         q.route = "chat" => (svPhase'[q] \in SvEnded /\ svStatus'[q] = 200 <=> svPhase[q] \in SvEnded /\ svStatus[q] = 200)
  PROVE  SvRequestInv'
<1>1. SvTypes'
  BY DEF SvRequestInv, SvTypes
<1>2. \A c : SvPassed(c) \subseteq SvPassed(c)'
  BY DEF SvPassed, SvEnded
<1>3. \A c : SvAnswered(c)' = SvAnswered(c)
  BY DEF SvAnswered
<1>4. \A h, c : SvIsHistory(h, svRequests, SvPassed(c)) => SvIsHistory(h, svRequests', SvPassed(c)')
  BY <1>2, SvHistoryStays
<1>5. SvHistories'
  <2>1. \A p \in svRequests : svPhase'[p] \in {"run", "save"} => svPhase[p] \in {"run", "save"} OBVIOUS
  <2>2. \A c \in SvConversations : SvIsHistory(svSaved[c], svRequests', SvPassed(c)')
    BY <1>4 DEF SvRequestInv, SvHistories
  <2>3. \A p \in svRequests : svPhase'[p] \in {"run", "save"} => SvIsHistory(svHistory[p], svRequests', SvPassed(SvConversation(p))')
    BY <1>4, <2>1 DEF SvRequestInv, SvHistories
  <2> QED BY <2>2, <2>3 DEF SvHistories
<1>6. SvAlone'
  <2>1. \A p \in svRequests : svPhase'[p] \in {"run", "save"} => svPhase[p] = svPhase'[p] OBVIOUS
  <2> SUFFICES ASSUME ~SvAgentLoader, NEW c \in SvConversations \ svOverlapped
      PROVE  /\ ToSet(svSaved[c]) = SvIdsOf(SvAnswered(c))
             /\ \A p, r \in svRequests :
                  /\ svPhase'[p] \in {"run", "save"} /\ SvConversation(p) = c /\ svPhase'[r] \in {"run", "save"} /\ SvConversation(r) = c
                  => p = r
             /\ \A p \in svRequests : SvConversation(p) = c =>
                  /\ svPhase'[p] = "run" => ToSet(svHistory[p]) = SvIdsOf(SvAnswered(c))
                  /\ svPhase'[p] = "save" => ToSet(svHistory[p]) = SvIdsOf(SvAnswered(c)) \cup {p.id}
    BY <1>3 DEF SvAlone
  <2>2. /\ ToSet(svSaved[c]) = SvIdsOf(SvAnswered(c))
        /\ \A p, r \in svRequests :
             /\ svPhase[p] \in {"run", "save"} /\ SvConversation(p) = c /\ svPhase[r] \in {"run", "save"} /\ SvConversation(r) = c
             => p = r
        /\ \A p \in svRequests : SvConversation(p) = c =>
             /\ svPhase[p] = "run" => ToSet(svHistory[p]) = SvIdsOf(SvAnswered(c))
             /\ svPhase[p] = "save" => ToSet(svHistory[p]) = SvIdsOf(SvAnswered(c)) \cup {p.id}
    BY DEF SvRequestInv, SvAlone
  <2> QED BY <2>1, <2>2
<1> QED BY <1>1, <1>5, <1>6 DEF SvRequestInv

LEMMA SvAnswers ==
  ASSUME SvRequestInv, NEW q \in svRequests, NEW status, status \in {200, 204, 400, 401, 404, 500}, SvAnswer(q, status),
         svPhase[q] \in {"new", "route", "run"}, q.route = "chat" => status # 200,
         UNCHANGED <<svRequests, svModels, svTold, svHistory, svSaved, svOverlapped>>
  PROVE  SvRequestInv'
<1>1. svPhase \in [svRequests -> SvPhases] /\ svStatus \in [svRequests -> {0, 200, 204, 400, 401, 404, 500}]
  BY DEF SvRequestInv, SvTypes
<1>2. /\ svPhase' \in [svRequests -> SvPhases] /\ svStatus' \in [svRequests -> {0, 200, 204, 400, 401, 404, 500}]
      /\ svPhase'[q] = "answer" /\ svStatus'[q] = status
      /\ \A p \in svRequests : p # q => svPhase'[p] = svPhase[p] /\ svStatus'[p] = svStatus[p]
  BY <1>1 DEF SvAnswer, SvPhases
<1>3. SvStories'
  <2>1. \A p \in svRequests : SvStory(p, svPhase[p], svTold[p], svStatus[p])
    BY DEF SvRequestInv, SvStories
  <2>2. svTold[q] = <<>>
    BY <2>1 DEF SvStory, SvEnded
  <2>3. SvStory(q, "answer", <<>>, svStatus'[q])
    BY DEF SvStory, SvEnded
  <2>4. svRequests' = svRequests /\ svTold' = svTold OBVIOUS
  <2>5. \A p \in svRequests : SvStory(p, svPhase'[p], svTold'[p], svStatus'[p])
    BY <1>2, <2>1, <2>2, <2>3, <2>4
  <2> QED BY <2>4, <2>5 DEF SvStories
<1>4. DOMAIN svTold' = svRequests
  BY DEF SvRequestInv, SvTypes
<1> QED BY <1>2, <1>3, <1>4, SvMoves DEF SvEnded

LEMMA SvRefused ==
  ASSUME SvRequestInv, NEW q \in svRequests, svPhase[q] = "new", ~SvVerifies(q),
         svPhase' = [svPhase EXCEPT ![q] = "refuse"], svStatus' = [svStatus EXCEPT ![q] = 401],
         UNCHANGED <<svRequests, svModels, svTold, svHistory, svSaved, svOverlapped>>
  PROVE  SvRequestInv'
<1>1. svPhase \in [svRequests -> SvPhases] /\ svStatus \in [svRequests -> {0, 200, 204, 400, 401, 404, 500}]
  BY DEF SvRequestInv, SvTypes
<1>2. /\ svPhase' \in [svRequests -> SvPhases] /\ svStatus' \in [svRequests -> {0, 200, 204, 400, 401, 404, 500}]
      /\ svPhase'[q] = "refuse" /\ svStatus'[q] = 401
      /\ \A p \in svRequests : p # q => svPhase'[p] = svPhase[p] /\ svStatus'[p] = svStatus[p]
  BY <1>1 DEF SvPhases
<1>3. SvStories'
  <2>1. \A p \in svRequests : SvStory(p, svPhase[p], svTold[p], svStatus[p])
    BY DEF SvRequestInv, SvStories
  <2>2. svTold[q] = <<>>
    BY <2>1 DEF SvStory, SvEnded
  <2>3. SvStory(q, "refuse", <<>>, 401)
    BY DEF SvStory, SvEnded
  <2>4. svRequests' = svRequests /\ svTold' = svTold OBVIOUS
  <2>5. \A p \in svRequests : SvStory(p, svPhase'[p], svTold'[p], svStatus'[p])
    BY <1>2, <2>1, <2>2, <2>3, <2>4
  <2> QED BY <2>4, <2>5 DEF SvStories
<1>4. DOMAIN svTold' = svRequests
  BY DEF SvRequestInv, SvTypes
<1> QED BY <1>2, <1>3, <1>4, SvMoves DEF SvEnded

LEMMA SvGoesOn ==
  ASSUME SvRequestInv, NEW q \in svRequests, NEW x \in {"route", "load"}, svPhase' = [svPhase EXCEPT ![q] = x], UNCHANGED svStatus,
         svPhase[q] \in {"new", "route"}, SvVerifies(q), x = "load" => q.route = "chat",
         UNCHANGED <<svRequests, svModels, svTold, svHistory, svSaved, svOverlapped>>
  PROVE  SvRequestInv'
<1>1. svPhase \in [svRequests -> SvPhases] /\ svStatus \in [svRequests -> {0, 200, 204, 400, 401, 404, 500}]
  BY DEF SvRequestInv, SvTypes
<1>2. /\ svPhase' \in [svRequests -> SvPhases] /\ svStatus' \in [svRequests -> {0, 200, 204, 400, 401, 404, 500}]
      /\ svPhase'[q] = x
      /\ \A p \in svRequests : p # q => svPhase'[p] = svPhase[p] /\ svStatus'[p] = svStatus[p]
  BY <1>1 DEF SvPhases
<1>3. SvStories'
  <2>1. \A p \in svRequests : SvStory(p, svPhase[p], svTold[p], svStatus[p])
    BY DEF SvRequestInv, SvStories
  <2>2. svTold[q] = <<>>
    BY <2>1 DEF SvStory, SvEnded
  <2>3. SvStory(q, x, <<>>, svStatus[q])
    BY DEF SvStory, SvEnded
  <2>4. svRequests' = svRequests /\ svTold' = svTold /\ svStatus' = svStatus OBVIOUS
  <2>5. \A p \in svRequests : SvStory(p, svPhase'[p], svTold'[p], svStatus'[p])
    BY <1>2, <2>1, <2>2, <2>3, <2>4
  <2> QED BY <2>4, <2>5 DEF SvStories
<1>4. DOMAIN svTold' = svRequests
  BY DEF SvRequestInv, SvTypes
<1> QED BY <1>2, <1>3, <1>4, SvMoves DEF SvEnded

LEMMA SvAuthenticateKeeps == ASSUME SvRequestInv, NEW q \in svRequests, SvAuthenticate(q) PROVE SvRequestInv'
<1>1. svPhase[q] = "new" /\ UNCHANGED <<svRequests, svModels, svTold, svHistory, svSaved, svOverlapped>>
  BY DEF SvAuthenticate
<1>2. CASE ~SvVerifies(q) /\ svPhase' = [svPhase EXCEPT ![q] = "refuse"] /\ svStatus' = [svStatus EXCEPT ![q] = 401]
  BY <1>1, <1>2, SvRefused
<1>3. CASE SvAnswer(q, 500)
  BY <1>1, <1>3, SvAnswers
<1>4. CASE SvVerifies(q) /\ svPhase' = [svPhase EXCEPT ![q] = "route"] /\ UNCHANGED svStatus
  BY <1>1, <1>4, SvGoesOn
<1> QED BY <1>2, <1>3, <1>4 DEF SvAuthenticate

LEMMA SvRouteKeeps == ASSUME SvRequestInv, NEW q \in svRequests, SvRoute(q) PROVE SvRequestInv'
<1>1. svPhase[q] = "route" /\ UNCHANGED <<svRequests, svModels, svTold, svHistory, svSaved, svOverlapped>>
  BY DEF SvRoute
<1>2. SvVerifies(q)
  BY <1>1 DEF SvRequestInv, SvStories, SvStory
<1>3. CASE SvAnswer(q, 204)
  BY <1>1, <1>3, SvAnswers
<1>4. CASE SvAnswer(q, 200) /\ q.route # "chat"
  BY <1>1, <1>4, SvAnswers
<1>5. CASE SvAnswer(q, 404)
  BY <1>1, <1>5, SvAnswers
<1>6. CASE SvAnswer(q, 400)
  BY <1>1, <1>6, SvAnswers
<1>7. CASE q.route = "chat" /\ svPhase' = [svPhase EXCEPT ![q] = "load"] /\ UNCHANGED svStatus
  BY <1>1, <1>2, <1>7, SvGoesOn
<1> QED BY <1>3, <1>4, <1>5, <1>6, <1>7 DEF SvRoute

LEMMA SvBothStatuses == Append(<<401>>, 500) = <<401, 500>>
<1>1. ASSUME NEW says \in Seq(Nat), Len(says) = 2, says[1] = 401, says[2] = 500 PROVE says = <<401, 500>>
  BY <1>1
<1>2. <<401>> \in Seq(Nat) OBVIOUS
<1>3. Append(<<401>>, 500) \in Seq(Nat) /\ Len(Append(<<401>>, 500)) = 2
  BY <1>2
<1>4. Append(<<401>>, 500)[1] = 401 /\ Append(<<401>>, 500)[2] = 500
  BY <1>2, AppendProperties
<1> DEFINE says == Append(<<401>>, 500)
<1>5. says \in Seq(Nat) /\ Len(says) = 2 /\ says[1] = 401 /\ says[2] = 500
  BY <1>3, <1>4
<1> HIDE DEF says
<1>6. says = <<401, 500>>
  BY <1>1, <1>5
<1> QED BY <1>6 DEF says

(* A report: of the 401 inside the try, of any other status after it.      *)
LEMMA SvReports ==
  ASSUME SvRequestInv, NEW q \in svRequests, svPhase[q] \in {"refuse", "answer"}, svPhase'[q] \in {"answer", "done", "failed"},
         svPhase' \in [svRequests -> SvPhases], svStatus' \in [svRequests -> {0, 200, 204, 400, 401, 404, 500}],
         DOMAIN svTold' = svRequests,
         \A p \in svRequests : p # q => svPhase'[p] = svPhase[p] /\ svTold'[p] = svTold[p] /\ svStatus'[p] = svStatus[p],
         svStatus'[q] = 200 <=> (svPhase[q] = "answer" /\ svStatus[q] = 200),
         SvStory(q, svPhase'[q], svTold'[q], svStatus'[q]),
         UNCHANGED <<svRequests, svModels, svHistory, svSaved, svOverlapped>>
  PROVE  SvRequestInv'
<1>1. \A p \in svRequests : SvStory(p, svPhase[p], svTold[p], svStatus[p])
  BY DEF SvRequestInv, SvStories
<1>2. SvStories'
  <2>1. \A p \in svRequests : SvStory(p, svPhase'[p], svTold'[p], svStatus'[p])
    BY <1>1
  <2> QED BY <2>1 DEF SvStories
<1>3. svPhase'[q] \notin {"run", "save"} /\ svPhase'[q] \in SvEnded
  BY DEF SvEnded
<1>4. svPhase'[q] \in SvEnded /\ svStatus'[q] = 200 <=> svPhase[q] \in SvEnded /\ svStatus[q] = 200
  BY DEF SvEnded
<1> QED BY <1>2, <1>3, <1>4, SvMoves

LEMMA SvRefuseKeeps == ASSUME SvRequestInv, NEW q \in svRequests, SvRefuse(q) PROVE SvRequestInv'
<1>1. /\ svPhase[q] = "refuse" /\ svTold' = [svTold EXCEPT ![q] = Append(svTold[q], svStatus[q])]
      /\ UNCHANGED <<svRequests, svModels, svHistory, svSaved, svOverlapped>>
  BY DEF SvRefuse
<1>2. /\ svPhase \in [svRequests -> SvPhases] /\ svStatus \in [svRequests -> {0, 200, 204, 400, 401, 404, 500}]
      /\ DOMAIN svTold = svRequests /\ SvStory(q, svPhase[q], svTold[q], svStatus[q])
  BY DEF SvRequestInv, SvTypes, SvStories
<1>3. svTold[q] = <<>> /\ svStatus[q] = 401 /\ ~SvVerifies(q)
  BY <1>1, <1>2 DEF SvStory, SvEnded
<1>4. /\ svTold'[q] = <<401>> /\ DOMAIN svTold' = svRequests
      /\ \A p \in svRequests : p # q => svTold'[p] = svTold[p]
  BY <1>1, <1>2, <1>3
<1>5. ASSUME svPhase' = [svPhase EXCEPT ![q] = "done"] /\ UNCHANGED svStatus PROVE SvRequestInv'
  <2>1. SvStory(q, "done", <<401>>, 401)
    BY DEF SvStory, SvEnded
  <2>2. /\ svPhase' \in [svRequests -> SvPhases] /\ svStatus' \in [svRequests -> {0, 200, 204, 400, 401, 404, 500}]
        /\ svPhase'[q] = "done" /\ svStatus'[q] = 401
        /\ \A p \in svRequests : p # q => svPhase'[p] = svPhase[p] /\ svStatus'[p] = svStatus[p]
    BY <1>2, <1>3, <1>5 DEF SvPhases
  <2>3. SvStory(q, svPhase'[q], svTold'[q], svStatus'[q])
    BY <1>4, <2>1, <2>2
  <2> QED BY <1>1, <1>4, <2>2, <2>3, SvReports
<1>6. ASSUME q.throws = "onServerResponse" /\ SvAnswer(q, 500) PROVE SvRequestInv'
  <2>1. SvStory(q, "answer", <<401>>, 500)
    BY <1>3, <1>6 DEF SvStory, SvEnded, SvTwice
  <2>2. /\ svPhase' \in [svRequests -> SvPhases] /\ svStatus' \in [svRequests -> {0, 200, 204, 400, 401, 404, 500}]
        /\ svPhase'[q] = "answer" /\ svStatus'[q] = 500
        /\ \A p \in svRequests : p # q => svPhase'[p] = svPhase[p] /\ svStatus'[p] = svStatus[p]
    BY <1>2, <1>6 DEF SvAnswer, SvPhases
  <2>3. SvStory(q, svPhase'[q], svTold'[q], svStatus'[q])
    BY <1>4, <2>1, <2>2
  <2> QED BY <1>1, <1>4, <2>2, <2>3, SvReports
<1> QED BY <1>5, <1>6 DEF SvRefuse

LEMMA SvRespondKeeps == ASSUME SvRequestInv, NEW q \in svRequests, SvRespond(q) PROVE SvRequestInv'
<1>1. /\ svPhase[q] = "answer" /\ svTold' = [svTold EXCEPT ![q] = Append(svTold[q], svStatus[q])]
      /\ UNCHANGED <<svRequests, svModels, svStatus, svHistory, svSaved, svOverlapped>>
  BY DEF SvRespond
<1>2. /\ svPhase \in [svRequests -> SvPhases] /\ svStatus \in [svRequests -> {0, 200, 204, 400, 401, 404, 500}]
      /\ DOMAIN svTold = svRequests /\ SvStory(q, svPhase[q], svTold[q], svStatus[q])
  BY DEF SvRequestInv, SvTypes, SvStories
<1>3. PICK x \in {"done", "failed"} : svPhase' = [svPhase EXCEPT ![q] = x]
  BY DEF SvRespond
<1>4. /\ svPhase' \in [svRequests -> SvPhases] /\ svStatus' \in [svRequests -> {0, 200, 204, 400, 401, 404, 500}]
      /\ svPhase'[q] \in {"done", "failed"} /\ svStatus'[q] = svStatus[q]
      /\ svTold'[q] = Append(svTold[q], svStatus[q]) /\ DOMAIN svTold' = svRequests
      /\ \A p \in svRequests : p # q => svPhase'[p] = svPhase[p] /\ svTold'[p] = svTold[p] /\ svStatus'[p] = svStatus[p]
  BY <1>1, <1>2, <1>3 DEF SvPhases
<1>5. svTold[q] = <<>> \/ (SvTwice(q, svStatus[q]) /\ svTold[q] = <<401>>)
  BY <1>1, <1>2 DEF SvStory
<1>6. svTold'[q] = <<svStatus'[q]>> \/ (SvTwice(q, svStatus'[q]) /\ svTold'[q] = <<401, 500>>)
  <2>1. CASE svTold[q] = <<>>
    BY <1>4, <2>1
  <2>2. CASE SvTwice(q, svStatus[q]) /\ svTold[q] = <<401>>
    <3>1. svStatus[q] = 500
      BY <2>2 DEF SvTwice
    <3>2. Append(<<401>>, 500) = <<401, 500>>
      BY SvBothStatuses
    <3>3. svTold'[q] = <<401, 500>>
      BY <1>4, <2>2, <3>1, <3>2
    <3> QED BY <1>4, <2>2, <3>3
  <2> QED BY <1>5, <2>1, <2>2
<1>7. SvStory(q, svPhase'[q], svTold'[q], svStatus'[q])
  <2>1. svPhase'[q] \in SvEnded /\ svPhase'[q] \notin {"answer", "refuse", "route", "load", "run", "save"}
    BY <1>4 DEF SvEnded
  <2> QED BY <1>6, <2>1 DEF SvStory
<1> QED BY <1>1, <1>4, <1>7, SvReports

LEMMA SvStoryKeeps ==
  ASSUME SvRequestInv, NEW q \in svRequests, NEW x, UNCHANGED <<svRequests, svTold>>, svPhase'[q] = x,
         svPhase[q] \in {"load", "run", "save"}, x \in {"run", "save", "answer"},
         \A p \in svRequests : p # q => svPhase'[p] = svPhase[p] /\ svStatus'[p] = svStatus[p]
  PROVE  SvStories' /\ svTold[q] = <<>> /\ SvVerifies(q) /\ q.route = "chat"
<1>1. \A p \in svRequests : SvStory(p, svPhase[p], svTold[p], svStatus[p])
  BY DEF SvRequestInv, SvStories
<1>2. svTold[q] = <<>> /\ SvVerifies(q) /\ q.route = "chat"
  BY <1>1 DEF SvStory, SvEnded
<1>3. SvStory(q, x, <<>>, svStatus'[q])
  BY <1>2 DEF SvStory, SvEnded
<1>4. \A p \in svRequests : SvStory(p, svPhase'[p], svTold'[p], svStatus'[p])
  BY <1>1, <1>2, <1>3
<1> QED BY <1>2, <1>4 DEF SvStories

LEMMA SvLoadKeeps == ASSUME SvRequestInv, NEW q \in svRequests, SvLoad(q) PROVE SvRequestInv'
<1> DEFINE c == SvConversation(q)
           met == {SvConversation(p) : p \in {p \in svRequests : SvInside(p, q)}}
<1>1. /\ svPhase[q] = "load" /\ svPhase' = [svPhase EXCEPT ![q] = "run"] /\ svHistory' = [svHistory EXCEPT ![q] = svSaved[c]]
      /\ svOverlapped' = svOverlapped \cup met /\ UNCHANGED <<svRequests, svModels, svStatus, svTold, svSaved>>
  BY DEF SvLoad, SvLoaded
<1>2. /\ svPhase \in [svRequests -> SvPhases] /\ DOMAIN svHistory = svRequests /\ c \in SvConversations
  BY SvIdsDiffer DEF SvRequestInv, SvTypes
<1>3. /\ svPhase' \in [svRequests -> SvPhases] /\ svPhase'[q] = "run" /\ DOMAIN svHistory' = svRequests /\ svHistory'[q] = svSaved[c]
      /\ \A p \in svRequests : p # q => svPhase'[p] = svPhase[p] /\ svStatus'[p] = svStatus[p] /\ svHistory'[p] = svHistory[p]
  BY <1>1, <1>2 DEF SvPhases
<1>4. met \subseteq {c} /\ \A p \in svRequests : SvInside(p, q) => c \in met
  BY DEF SvInside
<1> HIDE DEF met
<1>5. SvTypes'
  BY <1>1, <1>2, <1>3, <1>4 DEF SvRequestInv, SvTypes
<1>6. SvStories'
  BY <1>1, <1>3, SvStoryKeeps
<1>7. \A d : SvPassed(d) \subseteq SvPassed(d)'
  BY <1>1, <1>3 DEF SvPassed, SvEnded
<1>8. \A d : SvAnswered(d)' = SvAnswered(d)
  BY <1>1, <1>3 DEF SvAnswered, SvEnded
<1>9. \A h, d : SvIsHistory(h, svRequests, SvPassed(d)) => SvIsHistory(h, svRequests', SvPassed(d)')
  BY <1>1, <1>7, SvHistoryStays
<1>10. SvHistories'
  <2>1. \A d \in SvConversations : SvIsHistory(svSaved'[d], svRequests', SvPassed(d)')
    BY <1>1, <1>9 DEF SvRequestInv, SvHistories
  <2>2. ASSUME NEW p \in svRequests, svPhase'[p] \in {"run", "save"} PROVE SvIsHistory(svHistory'[p], svRequests', SvPassed(SvConversation(p))')
    <3>1. CASE p = q
      BY <1>1, <1>2, <1>3, <2>1, <3>1
    <3>2. CASE p # q
      BY <1>3, <1>9, <2>2, <3>2 DEF SvRequestInv, SvHistories
    <3> QED BY <3>1, <3>2
  <2> QED BY <1>1, <2>1, <2>2 DEF SvHistories
<1>11. SvAlone'
  <2> SUFFICES ASSUME ~SvAgentLoader, NEW d \in SvConversations \ svOverlapped'
      PROVE  /\ ToSet(svSaved[d]) = SvIdsOf(SvAnswered(d))
             /\ \A p, r \in svRequests :
                  /\ svPhase'[p] \in {"run", "save"} /\ SvConversation(p) = d /\ svPhase'[r] \in {"run", "save"} /\ SvConversation(r) = d
                  => p = r
             /\ \A p \in svRequests : SvConversation(p) = d =>
                  /\ svPhase'[p] = "run" => ToSet(svHistory'[p]) = SvIdsOf(SvAnswered(d))
                  /\ svPhase'[p] = "save" => ToSet(svHistory'[p]) = SvIdsOf(SvAnswered(d)) \cup {p.id}
    BY <1>1, <1>8 DEF SvAlone
  <2>1. /\ ToSet(svSaved[d]) = SvIdsOf(SvAnswered(d))
        /\ \A p, r \in svRequests :
             /\ svPhase[p] \in {"run", "save"} /\ SvConversation(p) = d /\ svPhase[r] \in {"run", "save"} /\ SvConversation(r) = d
             => p = r
        /\ \A p \in svRequests : SvConversation(p) = d =>
             /\ svPhase[p] = "run" => ToSet(svHistory[p]) = SvIdsOf(SvAnswered(d))
             /\ svPhase[p] = "save" => ToSet(svHistory[p]) = SvIdsOf(SvAnswered(d)) \cup {p.id}
    BY <1>1 DEF SvRequestInv, SvAlone
  <2>2. c = d => \A p \in svRequests : p # q /\ SvConversation(p) = d => svPhase[p] \notin {"run", "save"}
    BY <1>1, <1>4 DEF SvInside
  <2>3. ASSUME NEW p \in svRequests, NEW r \in svRequests,
               svPhase'[p] \in {"run", "save"}, SvConversation(p) = d, svPhase'[r] \in {"run", "save"}, SvConversation(r) = d
        PROVE  p = r
    BY <1>3, <2>1, <2>2, <2>3
  <2>4. ASSUME NEW p \in svRequests, SvConversation(p) = d
        PROVE  /\ svPhase'[p] = "run" => ToSet(svHistory'[p]) = SvIdsOf(SvAnswered(d))
               /\ svPhase'[p] = "save" => ToSet(svHistory'[p]) = SvIdsOf(SvAnswered(d)) \cup {p.id}
    <3>1. CASE p = q
      BY <1>3, <2>1, <2>4, <3>1
    <3>2. CASE p # q
      BY <1>3, <2>1, <2>4, <3>2
    <3> QED BY <3>1, <3>2
  <2> QED BY <2>1, <2>3, <2>4
<1> QED BY <1>5, <1>6, <1>10, <1>11 DEF SvRequestInv

LEMMA SvTurnIs ==
  ASSUME SvRequestInv, NEW q \in svRequests, svPhase[q] = "run", NEW h, h = SvTurn(q)
  PROVE  /\ h \in Seq(SvIdsOf(svRequests)) /\ IsInjective(h)
         /\ ~SvAgentLoader => ToSet(h) = ToSet(svHistory[q]) \cup {q.id}
         /\ ToSet(h) \subseteq ToSet(svHistory[q]) \cup {q.id}
<1> DEFINE old == svHistory[q]
<1>1. SvIsHistory(old, svRequests, SvPassed(SvConversation(q)))
  BY DEF SvRequestInv, SvHistories
<1>2. old \in Seq(SvIdsOf(svRequests)) /\ q.id \in SvIdsOf(svRequests) /\ IsInjective(old)
  BY <1>1 DEF SvIsHistory, SvIdsOf
<1>3. q.id \notin ToSet(old)
  <2> SUFFICES ASSUME q.id \in ToSet(old) PROVE FALSE OBVIOUS
  <2>1. PICK p \in SvPassed(SvConversation(q)) : p.id = q.id
    BY <1>1 DEF SvIsHistory, SvIdsOf
  <2>2. p = q
    BY <2>1, SvIdsDiffer DEF SvRequestInv, SvPassed
  <2> QED BY <2>1, <2>2 DEF SvPassed, SvEnded
<1> HIDE DEF old
<1>4. CASE SvAgentLoader
  BY <1>2, <1>4 DEF SvTurn, old
<1>5. CASE ~SvAgentLoader
  <2>1. h = Append(old, q.id)
    BY <1>5 DEF SvTurn, old
  <2>2. /\ h \in Seq(SvIdsOf(svRequests)) /\ Len(h) = Len(old) + 1 /\ h[Len(old) + 1] = q.id /\ \A i \in 1 .. Len(old) : h[i] = old[i]
    BY <1>2, <2>1, AppendProperties
  <2>3. DOMAIN h = 1 .. Len(old) + 1 /\ DOMAIN old = 1 .. Len(old) /\ Len(old) \in Nat
    BY <1>2, <2>2, LenProperties
  <2>4. \A i \in 1 .. Len(old) + 1 : i \in 1 .. Len(old) \/ i = Len(old) + 1
    BY <2>3
  <2>5. \A i \in 1 .. Len(old) : i \in 1 .. Len(old) + 1
    BY <2>3
  <2>6. Len(old) + 1 \in 1 .. Len(old) + 1
    BY <2>3
  <2>7. ToSet(h) = ToSet(old) \cup {q.id}
    BY <2>2, <2>3, <2>4, <2>5, <2>6 DEF ToSet
  <2>8. \A i \in 1 .. Len(old) : old[i] # q.id
    BY <1>3, <2>3 DEF ToSet
  <2>9. IsInjective(h)
    <3> SUFFICES ASSUME NEW i \in 1 .. Len(old) + 1, NEW j \in 1 .. Len(old) + 1, h[i] = h[j] PROVE i = j
      BY <2>3 DEF IsInjective
    <3>1. CASE i \in 1 .. Len(old) /\ j \in 1 .. Len(old)
      BY <1>2, <2>2, <2>3, <3>1 DEF IsInjective
    <3>2. CASE i = Len(old) + 1 \/ j = Len(old) + 1
      BY <2>2, <2>4, <2>8, <3>2
    <3> QED BY <2>4, <3>1, <3>2
  <2> QED BY <1>5, <2>2, <2>7, <2>9 DEF old
<1> QED BY <1>4, <1>5

LEMMA SvDispatchKeeps == ASSUME SvRequestInv, NEW q \in svRequests, SvDispatch(q) PROVE SvRequestInv'
<1> DEFINE c == SvConversation(q)
           h == SvTurn(q)
<1>1. svPhase[q] = "run" /\ UNCHANGED <<svRequests, svModels, svTold, svOverlapped, svSaved>>
  BY DEF SvDispatch
<1>2. CASE SvAnswer(q, 400) /\ UNCHANGED svHistory
  BY <1>1, <1>2, SvAnswers
<1>3. CASE svHistory' = [svHistory EXCEPT ![q] = h] /\ svPhase' = [svPhase EXCEPT ![q] = "save"] /\ UNCHANGED svStatus
  <2>1. /\ h \in Seq(SvIdsOf(svRequests)) /\ IsInjective(h)
        /\ ~SvAgentLoader => ToSet(h) = ToSet(svHistory[q]) \cup {q.id}
        /\ ToSet(h) \subseteq ToSet(svHistory[q]) \cup {q.id}
    BY <1>1, SvTurnIs
  <2> HIDE DEF h
  <2>2. /\ svPhase \in [svRequests -> SvPhases] /\ DOMAIN svHistory = svRequests /\ c \in SvConversations
    BY SvIdsDiffer DEF SvRequestInv, SvTypes
  <2>3. /\ svPhase' \in [svRequests -> SvPhases] /\ svPhase'[q] = "save" /\ DOMAIN svHistory' = svRequests /\ svHistory'[q] = h
        /\ \A p \in svRequests : p # q => svPhase'[p] = svPhase[p] /\ svStatus'[p] = svStatus[p] /\ svHistory'[p] = svHistory[p]
    BY <1>3, <2>2 DEF SvPhases
  <2>4. SvTypes'
    BY <1>1, <1>3, <2>2, <2>3 DEF SvRequestInv, SvTypes
  <2>5. SvStories' /\ SvVerifies(q) /\ q.route = "chat"
    BY <1>1, <2>3, SvStoryKeeps
  <2>6. \A d : SvPassed(d) \subseteq SvPassed(d)'
    BY <1>1, <2>3 DEF SvPassed, SvEnded
  <2>7. q \in SvPassed(c)'
    BY <1>1, <2>3, <2>5 DEF SvPassed
  <2>8. \A d : SvAnswered(d)' = SvAnswered(d)
    BY <1>1, <2>3 DEF SvAnswered, SvEnded
  <2>9. \A g, d : SvIsHistory(g, svRequests, SvPassed(d)) => SvIsHistory(g, svRequests', SvPassed(d)')
    BY <1>1, <2>6, SvHistoryStays
  <2>10. SvIsHistory(h, svRequests', SvPassed(c)')
    <3>1. SvIsHistory(svHistory[q], svRequests, SvPassed(c))
      BY <1>1 DEF SvRequestInv, SvHistories
    <3>2. ToSet(svHistory[q]) \subseteq SvIdsOf(SvPassed(c))
      BY <3>1 DEF SvIsHistory
    <3>3. ToSet(h) \subseteq SvIdsOf(SvPassed(c)')
      BY <2>1, <2>6, <2>7, <3>2 DEF SvIdsOf
    <3> QED BY <1>1, <1>3, <2>1, <3>3 DEF SvIsHistory, h, SvIdsOf
  <2>11. SvHistories'
    <3>1. \A d \in SvConversations : SvIsHistory(svSaved'[d], svRequests', SvPassed(d)')
      BY <1>1, <2>9 DEF SvRequestInv, SvHistories
    <3>2. ASSUME NEW p \in svRequests, svPhase'[p] \in {"run", "save"} PROVE SvIsHistory(svHistory'[p], svRequests', SvPassed(SvConversation(p))')
      <4>1. CASE p = q
        BY <2>3, <2>10, <4>1 DEF h
      <4>2. CASE p # q
        BY <2>3, <2>9, <3>2, <4>2 DEF SvRequestInv, SvHistories
      <4> QED BY <4>1, <4>2
    <3> QED BY <1>1, <3>1, <3>2 DEF SvHistories
  <2>12. SvAlone'
    <3> SUFFICES ASSUME ~SvAgentLoader, NEW d \in SvConversations \ svOverlapped
        PROVE  /\ ToSet(svSaved[d]) = SvIdsOf(SvAnswered(d))
               /\ \A p, r \in svRequests :
                    /\ svPhase'[p] \in {"run", "save"} /\ SvConversation(p) = d /\ svPhase'[r] \in {"run", "save"} /\ SvConversation(r) = d
                    => p = r
               /\ \A p \in svRequests : SvConversation(p) = d =>
                    /\ svPhase'[p] = "run" => ToSet(svHistory'[p]) = SvIdsOf(SvAnswered(d))
                    /\ svPhase'[p] = "save" => ToSet(svHistory'[p]) = SvIdsOf(SvAnswered(d)) \cup {p.id}
      BY <1>1, <2>8 DEF SvAlone
    <3>1. /\ ToSet(svSaved[d]) = SvIdsOf(SvAnswered(d))
          /\ \A p, r \in svRequests :
               /\ svPhase[p] \in {"run", "save"} /\ SvConversation(p) = d /\ svPhase[r] \in {"run", "save"} /\ SvConversation(r) = d
               => p = r
          /\ \A p \in svRequests : SvConversation(p) = d =>
               /\ svPhase[p] = "run" => ToSet(svHistory[p]) = SvIdsOf(SvAnswered(d))
               /\ svPhase[p] = "save" => ToSet(svHistory[p]) = SvIdsOf(SvAnswered(d)) \cup {p.id}
      BY DEF SvRequestInv, SvAlone
    <3>2. \A p \in svRequests : svPhase'[p] \in {"run", "save"} => svPhase[p] \in {"run", "save"}
      BY <1>1, <2>3
    <3>3. ASSUME NEW p \in svRequests, SvConversation(p) = d
          PROVE  /\ svPhase'[p] = "run" => ToSet(svHistory'[p]) = SvIdsOf(SvAnswered(d))
                 /\ svPhase'[p] = "save" => ToSet(svHistory'[p]) = SvIdsOf(SvAnswered(d)) \cup {p.id}
      <4>1. CASE p = q
        BY <1>1, <2>1, <2>3, <3>1, <3>3, <4>1
      <4>2. CASE p # q
        BY <2>3, <3>1, <3>3, <4>2
      <4> QED BY <4>1, <4>2
    <3> QED BY <3>1, <3>2, <3>3
  <2> QED BY <2>4, <2>5, <2>11, <2>12 DEF SvRequestInv
<1> QED BY <1>2, <1>3 DEF SvDispatch

LEMMA SvSaveKeeps == ASSUME SvRequestInv, NEW q \in svRequests, SvSave(q) PROVE SvRequestInv'
<1> DEFINE c == SvConversation(q)
<1>1. /\ svPhase[q] = "save" /\ svSaved' = [svSaved EXCEPT ![c] = svHistory[q]]
      /\ svPhase' = [svPhase EXCEPT ![q] = "answer"] /\ svStatus' = [svStatus EXCEPT ![q] = 200]
      /\ UNCHANGED <<svRequests, svModels, svTold, svHistory, svOverlapped>>
  BY DEF SvSave, SvAnswer
<1>2. /\ svPhase \in [svRequests -> SvPhases] /\ svStatus \in [svRequests -> {0, 200, 204, 400, 401, 404, 500}]
      /\ DOMAIN svSaved = SvConversations /\ c \in SvConversations
  BY SvIdsDiffer DEF SvRequestInv, SvTypes
<1>3. /\ svPhase' \in [svRequests -> SvPhases] /\ svPhase'[q] = "answer" /\ svStatus'[q] = 200
      /\ svStatus' \in [svRequests -> {0, 200, 204, 400, 401, 404, 500}]
      /\ \A p \in svRequests : p # q => svPhase'[p] = svPhase[p] /\ svStatus'[p] = svStatus[p]
  BY <1>1, <1>2 DEF SvPhases
<1>4. DOMAIN svSaved' = SvConversations /\ svSaved'[c] = svHistory[q] /\ \A d \in SvConversations : d # c => svSaved'[d] = svSaved[d]
  BY <1>1, <1>2
<1>5. SvTypes'
  BY <1>1, <1>2, <1>3, <1>4 DEF SvRequestInv, SvTypes
<1>6. SvStories' /\ SvVerifies(q) /\ q.route = "chat"
  BY <1>1, <1>3, SvStoryKeeps
<1>7. \A d : SvPassed(d) \subseteq SvPassed(d)'
  BY <1>1, <1>3 DEF SvPassed, SvEnded
<1>8. \A d : SvAnswered(d)' = IF d = c THEN SvAnswered(d) \cup {q} ELSE SvAnswered(d)
  BY <1>1, <1>3, <1>6 DEF SvAnswered, SvEnded
<1>9. \A g, d : SvIsHistory(g, svRequests, SvPassed(d)) => SvIsHistory(g, svRequests', SvPassed(d)')
  BY <1>1, <1>7, SvHistoryStays
<1>10. SvHistories'
  <2>1. ASSUME NEW d \in SvConversations PROVE SvIsHistory(svSaved'[d], svRequests', SvPassed(d)')
    <3>1. CASE d = c
      <4>1. SvIsHistory(svHistory[q], svRequests, SvPassed(c))
        BY <1>1 DEF SvRequestInv, SvHistories
      <4> QED BY <1>1, <1>4, <1>9, <3>1, <4>1
    <3>2. CASE d # c
      BY <1>4, <1>9, <3>2 DEF SvRequestInv, SvHistories
    <3> QED BY <3>1, <3>2
  <2>2. ASSUME NEW p \in svRequests, svPhase'[p] \in {"run", "save"} PROVE SvIsHistory(svHistory'[p], svRequests', SvPassed(SvConversation(p))')
    <3>1. svPhase[p] \in {"run", "save"}
      BY <1>3, <2>2
    <3> QED BY <1>1, <1>9, <3>1 DEF SvRequestInv, SvHistories
  <2> QED BY <1>1, <2>1, <2>2 DEF SvHistories
<1>11. SvAlone'
  <2> SUFFICES ASSUME ~SvAgentLoader, NEW d \in SvConversations \ svOverlapped
      PROVE  /\ ToSet(svSaved'[d]) = SvIdsOf(SvAnswered(d)')
             /\ \A p, r \in svRequests :
                  /\ svPhase'[p] \in {"run", "save"} /\ SvConversation(p) = d /\ svPhase'[r] \in {"run", "save"} /\ SvConversation(r) = d
                  => p = r
             /\ \A p \in svRequests : SvConversation(p) = d =>
                  /\ svPhase'[p] = "run" => ToSet(svHistory[p]) = SvIdsOf(SvAnswered(d)')
                  /\ svPhase'[p] = "save" => ToSet(svHistory[p]) = SvIdsOf(SvAnswered(d)') \cup {p.id}
    BY <1>1 DEF SvAlone, SvIdsOf
  <2>1. /\ ToSet(svSaved[d]) = SvIdsOf(SvAnswered(d))
        /\ \A p, r \in svRequests :
             /\ svPhase[p] \in {"run", "save"} /\ SvConversation(p) = d /\ svPhase[r] \in {"run", "save"} /\ SvConversation(r) = d
             => p = r
        /\ \A p \in svRequests : SvConversation(p) = d =>
             /\ svPhase[p] = "run" => ToSet(svHistory[p]) = SvIdsOf(SvAnswered(d))
             /\ svPhase[p] = "save" => ToSet(svHistory[p]) = SvIdsOf(SvAnswered(d)) \cup {p.id}
    BY DEF SvRequestInv, SvAlone
  <2>2. \A p \in svRequests : svPhase'[p] \in {"run", "save"} => p # q /\ svPhase'[p] = svPhase[p]
    BY <1>3
  <2>3. CASE d = c
    <3>1. SvIdsOf(SvAnswered(d)') = SvIdsOf(SvAnswered(d)) \cup {q.id}
      BY <1>8, <2>3 DEF SvIdsOf
    <3>2. ToSet(svSaved'[d]) = SvIdsOf(SvAnswered(d)')
      BY <1>1, <1>4, <2>1, <2>3, <3>1
    <3>3. \A p \in svRequests : SvConversation(p) = d => svPhase'[p] \notin {"run", "save"}
      BY <1>1, <2>1, <2>2, <2>3
    <3> QED BY <3>2, <3>3
  <2>4. CASE d # c
    <3>1. SvAnswered(d)' = SvAnswered(d) /\ svSaved'[d] = svSaved[d]
      BY <1>4, <1>8, <2>4
    <3> QED BY <2>1, <2>2, <3>1
  <2> QED BY <2>3, <2>4
<1> QED BY <1>5, <1>6, <1>10, <1>11 DEF SvRequestInv

LEMMA SvRequestInvInit == SvInit => SvRequestInv
<1> SUFFICES ASSUME SvInit PROVE SvRequestInv OBVIOUS
<1>1. SvTypes
  BY DEF SvInit, SvTypes, SvPhases
<1>2. SvStories
  BY DEF SvInit, SvStories, SvStory, SvEnded
<1>3. \A q \in svRequests : svPhase[q] = "new"
  BY DEF SvInit
<1>4. \A c \in SvConversations : svSaved[c] = <<>>
  BY DEF SvInit
<1>5. ToSet(<<>>) = {} /\ IsInjective(<<>>) /\ <<>> \in Seq(SvIdsOf(svRequests))
  BY DEF ToSet, IsInjective
<1>6. SvHistories
  BY <1>3, <1>4, <1>5 DEF SvHistories, SvIsHistory
<1>7. \A c : SvIdsOf(SvAnswered(c)) = {}
  BY <1>3 DEF SvAnswered, SvEnded, SvIdsOf
<1>8. SvAlone
  BY <1>3, <1>4, <1>5, <1>7 DEF SvAlone
<1> QED BY <1>1, <1>2, <1>6, <1>8 DEF SvRequestInv

LEMMA SvRequestStutters == SvRequestInv /\ UNCHANGED svRequestVars => SvRequestInv'
<1> SUFFICES ASSUME SvRequestInv, UNCHANGED svRequestVars PROVE SvRequestInv' OBVIOUS
<1>1. UNCHANGED <<svRequests, svModels, svPhase, svStatus, svTold, svHistory, svSaved, svOverlapped>>
  BY DEF svRequestVars
<1>2. SvTypes' /\ SvStories'
  BY <1>1 DEF SvRequestInv, SvTypes, SvStories
<1>3. \A c : SvPassed(c)' = SvPassed(c) /\ SvAnswered(c)' = SvAnswered(c)
  BY <1>1 DEF SvPassed, SvAnswered
<1>4. SvHistories'
  BY <1>1, <1>3 DEF SvRequestInv, SvHistories
<1>5. SvAlone'
  BY <1>1, <1>3 DEF SvRequestInv, SvAlone
<1> QED BY <1>2, <1>4, <1>5 DEF SvRequestInv

LEMMA SvModelsChange ==
  ASSUME SvRequestInv, NEW m \in SvModels, SvRegister(m) \/ SvUnregister(m)
  PROVE  SvRequestInv'
<1>1. UNCHANGED <<svRequests, svPhase, svStatus, svTold, svHistory, svSaved, svOverlapped>> /\ svModels' \subseteq SvModels
  BY DEF SvRegister, SvUnregister, SvRequestInv, SvTypes
<1>2. SvTypes' /\ SvStories'
  BY <1>1 DEF SvRequestInv, SvTypes, SvStories
<1>3. \A c : SvPassed(c)' = SvPassed(c) /\ SvAnswered(c)' = SvAnswered(c)
  BY <1>1 DEF SvPassed, SvAnswered
<1>4. SvHistories'
  BY <1>1, <1>3 DEF SvRequestInv, SvHistories
<1>5. SvAlone'
  BY <1>1, <1>3 DEF SvRequestInv, SvAlone
<1> QED BY <1>2, <1>4, <1>5 DEF SvRequestInv

LEMMA SvRequestInvNext == SvRequestInv /\ [SvRequestNext]_svRequestVars => SvRequestInv'
  BY SvRequestStutters, SvModelsChange, SvAuthenticateKeeps, SvRefuseKeeps, SvRouteKeeps, SvLoadKeeps, SvDispatchKeeps, SvSaveKeeps, SvRespondKeeps
     DEF SvRequestNext

LEMMA SvInvImplies == SvRequestInv /\ SvStoreInv => SvTypeOK /\ SvFaithful
<1> SUFFICES ASSUME SvRequestInv, SvStoreInv PROVE SvTypeOK /\ SvFaithful OBVIOUS
<1>1. SvTypeOK
  BY DEF SvTypeOK, SvRequestInv, SvTypes, SvPhases, SvStoreInv
<1>2. SvTurnsKept
  <2> SUFFICES ASSUME NEW c \in SvConversations
      PROVE  LET chats == {q \in svRequests : q.route = "chat" /\ SvConversation(q) = c}
                 answered == {q \in chats : svPhase[q] \in {"answer", "done", "failed"} /\ svStatus[q] = 200}
             IN /\ IsInjective(svSaved[c])
                /\ ToSet(svSaved[c]) \subseteq {q.id : q \in chats}
                /\ c \notin svOverlapped /\ ~SvAgentLoader => ToSet(svSaved[c]) = {q.id : q \in answered}
    BY DEF SvTurnsKept
  <2> DEFINE chats == {q \in svRequests : q.route = "chat" /\ SvConversation(q) = c}
             answered == {q \in chats : svPhase[q] \in {"answer", "done", "failed"} /\ svStatus[q] = 200}
  <2>1. IsInjective(svSaved[c]) /\ ToSet(svSaved[c]) \subseteq SvIdsOf(SvPassed(c))
    BY DEF SvRequestInv, SvHistories, SvIsHistory
  <2>2. SvPassed(c) \subseteq chats
    BY DEF SvPassed
  <2>3. SvAnswered(c) = answered
    BY DEF SvAnswered, SvEnded
  <2>4. c \notin svOverlapped /\ ~SvAgentLoader => ToSet(svSaved[c]) = SvIdsOf(SvAnswered(c))
    BY DEF SvRequestInv, SvAlone
  <2>5. SvIdsOf(SvPassed(c)) \subseteq {q.id : q \in chats}
    BY <2>2 DEF SvIdsOf
  <2>6. SvIdsOf(SvAnswered(c)) = {q.id : q \in answered}
    BY <2>3 DEF SvIdsOf
  <2> HIDE DEF chats, answered
  <2>7. ToSet(svSaved[c]) \subseteq {q.id : q \in chats}
    BY <2>1, <2>5
  <2>8. c \notin svOverlapped /\ ~SvAgentLoader => ToSet(svSaved[c]) = {q.id : q \in answered}
    BY <2>4, <2>6
  <2> QED BY <2>1, <2>7, <2>8 DEF chats, answered
<1>3. SvReportsAgree
  <2> SUFFICES ASSUME NEW q \in svRequests
               PROVE  /\ svPhase[q] \in {"done", "failed"} =>
                           svTold[q] = <<svStatus[q]>> \/ (SvToldTwice(q) /\ svTold[q] = <<401, 500>>)
                      /\ \A c \in SvConversations : q.id \in ToSet(svSaved[c]) => SvVerifies(q)
    BY DEF SvReportsAgree
  <2>1. svPhase[q] \in {"done", "failed"} => svTold[q] = <<svStatus[q]>> \/ (SvToldTwice(q) /\ svTold[q] = <<401, 500>>)
    BY DEF SvRequestInv, SvStories, SvStory, SvTwice, SvToldTwice
  <2>2. ASSUME NEW c \in SvConversations, q.id \in ToSet(svSaved[c]) PROVE SvVerifies(q)
    <3>1. PICK p \in SvPassed(c) : p.id = q.id
      BY <2>2 DEF SvRequestInv, SvHistories, SvIsHistory, SvIdsOf
    <3>2. p \in svRequests /\ SvVerifies(p)
      BY DEF SvPassed
    <3>3. p = q
      BY <3>1, <3>2, SvIdsDiffer DEF SvRequestInv
    <3> QED BY <3>2, <3>3
  <2> QED BY <2>1, <2>2
<1>4. SvStoreAgrees
  BY SvStoreInvImplies
<1> QED BY <1>1, <1>2, <1>3, <1>4 DEF SvFaithful

(* ServerFaithful, for any requests at once, models and keys, and any      *)
(* response store: a conversation keeps the turns that were answered, each *)
(* once, where no two requests were in it at once; no turn of another or   *)
(* of a request that was refused; each request is reported with its        *)
(* status, once but for a refused one at whose report a hook threw; and    *)
(* the cache has what the persistence has, where no operations overlapped  *)
(* and no write failed (server.ts, response-store.ts).                     *)
THEOREM ServerStaysFaithful == PluginsSpec => []ServerFaithful
<1> DEFINE Inv == turn \in {"server", "responses"} => SvRequestInv /\ SvStoreInv
<1>1. PluginsInit => Inv
  BY SvRequestInvInit, SvStoreInvInit DEF PluginsInit
<1>2. Inv /\ [PluginsNext]_PluginsVars => Inv'
  <2> SUFFICES ASSUME Inv, [PluginsNext]_PluginsVars, turn' \in {"server", "responses"} PROVE SvRequestInv' /\ SvStoreInv'
    OBVIOUS
  <2>1. turn' = turn
    BY DEF PluginsNext, PluginsVars
  <2>2. SvRequestInv /\ SvStoreInv
    BY <2>1
  <2>3. \/ (turn = "server" /\ SvRequestNext /\ UNCHANGED svStoreVars)
        \/ (turn = "responses" /\ SvStoreNext /\ UNCHANGED svRequestVars)
        \/ UNCHANGED svVars
    BY <2>1 DEF PluginsNext, PluginsVars, serviceVars
  <2>4. [SvRequestNext]_svRequestVars /\ [SvStoreNext]_svStoreVars
    BY <2>3 DEF svVars
  <2> QED BY <2>2, <2>4, SvRequestInvNext, SvStoreInvNext
<1>3. Inv => ServerFaithful
  BY SvInvImplies DEF ServerFaithful
<1> QED BY <1>1, <1>2, <1>3, PTL DEF PluginsSpec
-----------------------------------------------------------------------------
(* Tools and the agent bus.                                                *)

ToPhases == {"idle", "starting", "check", "run", "ending", "returned", "threw"}
ToIds == {c.id : c \in ToCalls}
(* The events a call emits at the top, and those that handlers emit.       *)
AbTops ==
  {AbEvent("started", i, "check") : i \in ToIds} \cup {AbEvent("completed", i, "returned") : i \in ToIds}
  \cup {AbEvent("failed", i, "threw") : i \in ToIds}
AbNested == [kind : {"error", "other"}, of : ToIds \cup {0}, end : {"none"}]
AbListeners == ToSet(AbOrder)
AbFrames == [event : AbTops \cup AbNested, left : Seq(AbListeners)]

(* What a call has done, told by its phase.                                *)
ToHasRun(c) == \E r \in toRan : r.id = c.id
ToCallIs(c) ==
  /\ toPhase[c] \in {"run", "returned"} => ToHasRun(c)
  /\ \A x \in toTouched : x[1] = c => toPhase[c] \notin {"idle", "starting", "check"} /\ PpCheck(toContext[c], c.agent, x[2])

ToPlaces ==
  /\ ToTypeOK /\ toPhase \in [ToCalls -> ToPhases] /\ DOMAIN toContext = ToCalls
  /\ \A x \in toTouched : x[1] \in ToCalls
  /\ \A r \in toRan : r.visible
  /\ \A c \in ToCalls : ToCallIs(c)

(* The event that is being delivered, and those that wait.                 *)
AbDelivers(e) == abStack["drain"] # <<>> /\ abStack["drain"][1].event = e
(* An event that is open belongs to the phase of its call.                 *)
AbIsOpen(e) ==
  \A c \in ToCalls : c.id = e.of =>
    /\ toPhase[c] = IF e.kind = "started" THEN "starting" ELSE "ending"
    /\ e.kind = "completed" => ToHasRun(c)
(* One that was delivered: its call went on.                               *)
AbIsPast(e) ==
  \A c \in ToCalls : c.id = e.of =>
    /\ toPhase[c] \notin {"idle", "starting"}
    /\ e.kind # "started" => toPhase[c] \in {"returned", "threw"}

AbPlaces ==
  /\ abQueue \in Seq(AbTops) /\ abStack \in [{"drain", "detached"} -> Seq(AbFrames)]
  /\ abHeard \in [AbListeners -> Seq(AbTops \cup AbNested)]
  /\ \A i \in DOMAIN abStack["drain"] : abStack["drain"][i].event \in IF i = 1 THEN AbTops ELSE AbNested
  /\ \A i \in DOMAIN abStack["detached"] : abStack["detached"][i].event \in AbNested
  /\ \A t \in {"drain", "detached"} : \A i \in DOMAIN abStack[t] : IsInjective(abStack[t][i].left)

(* A call has one event open at a time.                                    *)
AbOneOpen ==
  /\ \A i \in DOMAIN abQueue : AbIsOpen(abQueue[i])
  /\ \A i, j \in DOMAIN abQueue : abQueue[i].of = abQueue[j].of => i = j
  /\ abStack["drain"] # <<>> =>
       /\ AbIsOpen(abStack["drain"][1].event)
       /\ \A i \in DOMAIN abQueue : abQueue[i].of # abStack["drain"][1].event.of

(* Who has heard what: events delivered before, and the one that is, which *)
(* is the last for whoever heard it, and new to those who did not yet.     *)
AbHeardSoFar ==
  /\ \A s \in AbListeners : \A i \in DOMAIN abHeard[s] :
       abHeard[s][i].end # "none" => AbIsPast(abHeard[s][i]) \/ AbDelivers(abHeard[s][i])
  /\ abStack["drain"] # <<>> =>
       LET d == abStack["drain"][1] IN
         /\ \A m \in DOMAIN d.left : \A i \in DOMAIN abHeard[d.left[m]] : abHeard[d.left[m]][i] # d.event
         /\ \A s \in AbListeners : \A i, j \in DOMAIN abHeard[s] :
              i < j /\ abHeard[s][i] = d.event => abHeard[s][j].end = "none"

ToInv == ToPlaces /\ AbPlaces /\ AbOneOpen /\ AbHeardSoFar /\ ToStoriesInOrder /\ AbSameOrder

LEMMA AbTopIs ==
  /\ \A e \in AbTops : e.of \in ToIds /\ e.end # "none" /\ e = AbEvent(e.kind, e.of, e.end)
                       /\ <<e.kind, e.end>> \in {<<"started", "check">>, <<"completed", "returned">>, <<"failed", "threw">>}
  /\ \A e \in AbNested : e.end = "none"
  BY DEF AbTops, AbNested, AbEvent

(* What collects the listeners takes each that is there once.              *)
LEMMA AbTakersAre ==
  ASSUME NEW e
  PROVE  AbTakers(e) \in Seq(AbListeners) /\ IsInjective(AbTakers(e))
<1> DEFINE N == Len(AbOrder)
           wants(n) == AbOrder[n] \in abOn /\ AbMatches(AbOrder[n], e)
           Takes(f) == f = [n \in 0 .. N |-> IF n = 0 THEN <<>>
                                             ELSE IF wants(n) THEN Append(f[n - 1], AbOrder[n]) ELSE f[n - 1]]
<1>1. N \in Nat /\ \A n \in 1 .. N : AbOrder[n] \in AbListeners
  BY ToAssumption, LenProperties, ElementOfSeq DEF AbListeners
<1>2. \A m, n \in 1 .. N : AbOrder[m] = AbOrder[n] => m = n
  BY ToAssumption, LenProperties DEF IsInjective
<1> DEFINE T == {n \in Nat : \E f : f = [i \in 0 .. n |-> IF i = 0 THEN <<>>
                                                         ELSE IF wants(i) THEN Append(f[i - 1], AbOrder[i]) ELSE f[i - 1]]}
<1> HIDE DEF wants
<1>3. 0 \in T
  <2> DEFINE f == [i \in 0 .. 0 |-> <<>>]
  <2>1. f = [i \in 0 .. 0 |-> IF i = 0 THEN <<>> ELSE IF wants(i) THEN Append(f[i - 1], AbOrder[i]) ELSE f[i - 1]]
    OBVIOUS
  <2> HIDE DEF f
  <2> QED BY <2>1
<1>4. \A n \in Nat : n \in T => n + 1 \in T
  <2> SUFFICES ASSUME NEW n \in Nat, NEW f,
                      f = [i \in 0 .. n |-> IF i = 0 THEN <<>> ELSE IF wants(i) THEN Append(f[i - 1], AbOrder[i]) ELSE f[i - 1]]
        PROVE  n + 1 \in T
    OBVIOUS
  <2> DEFINE last == IF wants(n + 1) THEN Append(f[n], AbOrder[n + 1]) ELSE f[n]
             g == [i \in 0 .. n + 1 |-> IF i = n + 1 THEN last ELSE f[i]]
  <2>1. \A i \in 0 .. n + 1 : g[i] = IF i = 0 THEN <<>> ELSE IF wants(i) THEN Append(g[i - 1], AbOrder[i]) ELSE g[i - 1]
    <3> SUFFICES ASSUME NEW i \in 0 .. n + 1
          PROVE  g[i] = IF i = 0 THEN <<>> ELSE IF wants(i) THEN Append(g[i - 1], AbOrder[i]) ELSE g[i - 1]
      OBVIOUS
    <3>1. CASE i = n + 1
      <4>1. i # 0 /\ i - 1 = n /\ g[i] = last /\ g[n] = f[n]
        BY <3>1
      <4> QED BY <3>1, <4>1
    <3>2. CASE i \in 0 .. n /\ i # 0
      <4>1. g[i] = f[i] /\ i - 1 \in 0 .. n /\ g[i - 1] = f[i - 1]
        BY <3>2
      <4>2. f[i] = IF wants(i) THEN Append(f[i - 1], AbOrder[i]) ELSE f[i - 1]
        BY <3>2
      <4> QED BY <3>2, <4>1, <4>2
    <3>3. CASE i = 0
      BY <3>3
    <3>4. i = n + 1 \/ (i \in 0 .. n /\ i # 0) \/ i = 0 OBVIOUS
    <3> QED BY <3>1, <3>2, <3>3, <3>4
  <2>2. g = [i \in 0 .. n + 1 |-> g[i]] OBVIOUS
  <2> HIDE DEF g
  <2>3. g = [i \in 0 .. n + 1 |-> IF i = 0 THEN <<>> ELSE IF wants(i) THEN Append(g[i - 1], AbOrder[i]) ELSE g[i - 1]]
    BY <2>1, <2>2
  <2>4. n + 1 \in Nat OBVIOUS
  <2> QED BY <2>3, <2>4, Zenon
<1>5. \E f : Takes(f)
  <2>1. N \in T
    <3> HIDE DEF T
    <3> QED BY <1>1, <1>3, <1>4, NatSetInduction
  <2> QED BY <2>1
<1> DEFINE f == CHOOSE h : Takes(h)
<1>6. Takes(f)
  <2> HIDE DEF Takes
  <2> QED BY <1>5
<1>7. AbTakers(e) = f[N]
  BY DEF AbTakers, wants
<1> HIDE DEF f
<1>8. \A n \in 0 .. N : f[n] = IF n = 0 THEN <<>> ELSE IF wants(n) THEN Append(f[n - 1], AbOrder[n]) ELSE f[n - 1]
  BY <1>6
<1> DEFINE Good(n) == /\ f[n] \in Seq(AbListeners) /\ IsInjective(f[n])
                      /\ \A k \in DOMAIN f[n] : \E m \in 1 .. n : f[n][k] = AbOrder[m]
           G == {n \in Nat : n <= N => Good(n)}
<1> HIDE DEF Good
<1>9. 0 \in G
  <2>1. f[0] = <<>>
    BY <1>1, <1>8
  <2>2. <<>> \in Seq(AbListeners) /\ DOMAIN <<>> = {} OBVIOUS
  <2> QED BY <2>1, <2>2 DEF IsInjective, Good
<1>10. \A n \in Nat : n \in G => n + 1 \in G
  <2> SUFFICES ASSUME NEW n \in Nat, n <= N => Good(n), n + 1 <= N PROVE Good(n + 1) OBVIOUS
  <2>1. n \in 0 .. N /\ n + 1 \in 1 .. N /\ n + 1 \in 0 .. N /\ (n + 1) - 1 = n /\ n + 1 # 0
    BY <1>1
  <2>2. f[n + 1] = IF wants(n + 1) THEN Append(f[n], AbOrder[n + 1]) ELSE f[n]
    BY <1>8, <2>1
  <2>3. Good(n)
    BY <1>1
  <2> USE DEF Good
  <2>4. CASE ~wants(n + 1)
    <3>1. f[n + 1] = f[n]
      BY <2>2, <2>4
    <3>2. \A k \in DOMAIN f[n] : \E m \in 1 .. n + 1 : f[n][k] = AbOrder[m]
      BY <2>3
    <3> QED BY <2>3, <3>1, <3>2
  <2>5. CASE wants(n + 1)
    <3> DEFINE s == f[n]
               x == AbOrder[n + 1]
               t == Append(s, x)
    <3>1. f[n + 1] = t
      BY <2>2, <2>5
    <3>2. s \in Seq(AbListeners) /\ x \in AbListeners /\ IsInjective(s)
      BY <1>1, <2>1, <2>3
    <3>3. \A k \in DOMAIN s : \E m \in 1 .. n : s[k] = AbOrder[m]
      BY <2>3
    <3>4. \A k \in DOMAIN s : s[k] # x
      BY <1>2, <2>1, <3>3
    <3> HIDE DEF s, x
    <3>5. t \in Seq(AbListeners) /\ DOMAIN s = 1 .. Len(s) /\ DOMAIN t = 1 .. Len(s) + 1 /\ Len(s) \in Nat
          /\ t[Len(s) + 1] = x /\ \A k \in 1 .. Len(s) : t[k] = s[k]
      BY <3>2, AppendProperties, LenProperties
    <3> HIDE DEF t
    <3>6. IsInjective(t)
      BY <3>2, <3>4, <3>5 DEF IsInjective
    <3>7. \A k \in DOMAIN t : \E m \in 1 .. n + 1 : t[k] = AbOrder[m]
      <4> SUFFICES ASSUME NEW k \in DOMAIN t PROVE \E m \in 1 .. n + 1 : t[k] = AbOrder[m] OBVIOUS
      <4>1. CASE k = Len(s) + 1
        BY <3>5, <4>1 DEF x
      <4>2. CASE k \in 1 .. Len(s)
        BY <3>3, <3>5, <4>2
      <4> QED BY <3>5, <4>1, <4>2
    <3> QED BY <3>1, <3>5, <3>6, <3>7
  <2> QED BY <2>4, <2>5
<1>11. N \in G
  <2> HIDE DEF G
  <2> QED BY <1>1, <1>9, <1>10, NatSetInduction
<1> QED BY <1>1, <1>7, <1>11 DEF Good

LEMMA ToTakers ==
  ASSUME NEW e, e \in AbTops \cup AbNested
  PROVE  AbFrame(e) \in AbFrames /\ AbFrame(e).event = e /\ IsInjective(AbFrame(e).left)
  BY AbTakersAre DEF AbFrame, AbFrames

(* A call that goes on by itself has no event open, and nothing it was     *)
(* past comes back.                                                        *)
ToGoesOn(c, q) ==
  /\ toPhase' = [toPhase EXCEPT ![c] = q]
  /\ \/ toPhase[c] = "idle" /\ q = "starting"
     \/ toPhase[c] = "check" /\ q \in {"run", "ending"}
     \/ toPhase[c] = "run" /\ q = "ending"
LEMMA ToMoves ==
  ASSUME ToInv, NEW c \in ToCalls, NEW q, ToGoesOn(c, q), toRan \subseteq toRan'
  PROVE  /\ \A e \in AbTops : AbIsOpen(e) => e.of # c.id /\ AbIsOpen(e)'
         /\ \A e \in AbTops : AbIsPast(e) => AbIsPast(e)'
<1>1. toPhase \in [ToCalls -> ToPhases] /\ toPhase' \in [ToCalls -> ToPhases]
  BY DEF ToInv, ToPlaces, ToGoesOn, ToPhases
<1>2. \A d \in ToCalls : d.id = c.id => d = c
  BY ToAssumption
<1>3. \A d \in ToCalls : d # c => toPhase'[d] = toPhase[d]
  BY <1>1 DEF ToGoesOn
<1>4. toPhase'[c] = q
  BY <1>1 DEF ToGoesOn
<1>5. ASSUME NEW e \in AbTops, AbIsOpen(e) PROVE e.of # c.id /\ AbIsOpen(e)'
  <2>1. e.of # c.id
    BY <1>5 DEF AbIsOpen, ToGoesOn
  <2> QED BY <1>2, <1>3, <1>5, <2>1 DEF AbIsOpen, ToHasRun
<1>6. ASSUME NEW e \in AbTops, AbIsPast(e) PROVE AbIsPast(e)'
  <2> SUFFICES ASSUME NEW d \in ToCalls, d.id = e.of
               PROVE  /\ toPhase'[d] \notin {"idle", "starting"}
                      /\ e.kind # "started" => toPhase'[d] \in {"returned", "threw"}
    BY DEF AbIsPast
  <2>1. /\ toPhase[d] \notin {"idle", "starting"}
        /\ e.kind # "started" => toPhase[d] \in {"returned", "threw"}
    BY <1>6 DEF AbIsPast
  <2>2. CASE d = c
    BY <1>4, <2>1, <2>2 DEF ToGoesOn
  <2>3. CASE d # c
    BY <1>3, <2>1, <2>3
  <2> QED BY <2>2, <2>3
<1> QED BY <1>5, <1>6

(* What was heard stays heard when only a call goes on.                    *)
LEMMA ToHeardStays ==
  ASSUME ToInv, NEW c \in ToCalls, NEW q, ToGoesOn(c, q), toRan \subseteq toRan', UNCHANGED <<abStack, abHeard>>
  PROVE  AbHeardSoFar' /\ ToStoriesInOrder' /\ AbSameOrder'
<1>1. \A s \in AbListeners : \A i \in DOMAIN abHeard[s] : abHeard[s][i].end # "none" => abHeard[s][i] \in AbTops
  <2> SUFFICES ASSUME NEW s \in AbListeners, NEW i \in DOMAIN abHeard[s], abHeard[s][i].end # "none" PROVE abHeard[s][i] \in AbTops
    OBVIOUS
  <2>1. abHeard[s] \in Seq(AbTops \cup AbNested)
    BY DEF ToInv, AbPlaces
  <2>2. abHeard[s][i] \in AbTops \cup AbNested
    BY <2>1
  <2> QED BY <2>2, AbTopIs
<1>2. AbHeardSoFar'
  <2>1. \A s \in AbListeners : \A i \in DOMAIN abHeard[s] :
          abHeard[s][i].end # "none" => AbIsPast(abHeard[s][i])' \/ AbDelivers(abHeard[s][i])'
    <3> SUFFICES ASSUME NEW s \in AbListeners, NEW i \in DOMAIN abHeard[s], abHeard[s][i].end # "none"
          PROVE  AbIsPast(abHeard[s][i])' \/ AbDelivers(abHeard[s][i])'
      OBVIOUS
    <3>1. PICK e \in AbTops : e = abHeard[s][i]
      BY <1>1
    <3>2. AbIsPast(e) \/ AbDelivers(e)
      BY <3>1 DEF ToInv, AbHeardSoFar
    <3>3. AbIsPast(e)' \/ AbDelivers(e)'
      BY <3>2, ToMoves DEF AbDelivers
    <3> QED BY <3>1, <3>3 DEF AbIsPast, AbDelivers
  <2>2. AbHeardSoFar
    BY DEF ToInv
  <2> QED BY <2>1, <2>2 DEF AbHeardSoFar, AbIsPast, AbDelivers
<1>3. ToStoriesInOrder' /\ AbSameOrder'
  BY DEF ToInv, ToStoriesInOrder, AbSameOrder
<1> QED BY <1>2, <1>3

(* A step that leaves the bus alone but for what waits at its end.         *)
LEMMA ToEmits ==
  ASSUME ToInv, NEW c \in ToCalls, NEW q, ToGoesOn(c, q), NEW e \in AbTops, e.of = c.id,
         q = IF e.kind = "started" THEN "starting" ELSE "ending", e.kind = "completed" => toPhase[c] = "run",
         abQueue' = Append(abQueue, e),
         UNCHANGED <<toTools, toContext, toRan, toTouched, toChanges, abOn, abStack, abHeard, abTroubles, lzVars>>
  PROVE  ToInv'
<1>1. /\ toPhase \in [ToCalls -> ToPhases] /\ toPhase' \in [ToCalls -> ToPhases]
      /\ toPhase'[c] = q /\ \A d \in ToCalls : d # c => toPhase'[d] = toPhase[d]
  BY DEF ToInv, ToPlaces, ToGoesOn, ToPhases
<1>2. AbHeardSoFar' /\ ToStoriesInOrder' /\ AbSameOrder'
  BY ToHeardStays
<1>3. ToPlaces'
  <2>1. ToTypeOK'
    BY <1>1 DEF ToInv, ToPlaces, ToTypeOK, ToPhases, lzVars
  <2>2. ASSUME NEW d \in ToCalls PROVE ToCallIs(d)'
    <3>1. ToCallIs(d)
      BY DEF ToInv, ToPlaces
    <3>2. CASE d # c
      BY <1>1, <3>1, <3>2 DEF ToCallIs, ToHasRun
    <3>3. CASE d = c
      <4>1. q \in {"starting", "ending"} /\ (q = "starting" => toPhase[c] = "idle")
        BY DEF ToGoesOn
      <4>2. toPhase'[d] \notin {"run", "returned"}
        BY <1>1, <3>3, <4>1
      <4>3. ASSUME NEW x \in toTouched, x[1] = d
            PROVE  toPhase'[d] \notin {"idle", "starting", "check"} /\ PpCheck(toContext[d], d.agent, x[2])
        <5>1. toPhase[d] \notin {"idle", "starting", "check"} /\ PpCheck(toContext[d], d.agent, x[2])
          BY <3>1, <4>3 DEF ToCallIs
        <5> QED BY <1>1, <3>3, <4>1, <5>1
      <4> QED BY <4>2, <4>3 DEF ToCallIs
    <3> QED BY <3>2, <3>3
  <2> QED BY <1>1, <2>1, <2>2 DEF ToInv, ToPlaces
<1> DEFINE n == Len(abQueue)
<1>4. /\ abQueue \in Seq(AbTops) /\ n \in Nat /\ DOMAIN abQueue = 1 .. n
      /\ abQueue' \in Seq(AbTops) /\ DOMAIN abQueue' = 1 .. n + 1
      /\ abQueue'[n + 1] = e /\ \A i \in 1 .. n : abQueue'[i] = abQueue[i] /\ abQueue[i] \in AbTops
  <2>1. abQueue \in Seq(AbTops)
    BY DEF ToInv, AbPlaces
  <2> QED BY <2>1, AppendProperties, LenProperties, ElementOfSeq
<1>5. AbPlaces'
  BY <1>4 DEF ToInv, AbPlaces
<1>6. \A i \in 1 .. n : abQueue[i].of # c.id
  <2> SUFFICES ASSUME NEW i \in 1 .. n PROVE abQueue[i].of # c.id OBVIOUS
  <2>1. PICK f \in AbTops : f = abQueue[i] /\ f = abQueue'[i]
    BY <1>4
  <2>2. AbIsOpen(f)
    BY <1>4, <2>1 DEF ToInv, AbOneOpen
  <2>3. f.of # c.id
    BY <2>2, ToMoves
  <2> QED BY <2>1, <2>3
<1>7. AbIsOpen(e)'
  <2> SUFFICES ASSUME NEW d \in ToCalls, d.id = e.of
               PROVE  /\ toPhase'[d] = IF e.kind = "started" THEN "starting" ELSE "ending"
                      /\ e.kind = "completed" => ToHasRun(d)'
    BY DEF AbIsOpen
  <2>1. d = c
    BY ToAssumption
  <2>2. toPhase[c] = "run" => ToHasRun(c)
    BY DEF ToInv, ToPlaces, ToCallIs
  <2> QED BY <1>1, <2>1, <2>2 DEF ToHasRun
<1>8. ASSUME abStack["drain"] # <<>>
      PROVE  abStack["drain"][1].event.of # c.id /\ AbIsOpen(abStack["drain"][1].event)'
  <2>1. abStack["drain"] \in Seq(AbFrames) /\ 1 \in DOMAIN abStack["drain"]
    <3>1. abStack["drain"] \in Seq(AbFrames)
      BY DEF ToInv, AbPlaces
    <3> QED BY <1>8, <3>1, EmptySeq, LenProperties
  <2>2. PICK f \in AbTops : f = abStack["drain"][1].event
    BY <2>1 DEF ToInv, AbPlaces
  <2>3. AbIsOpen(f)
    BY <1>8, <2>2 DEF ToInv, AbOneOpen
  <2>4. f.of # c.id /\ AbIsOpen(f)'
    BY <2>3, ToMoves
  <2> QED BY <2>2, <2>4
<1>9. AbOneOpen'
  <2>1. \A i \in DOMAIN abQueue' : AbIsOpen(abQueue[i])'
    <3> SUFFICES ASSUME NEW i \in 1 .. n + 1 PROVE AbIsOpen(abQueue[i])'
      BY <1>4
    <3>1. PICK f \in AbTops : f = abQueue'[i] /\ (i = n + 1 => f = e) /\ (i # n + 1 => i \in 1 .. n /\ f = abQueue[i])
      BY <1>4
    <3>2. AbIsOpen(f)'
      <4>1. CASE i = n + 1
        BY <1>7, <3>1, <4>1
      <4>2. CASE i # n + 1
        <5>1. AbIsOpen(f)
          BY <1>4, <3>1, <4>2 DEF ToInv, AbOneOpen
        <5> QED BY <5>1, ToMoves
      <4> QED BY <4>1, <4>2
    <3> QED BY <3>1, <3>2
  <2>2. \A i, j \in DOMAIN abQueue' : abQueue'[i].of = abQueue'[j].of => i = j
    <3> SUFFICES ASSUME NEW i \in 1 .. n + 1, NEW j \in 1 .. n + 1, abQueue'[i].of = abQueue'[j].of PROVE i = j
      BY <1>4
    <3>1. CASE i \in 1 .. n /\ j \in 1 .. n
      BY <1>4, <3>1 DEF ToInv, AbOneOpen
    <3>2. CASE i = n + 1
      BY <1>4, <1>6, <3>2
    <3>3. CASE j = n + 1
      BY <1>4, <1>6, <3>3
    <3> QED BY <1>4, <3>1, <3>2, <3>3
  <2>3. ASSUME abStack["drain"] # <<>>, NEW i \in 1 .. n + 1 PROVE abQueue'[i].of # abStack["drain"][1].event.of
    <3>1. CASE i \in 1 .. n
      BY <1>4, <2>3, <3>1 DEF ToInv, AbOneOpen
    <3>2. CASE i = n + 1
      BY <1>4, <1>8, <2>3, <3>2
    <3> QED BY <1>4, <3>1, <3>2
  <2> QED BY <1>4, <1>8, <2>1, <2>2, <2>3 DEF AbOneOpen, AbIsOpen
<1> QED BY <1>2, <1>3, <1>5, <1>9 DEF ToInv

LEMMA ToLookUpKeeps == ASSUME ToInv, NEW c \in ToCalls, ToLookUp(c) PROVE ToInv'
<1>1. CASE ToMayRun(c) /\ toPhase' = [toPhase EXCEPT ![c] = "run"]
           /\ toContext' = [toContext EXCEPT ![c] = toScope[c.agent].policy]
           /\ toRan' = toRan \cup {[id |-> c.id, visible |-> c.tool \in ToVisibleTo(c.agent)]} /\ UNCHANGED abQueue
  <2>1. /\ ToGoesOn(c, "run") /\ toPhase[c] = "check"
        /\ UNCHANGED <<toTools, toScope, toTouched, toChanges, abOn, abStack, abHeard, abTroubles, lzVars>>
    BY <1>1 DEF ToLookUp, ToGoesOn
  <2>2. AbHeardSoFar' /\ ToStoriesInOrder' /\ AbSameOrder'
    BY <1>1, <2>1, ToHeardStays
  <2>3. /\ toPhase \in [ToCalls -> ToPhases] /\ toPhase' \in [ToCalls -> ToPhases]
        /\ toPhase'[c] = "run" /\ \A d \in ToCalls : d # c => toPhase'[d] = toPhase[d]
        /\ DOMAIN toContext' = ToCalls /\ \A d \in ToCalls : d # c => toContext'[d] = toContext[d]
    BY <1>1 DEF ToInv, ToPlaces, ToPhases
  <2>4. c.tool \in ToVisibleTo(c.agent)
    BY <1>1 DEF ToMayRun, ToVisibleTo, ToScopeAllows
  <2>5. ASSUME NEW d \in ToCalls PROVE ToCallIs(d)'
    <3>1. ToCallIs(d)
      BY DEF ToInv, ToPlaces
    <3>2. CASE d # c
      BY <1>1, <2>1, <2>3, <3>1, <3>2 DEF ToCallIs, ToHasRun
    <3>3. CASE d = c
      <4> DEFINE new == [id |-> c.id, visible |-> c.tool \in ToVisibleTo(c.agent)]
      <4>a. new.id = c.id
        BY Zenon
      <4>b. new \in toRan'
        BY <1>1
      <4> HIDE DEF new
      <4>1. ToHasRun(d)'
        BY <3>3, <4>a, <4>b DEF ToHasRun
      <4>2. \A x \in toTouched' : x[1] # d
        BY <2>1, <3>1, <3>3 DEF ToCallIs
      <4> QED BY <4>1, <4>2 DEF ToCallIs
    <3> QED BY <3>2, <3>3
  <2>6. ToPlaces'
    <3>1. ToTypeOK'
      BY <2>1, <2>3 DEF ToInv, ToPlaces, ToTypeOK, ToPhases, lzVars
    <3>2. \A r \in toRan' : r.visible
      <4> DEFINE new == [id |-> c.id, visible |-> c.tool \in ToVisibleTo(c.agent)]
      <4>1. new.visible = (c.tool \in ToVisibleTo(c.agent)) OBVIOUS
      <4>2. new.visible
        BY <2>4, <4>1, Zenon
      <4> HIDE DEF new
      <4> QED BY <1>1, <4>2, Zenon DEF ToInv, ToPlaces, new
    <3> QED BY <2>1, <2>3, <2>5, <3>1, <3>2 DEF ToInv, ToPlaces
  <2>7. AbPlaces'
    BY <1>1, <2>1 DEF ToInv, AbPlaces
  <2>8. \A e \in AbTops : AbIsOpen(e) => AbIsOpen(e)'
    BY <1>1, <2>1, ToMoves
  <2>9. AbOneOpen'
    <3>1. abQueue \in Seq(AbTops) /\ (abStack["drain"] # <<>> => abStack["drain"][1].event \in AbTops)
      <4>1. abQueue \in Seq(AbTops) /\ abStack["drain"] \in Seq(AbFrames)
        BY DEF ToInv, AbPlaces
      <4>2. abStack["drain"] # <<>> => 1 \in DOMAIN abStack["drain"]
        BY <4>1, EmptySeq, LenProperties
      <4> QED BY <4>1, <4>2 DEF ToInv, AbPlaces
    <3>2. \A i \in DOMAIN abQueue : AbIsOpen(abQueue[i])'
      <4> SUFFICES ASSUME NEW i \in DOMAIN abQueue PROVE AbIsOpen(abQueue[i])' OBVIOUS
      <4>1. PICK e \in AbTops : e = abQueue[i] /\ e = abQueue'[i]
        BY <1>1, <3>1
      <4>2. AbIsOpen(e)'
        BY <2>8, <4>1 DEF ToInv, AbOneOpen
      <4> QED BY <4>1, <4>2
    <3>3. abStack["drain"] # <<>> => AbIsOpen(abStack["drain"][1].event)'
      <4> SUFFICES ASSUME abStack["drain"] # <<>> PROVE AbIsOpen(abStack["drain"][1].event)' OBVIOUS
      <4>1. PICK e \in AbTops : e = abStack["drain"][1].event /\ e = abStack'["drain"][1].event
        BY <2>1, <3>1
      <4>2. AbIsOpen(e)'
        BY <2>8, <4>1 DEF ToInv, AbOneOpen
      <4> QED BY <4>1, <4>2
    <3> QED BY <1>1, <2>1, <3>2, <3>3 DEF ToInv, AbOneOpen
  <2> QED BY <2>2, <2>6, <2>7, <2>9 DEF ToInv
<1>2. CASE toPhase' = [toPhase EXCEPT ![c] = "ending"] /\ ToEmit(c, "failed", "threw") /\ UNCHANGED <<toContext, toRan>>
  <2>1. AbEvent("failed", c.id, "threw") \in AbTops
    BY DEF AbTops, ToIds
  <2> QED BY <1>2, <2>1, ToEmits DEF ToLookUp, ToEmit, ToGoesOn, AbEvent
<1> QED BY <1>1, <1>2 DEF ToLookUp

(* A step that tells nothing leaves the bus as it is.                      *)
LEMMA ToBusStays ==
  ASSUME ToInv, UNCHANGED <<toPhase, toContext, toRan, abQueue, abStack, abHeard>>
  PROVE  AbPlaces' /\ AbOneOpen' /\ AbHeardSoFar' /\ ToStoriesInOrder' /\ AbSameOrder'
<1>1. AbPlaces'
  BY DEF ToInv, AbPlaces
<1>2. AbOneOpen'
  BY DEF ToInv, AbOneOpen, AbIsOpen, ToHasRun
<1>3. AbHeardSoFar'
  BY DEF ToInv, AbHeardSoFar, AbIsOpen, AbIsPast, AbDelivers, ToHasRun
<1>4. ToStoriesInOrder' /\ AbSameOrder'
  BY DEF ToInv, ToStoriesInOrder, AbSameOrder
<1> QED BY <1>1, <1>2, <1>3, <1>4

LEMMA ToTouchKeeps == ASSUME ToInv, NEW c \in ToCalls, NEW action, ToTouch(c, action) PROVE ToInv'
<1>1. CASE PpCheck(toContext[c], c.agent, action) /\ toTouched' = toTouched \cup {<<c, action>>} /\ UNCHANGED <<toPhase, abQueue>>
  <2>1. UNCHANGED <<toTools, toScope, toPhase, toContext, toRan, toChanges, abOn, abQueue, abStack, abHeard, abTroubles, lzVars>>
    BY <1>1 DEF ToTouch
  <2>2. ASSUME NEW d \in ToCalls PROVE ToCallIs(d)'
    <3>1. ToCallIs(d)
      BY DEF ToInv, ToPlaces
    <3>2. ASSUME NEW x \in toTouched', x[1] = d
          PROVE  toPhase'[d] \notin {"idle", "starting", "check"} /\ PpCheck(toContext[d], d.agent, x[2])
      <4>1. CASE x \in toTouched
        BY <2>1, <3>1, <3>2, <4>1 DEF ToCallIs
      <4>2. CASE x = <<c, action>>
        <5>1. d = c /\ x[2] = action
          BY <3>2, <4>2
        <5> QED BY <1>1, <2>1, <5>1 DEF ToTouch
      <4> QED BY <1>1, <3>2, <4>1, <4>2
    <3> QED BY <2>1, <3>1, <3>2 DEF ToCallIs, ToHasRun
  <2>3. ToPlaces'
    BY <1>1, <2>1, <2>2 DEF ToInv, ToPlaces, ToTypeOK, lzVars
  <2> QED BY <2>1, <2>3, ToBusStays DEF ToInv
<1>2. CASE toPhase' = [toPhase EXCEPT ![c] = "ending"] /\ ToEmit(c, "failed", "threw") /\ UNCHANGED toTouched
  <2>1. AbEvent("failed", c.id, "threw") \in AbTops
    BY DEF AbTops, ToIds
  <2> QED BY <1>2, <2>1, ToEmits DEF ToTouch, ToEmit, ToGoesOn, AbEvent
<1> QED BY <1>1, <1>2 DEF ToTouch

LEMMA ToStartKeeps == ASSUME ToInv, NEW c \in ToCalls, ToStart(c) PROVE ToInv'
<1>1. AbEvent("started", c.id, "check") \in AbTops
  BY DEF AbTops, ToIds
<1> QED BY <1>1, ToEmits DEF ToStart, ToEmit, ToGoesOn, AbEvent

LEMMA ToFinishKeeps == ASSUME ToInv, NEW c \in ToCalls, ToFinish(c) PROVE ToInv'
<1>1. AbEvent("completed", c.id, "returned") \in AbTops /\ AbEvent("failed", c.id, "threw") \in AbTops
  BY DEF AbTops, ToIds
<1>2. CASE ToEmit(c, "completed", "returned")
  BY <1>1, <1>2, ToEmits DEF ToFinish, ToEmit, ToGoesOn, AbEvent
<1>3. CASE ToEmit(c, "failed", "threw")
  BY <1>1, <1>3, ToEmits DEF ToFinish, ToEmit, ToGoesOn, AbEvent
<1> QED BY <1>2, <1>3 DEF ToFinish

(* Tools, scopes and subscriptions that change: what was told and what     *)
(* runs is as it was.                                                      *)
LEMMA ToCatalogKeeps ==
  ASSUME ToInv, ToTypeOK', UNCHANGED <<toPhase, toContext, toRan, toTouched, abQueue, abStack, abHeard>>
  PROVE  ToInv'
<1>1. ToPlaces'
  BY DEF ToInv, ToPlaces, ToCallIs, ToHasRun
<1> QED BY <1>1, ToBusStays DEF ToInv

(* An event that is open was not delivered yet.                            *)
LEMMA AbOpenIsNew == ASSUME NEW e \in AbTops, AbIsOpen(e) PROVE ~AbIsPast(e)
<1>1. PICK c \in ToCalls : c.id = e.of
  BY AbTopIs DEF ToIds
<1> QED BY <1>1 DEF AbIsOpen, AbIsPast

LEMMA FrontIs ==
  ASSUME NEW A, NEW s \in Seq(A), s # <<>>
  PROVE  /\ Len(s) \in Nat \ {0} /\ DOMAIN s = 1 .. Len(s) /\ Last(s) = s[Len(s)] /\ Last(s) \in A
         /\ Front(s) \in Seq(A) /\ DOMAIN Front(s) = 1 .. Len(s) - 1 /\ Len(Front(s)) = Len(s) - 1
         /\ \A i \in 1 .. Len(s) - 1 : Front(s)[i] = s[i]
<1>1. Len(s) \in Nat /\ Len(s) # 0 /\ DOMAIN s = 1 .. Len(s) /\ \A i \in 1 .. Len(s) : s[i] \in A
  BY EmptySeq, LenProperties, ElementOfSeq
<1>2. Front(s) = SubSeq(s, 1, Len(s) - 1) /\ Last(s) = s[Len(s)]
  BY DEF Front, Last
<1>3. 1 \in 1 .. Len(s) + 1 /\ Len(s) - 1 \in 1 - 1 .. Len(s) /\ Len(s) - 1 \in Nat
  BY <1>1
<1>4. /\ Front(s) \in Seq(A) /\ Len(Front(s)) = Len(s) - 1
      /\ \A i \in 1 .. Len(s) - 1 : Front(s)[i] = s[i]
  BY <1>1, <1>2, <1>3
<1> QED BY <1>1, <1>2, <1>4, LenProperties

LEMMA AbEventsHeard ==
  ASSUME ToInv, NEW s \in AbListeners, NEW i \in DOMAIN abHeard[s], abHeard[s][i].end # "none"
  PROVE  abHeard[s][i] \in AbTops
<1>1. abHeard[s] \in Seq(AbTops \cup AbNested)
  BY DEF ToInv, AbPlaces
<1>2. abHeard[s][i] \in AbTops \cup AbNested
  BY <1>1
<1> QED BY <1>2, AbTopIs

(* The event on top of the drain is the one that is delivered.             *)
LEMMA AbCurrent ==
  ASSUME ToInv, abStack["drain"] # <<>>
  PROVE  /\ 1 \in DOMAIN abStack["drain"] /\ abStack["drain"] \in Seq(AbFrames) /\ abStack["drain"][1] \in AbFrames
         /\ abStack["drain"][1].event \in AbTops /\ AbIsOpen(abStack["drain"][1].event)
<1>1. abStack["drain"] \in Seq(AbFrames)
  BY DEF ToInv, AbPlaces
<1>2. 1 \in DOMAIN abStack["drain"]
  BY <1>1, EmptySeq, LenProperties
<1> QED BY <1>1, <1>2 DEF ToInv, AbPlaces, AbOneOpen

LEMMA AbDrainKeeps == ASSUME ToInv, AbDrain PROVE ToInv'
<1> DEFINE n == Len(abQueue)
<1> PICK e : e = Head(abQueue) OBVIOUS
<1>0. /\ UNCHANGED <<toTools, toScope, toPhase, toContext, toRan, toTouched, toChanges, abOn, abHeard, abTroubles, lzVars>>
      /\ abStack["drain"] = <<>> /\ abQueue # <<>> /\ abQueue' = Tail(abQueue)
      /\ abStack' = [abStack EXCEPT !["drain"] = <<AbFrame(e)>>]
  BY DEF AbDrain, toOwnVars
<1>1. /\ abQueue \in Seq(AbTops) /\ n \in Nat \ {0} /\ DOMAIN abQueue = 1 .. n
      /\ e = abQueue[1] /\ e \in AbTops /\ abQueue' \in Seq(AbTops) /\ DOMAIN abQueue' = 1 .. n - 1
      /\ \A i \in 1 .. n - 1 : abQueue'[i] = abQueue[i + 1] /\ abQueue[i + 1] \in AbTops
  <2>1. abQueue \in Seq(AbTops)
    BY DEF ToInv, AbPlaces
  <2>2. abQueue # <<>> /\ n \in Nat /\ n # 0
    BY <1>0, <2>1, EmptySeq, LenProperties
  <2>3. e = abQueue[1] /\ e \in AbTops /\ Tail(abQueue) \in Seq(AbTops) /\ Len(Tail(abQueue)) = n - 1
        /\ \A i \in 1 .. n - 1 : Tail(abQueue)[i] = abQueue[i + 1]
    BY <2>1, <2>2, HeadTailProperties
  <2> QED BY <1>0, <2>1, <2>2, <2>3, LenProperties, ElementOfSeq
<1>2. AbIsOpen(e) /\ ~AbIsPast(e)
  BY <1>1, AbOpenIsNew DEF ToInv, AbOneOpen
<1>3. \A f : (AbIsOpen(f) <=> AbIsOpen(f)') /\ (AbIsPast(f) <=> AbIsPast(f)')
  BY <1>0 DEF AbIsOpen, AbIsPast, ToHasRun
<1>4. /\ AbFrame(e) \in AbFrames /\ AbFrame(e).event = e /\ IsInjective(AbFrame(e).left)
  BY <1>1, ToTakers
<1> DEFINE f == AbFrame(e)
<1>5. /\ abStack' \in [{"drain", "detached"} -> Seq(AbFrames)]
      /\ abStack'["drain"] = <<f>> /\ abStack'["detached"] = abStack["detached"]
  <2>1. abStack \in [{"drain", "detached"} -> Seq(AbFrames)]
    BY DEF ToInv, AbPlaces
  <2> HIDE DEF f
  <2>2. <<f>> \in Seq(AbFrames)
    BY <1>4 DEF f
  <2> QED BY <1>0, <2>1, <2>2 DEF f
<1> HIDE DEF f
<1>6. f \in AbFrames /\ f.event = e /\ IsInjective(f.left) /\ f.left \in Seq(AbListeners)
  BY <1>4 DEF f, AbFrames
<1>7. abStack'["drain"] # <<>> /\ DOMAIN abStack'["drain"] = {1} /\ abStack'["drain"][1] = f
  BY <1>5
<1>8. ToPlaces'
  BY <1>0 DEF ToInv, ToPlaces, ToTypeOK, ToCallIs, ToHasRun, lzVars
<1>9. AbPlaces'
  BY <1>0, <1>1, <1>5, <1>6, <1>7 DEF ToInv, AbPlaces
<1>10. AbOneOpen'
  <2>1. \A i \in DOMAIN abQueue' : AbIsOpen(abQueue[i])'
    <3> SUFFICES ASSUME NEW i \in 1 .. n - 1 PROVE AbIsOpen(abQueue[i])'
      BY <1>1
    <3>1. PICK g \in AbTops : g = abQueue'[i] /\ g = abQueue[i + 1]
      BY <1>1
    <3>2. i + 1 \in DOMAIN abQueue
      BY <1>1
    <3>3. AbIsOpen(g)'
      BY <1>3, <3>1, <3>2 DEF ToInv, AbOneOpen
    <3> QED BY <3>1, <3>3
  <2>2. \A i, j \in DOMAIN abQueue' : abQueue'[i].of = abQueue'[j].of => i = j
    <3> SUFFICES ASSUME NEW i \in 1 .. n - 1, NEW j \in 1 .. n - 1, abQueue'[i].of = abQueue'[j].of PROVE i = j
      BY <1>1
    <3>1. i + 1 \in DOMAIN abQueue /\ j + 1 \in DOMAIN abQueue /\ abQueue[i + 1].of = abQueue[j + 1].of
      BY <1>1
    <3>2. i + 1 = j + 1
      BY <3>1 DEF ToInv, AbOneOpen
    <3> QED BY <3>2
  <2>3. AbIsOpen(e)'
    BY <1>2, <1>3
  <2>4. AbIsOpen(abStack["drain"][1].event)'
    BY <1>6, <1>7, <2>3
  <2>5. \A i \in DOMAIN abQueue' : abQueue'[i].of # abStack'["drain"][1].event.of
    <3> SUFFICES ASSUME NEW i \in 1 .. n - 1, abQueue'[i].of = e.of PROVE FALSE
      BY <1>1, <1>6, <1>7
    <3>1. i + 1 \in DOMAIN abQueue /\ 1 \in DOMAIN abQueue /\ abQueue[i + 1].of = abQueue[1].of
      BY <1>1
    <3>2. i + 1 = 1
      BY <3>1 DEF ToInv, AbOneOpen
    <3> QED BY <3>2
  <2> QED BY <2>1, <2>2, <2>4, <2>5 DEF AbOneOpen
<1>11. ASSUME NEW s \in AbListeners, NEW i \in DOMAIN abHeard[s]
       PROVE  abHeard[s][i] # e /\ (abHeard[s][i].end # "none" => AbIsPast(abHeard[s][i]))
  <2>1. abHeard[s][i].end # "none" => AbIsPast(abHeard[s][i])
    BY <1>0 DEF ToInv, AbHeardSoFar, AbDelivers
  <2>2. e.end # "none"
    BY <1>1, AbTopIs
  <2> QED BY <1>2, <2>1, <2>2
<1>12. AbHeardSoFar'
  <2>1. \A s \in AbListeners : \A i \in DOMAIN abHeard[s] :
          abHeard[s][i].end # "none" => AbIsPast(abHeard[s][i])'
    <3> SUFFICES ASSUME NEW s \in AbListeners, NEW i \in DOMAIN abHeard[s], abHeard[s][i].end # "none"
          PROVE  AbIsPast(abHeard[s][i])'
      OBVIOUS
    <3>1. PICK g : g = abHeard[s][i] /\ g = abHeard'[s][i]
      BY <1>0
    <3>2. AbIsPast(g)'
      BY <1>3, <1>11, <3>1
    <3> QED BY <3>1, <3>2
  <2>2. \A m \in DOMAIN f.left : f.left[m] \in AbListeners
    BY <1>6
  <2>3. abHeard' = abHeard
    BY <1>0
  <2>4. /\ \A m \in DOMAIN f.left : \A i \in DOMAIN abHeard[f.left[m]] : abHeard[f.left[m]][i] # e
        /\ \A s \in AbListeners : \A i, j \in DOMAIN abHeard[s] : i < j /\ abHeard[s][i] = e => abHeard[s][j].end = "none"
    BY <1>11, <2>2
  <2>5. \A s \in AbListeners : \A i \in DOMAIN abHeard'[s] : abHeard'[s][i].end # "none" => AbIsPast(abHeard[s][i])'
    BY <2>1, <2>3
  <2> QED BY <1>6, <1>7, <2>3, <2>4, <2>5 DEF AbHeardSoFar
<1>13. ToStoriesInOrder' /\ AbSameOrder'
  BY <1>0 DEF ToInv, ToStoriesInOrder, AbSameOrder
<1> QED BY <1>8, <1>9, <1>10, <1>12, <1>13 DEF ToInv

(* A step beside the delivery: at most an event of a handler is heard.     *)
LEMMA AbAside ==
  ASSUME ToInv, ToTypeOK', AbPlaces', UNCHANGED <<toPhase, toContext, toRan, toTouched, abQueue>>,
         abStack'["drain"] # <<>> <=> abStack["drain"] # <<>>,
         abStack["drain"] # <<>> => abStack'["drain"][1] = abStack["drain"][1],
         \/ abHeard' = abHeard
         \/ \E s \in AbListeners, v \in AbNested : abHeard' = [abHeard EXCEPT ![s] = Append(@, v)]
  PROVE  ToInv'
<1>1. \A e : (AbIsOpen(e) <=> AbIsOpen(e)') /\ (AbIsPast(e) <=> AbIsPast(e)') /\ (AbDelivers(e) <=> AbDelivers(e)')
  BY DEF AbIsOpen, AbIsPast, AbDelivers, ToHasRun
<1>2. ToPlaces'
  BY DEF ToInv, ToPlaces, ToCallIs, ToHasRun
<1>3. AbOneOpen'
  BY DEF ToInv, AbOneOpen, AbIsOpen, ToHasRun
<1>4. \A s \in AbListeners : \A i \in DOMAIN abHeard'[s] :
        IF i \in DOMAIN abHeard[s] THEN abHeard'[s][i] = abHeard[s][i] ELSE abHeard'[s][i].end = "none"
  <2> SUFFICES ASSUME NEW s \in AbListeners, NEW i \in DOMAIN abHeard'[s]
        PROVE  IF i \in DOMAIN abHeard[s] THEN abHeard'[s][i] = abHeard[s][i] ELSE abHeard'[s][i].end = "none"
    OBVIOUS
  <2>1. CASE abHeard'[s] = abHeard[s]
    BY <2>1
  <2>2. CASE abHeard'[s] # abHeard[s]
    <3>1. abHeard \in [AbListeners -> Seq(AbTops \cup AbNested)]
      BY DEF ToInv, AbPlaces
    <3>2. PICK v \in AbNested : abHeard'[s] = Append(abHeard[s], v)
      BY <2>2, <3>1
    <3>3. abHeard[s] \in Seq(AbTops \cup AbNested)
      BY <3>1
    <3>4. v.end = "none"
      BY AbTopIs
    <3> DEFINE n == Len(abHeard[s])
    <3>5. /\ n \in Nat /\ DOMAIN abHeard[s] = 1 .. n /\ DOMAIN abHeard'[s] = 1 .. n + 1
          /\ abHeard'[s][n + 1] = v /\ \A k \in 1 .. n : abHeard'[s][k] = abHeard[s][k]
      BY <3>2, <3>3, AppendProperties, LenProperties
    <3>6. CASE i \in 1 .. n
      BY <3>5, <3>6
    <3>7. CASE i = n + 1
      BY <3>4, <3>5, <3>7
    <3> QED BY <3>5, <3>6, <3>7
  <2> QED BY <2>1, <2>2
<1>5. ASSUME NEW s \in AbListeners, NEW i \in DOMAIN abHeard'[s], abHeard'[s][i].end # "none"
      PROVE  i \in DOMAIN abHeard[s] /\ abHeard'[s][i] = abHeard[s][i]
  BY <1>4, <1>5
<1>6. AbHeardSoFar'
  <2>1. \A s \in AbListeners : \A i \in DOMAIN abHeard'[s] :
          abHeard'[s][i].end # "none" => (AbIsPast(abHeard[s][i]) \/ AbDelivers(abHeard[s][i]))'
    <3> SUFFICES ASSUME NEW s \in AbListeners, NEW i \in DOMAIN abHeard'[s], abHeard'[s][i].end # "none"
          PROVE  (AbIsPast(abHeard[s][i]) \/ AbDelivers(abHeard[s][i]))'
      OBVIOUS
    <3>1. PICK e : e = abHeard'[s][i] /\ e = abHeard[s][i]
      BY <1>5
    <3>2. AbIsPast(e) \/ AbDelivers(e)
      <4>1. i \in DOMAIN abHeard[s] /\ abHeard[s][i].end # "none"
        BY <1>5
      <4>2. AbIsPast(abHeard[s][i]) \/ AbDelivers(abHeard[s][i])
        BY <4>1 DEF ToInv, AbHeardSoFar
      <4> QED BY <3>1, <4>2, Zenon
    <3>3. AbIsPast(e)' \/ AbDelivers(e)'
      BY <1>1, <3>2
    <3> QED BY <3>1, <3>3
  <2>2. ASSUME abStack'["drain"] # <<>>
        PROVE  LET d == abStack'["drain"][1] IN
               /\ \A m \in DOMAIN d.left : \A i \in DOMAIN abHeard'[d.left[m]] : abHeard'[d.left[m]][i] # d.event
               /\ \A s \in AbListeners : \A i, j \in DOMAIN abHeard'[s] :
                    i < j /\ abHeard'[s][i] = d.event => abHeard'[s][j].end = "none"
    <3> DEFINE d == abStack["drain"][1]
    <3>1. abStack["drain"] # <<>> /\ abStack'["drain"][1] = d
      BY <2>2
    <3>2. d \in AbFrames /\ d.event \in AbTops
      BY <3>1, AbCurrent
    <3>3. d.event.end # "none"
      BY <3>2, AbTopIs
    <3>4. d.left \in Seq(AbListeners)
      BY <3>2 DEF AbFrames
    <3>5. /\ \A m \in DOMAIN d.left : \A i \in DOMAIN abHeard[d.left[m]] : abHeard[d.left[m]][i] # d.event
          /\ \A s \in AbListeners : \A i, j \in DOMAIN abHeard[s] :
               i < j /\ abHeard[s][i] = d.event => abHeard[s][j].end = "none"
      BY <3>1 DEF ToInv, AbHeardSoFar
    <3> HIDE DEF d
    <3>6. ASSUME NEW m \in DOMAIN d.left, NEW i \in DOMAIN abHeard'[d.left[m]] PROVE abHeard'[d.left[m]][i] # d.event
      <4>1. PICK u \in AbListeners : u = d.left[m]
        BY <3>4
      <4>2. CASE i \in DOMAIN abHeard[u]
        <5>1. abHeard'[u][i] = abHeard[u][i]
          BY <1>4, <3>6, <4>1, <4>2
        <5>2. abHeard[u][i] # d.event
          BY <3>5, <4>1, <4>2
        <5> QED BY <4>1, <5>1, <5>2
      <4>3. CASE i \notin DOMAIN abHeard[u]
        <5>1. abHeard'[u][i].end = "none"
          BY <1>4, <3>6, <4>1, <4>3
        <5> QED BY <3>3, <4>1, <5>1
      <4> QED BY <4>2, <4>3
    <3>7. ASSUME NEW s \in AbListeners, NEW i \in DOMAIN abHeard'[s], NEW j \in DOMAIN abHeard'[s], i < j, abHeard'[s][i] = d.event
          PROVE  abHeard'[s][j].end = "none"
      <4>1. i \in DOMAIN abHeard[s] /\ abHeard[s][i] = d.event
        BY <1>4, <3>3, <3>7
      <4>2. CASE j \in DOMAIN abHeard[s]
        <5>1. abHeard[s][j].end = "none" /\ abHeard'[s][j] = abHeard[s][j]
          BY <1>4, <3>5, <3>7, <4>1, <4>2
        <5> QED BY <5>1
      <4>3. CASE j \notin DOMAIN abHeard[s]
        BY <1>4, <4>3
      <4> QED BY <4>2, <4>3
    <3> QED BY <3>1, <3>6, <3>7
  <2> QED BY <2>1, <2>2 DEF AbHeardSoFar
<1>7. ToStoriesInOrder'
  <2> SUFFICES ASSUME NEW s \in AbListeners, NEW c \in ToCalls, NEW i \in DOMAIN abHeard'[s], NEW j \in DOMAIN abHeard'[s],
                      i < j, ToTellsOf(abHeard'[s][i], c), ToTellsOf(abHeard'[s][j], c)
        PROVE  abHeard'[s][i].kind = "started" /\ abHeard'[s][j].kind \in {"completed", "failed"}
    BY DEF ToStoriesInOrder, AbListeners, ToTellsOf
  <2>1. i \in DOMAIN abHeard[s] /\ j \in DOMAIN abHeard[s] /\ abHeard'[s][i] = abHeard[s][i] /\ abHeard'[s][j] = abHeard[s][j]
    BY <1>5 DEF ToTellsOf
  <2> QED BY <2>1 DEF ToInv, ToStoriesInOrder, AbListeners
<1>8. AbSameOrder'
  <2> SUFFICES ASSUME NEW s \in AbListeners, NEW u \in AbListeners, NEW i \in DOMAIN abHeard'[s], NEW j \in DOMAIN abHeard'[s],
                      i < j, abHeard'[s][i].end # "none", abHeard'[s][j].end # "none",
                      NEW k \in DOMAIN abHeard'[u], NEW l \in DOMAIN abHeard'[u],
                      abHeard'[u][k] = abHeard'[s][i], abHeard'[u][l] = abHeard'[s][j]
        PROVE  k < l
    BY DEF AbSameOrder, AbListeners
  <2>1. /\ i \in DOMAIN abHeard[s] /\ j \in DOMAIN abHeard[s] /\ abHeard'[s][i] = abHeard[s][i] /\ abHeard'[s][j] = abHeard[s][j]
        /\ k \in DOMAIN abHeard[u] /\ l \in DOMAIN abHeard[u] /\ abHeard'[u][k] = abHeard[u][k] /\ abHeard'[u][l] = abHeard[u][l]
    BY <1>5
  <2> QED BY <2>1 DEF ToInv, AbSameOrder, AbListeners
<1> QED BY <1>2, <1>3, <1>6, <1>7, <1>8 DEF ToInv

LEMMA AbDetachedKeeps == ASSUME ToInv, AbDetached PROVE ToInv'
<1> DEFINE e == AbEvent("other", 0, "none")
           f == AbFrame(e)
<1>1. /\ UNCHANGED <<toTools, toScope, toPhase, toContext, toRan, toTouched, toChanges, abOn, abQueue, abHeard, lzVars>>
      /\ abTroubles < AbTroubles /\ abTroubles' = abTroubles + 1
      /\ abStack' = [abStack EXCEPT !["detached"] = <<f>>]
  BY DEF AbDetached, toOwnVars
<1>2. e \in AbNested
  BY DEF AbNested, AbEvent
<1>3. f \in AbFrames /\ f.event = e /\ IsInjective(f.left)
  BY <1>2, ToTakers
<1> HIDE DEF e, f
<1>4. abStack \in [{"drain", "detached"} -> Seq(AbFrames)]
  BY DEF ToInv, AbPlaces
<1>5. /\ abStack' \in [{"drain", "detached"} -> Seq(AbFrames)]
      /\ abStack'["drain"] = abStack["drain"] /\ abStack'["detached"] = <<f>>
  <2>1. <<f>> \in Seq(AbFrames)
    BY <1>3
  <2> QED BY <1>1, <1>4, <2>1
<1>6. DOMAIN <<f>> = {1} /\ <<f>>[1] = f OBVIOUS
<1>7. AbPlaces'
  BY <1>1, <1>2, <1>3, <1>5, <1>6 DEF ToInv, AbPlaces
<1>8. ToTypeOK'
  BY <1>1, ToAssumption DEF ToInv, ToPlaces, ToTypeOK, lzVars
<1> QED BY <1>1, <1>5, <1>7, <1>8, AbAside

(* What is left of a frame when its next handler was called.               *)
LEMMA AbTailIs ==
  ASSUME NEW s \in Seq(AbListeners), s # <<>>, IsInjective(s)
  PROVE  /\ Head(s) = s[1] /\ s[1] \in AbListeners /\ 1 \in DOMAIN s
         /\ Tail(s) \in Seq(AbListeners) /\ IsInjective(Tail(s))
         /\ \A m \in DOMAIN Tail(s) : m + 1 \in DOMAIN s /\ Tail(s)[m] = s[m + 1] /\ s[m + 1] # s[1]
<1> DEFINE r == Tail(s)
           n == Len(s)
<1>1. n \in Nat \ {0} /\ DOMAIN s = 1 .. n /\ s[1] \in AbListeners /\ Head(s) = s[1]
  BY EmptySeq, LenProperties, ElementOfSeq
<1>2. r \in Seq(AbListeners) /\ Len(r) = n - 1 /\ \A i \in 1 .. n - 1 : r[i] = s[i + 1]
  BY HeadTailProperties
<1>3. DOMAIN r = 1 .. n - 1
  BY <1>2, LenProperties
<1> HIDE DEF r
<1>4. \A m \in DOMAIN r : m + 1 \in DOMAIN s /\ r[m] = s[m + 1] /\ s[m + 1] # s[1]
  <2> SUFFICES ASSUME NEW m \in 1 .. n - 1 PROVE m + 1 \in 1 .. n /\ r[m] = s[m + 1] /\ s[m + 1] # s[1]
    BY <1>1, <1>3
  <2>1. m + 1 \in 1 .. n /\ 1 \in 1 .. n /\ m + 1 # 1
    BY <1>1
  <2> QED BY <1>1, <1>2, <2>1 DEF IsInjective
<1>5. IsInjective(r)
  <2> SUFFICES ASSUME NEW a \in DOMAIN r, NEW b \in DOMAIN r, r[a] = r[b] PROVE a = b
    BY DEF IsInjective
  <2>1. a + 1 = b + 1
    BY <1>4 DEF IsInjective
  <2> QED BY <1>1, <1>3, <2>1
<1> QED BY <1>1, <1>2, <1>4, <1>5 DEF r

AbGoesDeeper(S, T) ==
  LET n == Len(S) IN
  /\ T \in Seq(AbFrames) /\ T # <<>> /\ \A i \in DOMAIN T : IsInjective(T[i].left)
  /\ DOMAIN T = 1 .. n \/ (DOMAIN T = 1 .. n + 1 /\ T[n + 1].event \in AbNested)
  /\ \A i \in 1 .. n - 1 : T[i] = S[i]
  /\ T[n].event = S[n].event /\ T[n].left = Tail(S[n].left)
LEMMA AbHandleShape ==
  ASSUME ToInv, NEW t \in {"drain", "detached"}, AbHandle(t)
  PROVE  LET S == abStack[t]
             top == S[Len(S)]
         IN /\ S \in Seq(AbFrames) /\ Len(S) \in Nat \ {0} /\ DOMAIN S = 1 .. Len(S)
            /\ top \in AbFrames /\ IsInjective(top.left) /\ top.left # <<>>
            /\ AbGoesDeeper(S, abStack'[t])
            /\ abStack' = [abStack EXCEPT ![t] = abStack'[t]]
            /\ abHeard' = [abHeard EXCEPT ![top.left[1]] = Append(@, top.event)]
<1> DEFINE S == abStack[t]
           n == Len(S)
           top == S[n]
           rest == Append(Front(S), [event |-> top.event, left |-> Tail(top.left)])
           more(kind) == Append(rest, AbFrame(AbEvent(kind, top.event.of, "none")))
<1>1. abStack \in [{"drain", "detached"} -> Seq(AbFrames)] /\ S \in Seq(AbFrames) /\ S # <<>> /\ top.left # <<>>
  <2>1. abStack \in [{"drain", "detached"} -> Seq(AbFrames)]
    BY DEF ToInv, AbPlaces
  <2>2. S # <<>> /\ top.left # <<>>
    BY DEF AbHandle, Last
  <2> QED BY <2>1, <2>2
<1>2. /\ n \in Nat \ {0} /\ DOMAIN S = 1 .. n /\ Last(S) = top /\ top \in AbFrames
      /\ Front(S) \in Seq(AbFrames) /\ Len(Front(S)) = n - 1 /\ \A i \in 1 .. n - 1 : Front(S)[i] = S[i]
  <2> HIDE DEF S
  <2>1. /\ Len(S) \in Nat \ {0} /\ DOMAIN S = 1 .. Len(S) /\ Last(S) = S[Len(S)] /\ Last(S) \in AbFrames
        /\ Front(S) \in Seq(AbFrames) /\ Len(Front(S)) = Len(S) - 1 /\ \A i \in 1 .. Len(S) - 1 : Front(S)[i] = S[i]
    BY <1>1, FrontIs
  <2> QED BY <2>1
<1>3. \A i \in 1 .. n : IsInjective(S[i].left)
  BY <1>2 DEF ToInv, AbPlaces
<1>4. /\ abHeard' = [abHeard EXCEPT ![Head(top.left)] = Append(@, top.event)]
      /\ \/ abStack' = [abStack EXCEPT ![t] = rest]
         \/ \E kind \in {"error", "other"} : abStack' = [abStack EXCEPT ![t] = more(kind)]
  BY <1>2 DEF AbHandle
<1>5. top = [event |-> top.event, left |-> top.left] /\ top.event \in AbTops \cup AbNested /\ top.left \in Seq(AbListeners)
  BY <1>2 DEF AbFrames
<1> DEFINE next == [event |-> top.event, left |-> Tail(top.left)]
<1>7. Tail(top.left) \in Seq(AbListeners) /\ IsInjective(Tail(top.left)) /\ Head(top.left) = top.left[1]
  BY <1>1, <1>2, <1>3, <1>5, AbTailIs
<1>8. next \in AbFrames /\ next.event = top.event /\ next.left = Tail(top.left)
  BY <1>5, <1>7 DEF AbFrames
<1>9. top.event.of \in ToIds \cup {0}
  BY <1>5, AbTopIs DEF AbNested
<1>10. rest = Append(Front(S), next) OBVIOUS
<1> HIDE DEF next, rest
<1>11. /\ rest \in Seq(AbFrames) /\ rest # <<>> /\ Len(rest) = n /\ DOMAIN rest = 1 .. n
       /\ rest[n] = next /\ \A i \in 1 .. n - 1 : rest[i] = S[i]
  <2>1. /\ rest \in Seq(AbFrames) /\ rest # <<>> /\ Len(rest) = Len(Front(S)) + 1
        /\ rest[Len(Front(S)) + 1] = next /\ \A i \in 1 .. Len(Front(S)) : rest[i] = Front(S)[i]
    BY <1>2, <1>8, <1>10, AppendProperties
  <2>2. Len(Front(S)) + 1 = n
    BY <1>2
  <2> QED BY <1>2, <2>1, <2>2, LenProperties
<1>12. \A i \in 1 .. n : IsInjective(rest[i].left)
  <2> SUFFICES ASSUME NEW i \in 1 .. n PROVE IsInjective(rest[i].left) OBVIOUS
  <2>1. CASE i = n
    BY <1>7, <1>8, <1>11, <2>1
  <2>2. CASE i # n
    <3>1. rest[i] = S[i]
      BY <1>2, <1>11, <2>2
    <3> QED BY <1>3, <3>1
  <2> QED BY <2>1, <2>2
<1>13. AbGoesDeeper(S, rest)
  BY <1>2, <1>8, <1>11, <1>12 DEF AbGoesDeeper
<1>14. ASSUME NEW kind \in {"error", "other"} PROVE AbGoesDeeper(S, more(kind))
  <2> DEFINE e == AbEvent(kind, top.event.of, "none")
             f == AbFrame(e)
             T == more(kind)
  <2>1. e \in AbNested
    BY <1>9 DEF AbNested, AbEvent
  <2>2. f \in AbFrames /\ f.event = e /\ IsInjective(f.left)
    BY <2>1, ToTakers
  <2>3. T = Append(rest, f) OBVIOUS
  <2> HIDE DEF e, f, T
  <2>4. /\ T \in Seq(AbFrames) /\ T # <<>> /\ DOMAIN T = 1 .. n + 1 /\ T[n + 1] = f /\ \A i \in 1 .. n : T[i] = rest[i]
    BY <1>2, <1>11, <2>2, <2>3, AppendProperties, LenProperties
  <2>5. \A i \in DOMAIN T : IsInjective(T[i].left)
    <3> SUFFICES ASSUME NEW i \in 1 .. n + 1 PROVE IsInjective(T[i].left)
      BY <2>4
    <3>1. CASE i = n + 1
      BY <2>2, <2>4, <3>1
    <3>2. CASE i \in 1 .. n
      BY <1>12, <2>4, <3>2
    <3> QED BY <1>2, <3>1, <3>2
  <2>6. \A i \in 1 .. n - 1 : T[i] = S[i]
    BY <1>2, <1>11, <2>4
  <2>7. T[n] = next /\ T[n + 1].event \in AbNested
    <3>1. n \in 1 .. n
      BY <1>2
    <3>2. T[n] = rest[n]
      BY <2>4, <3>1
    <3>3. T[n + 1] = f /\ f.event = e
      BY <2>2, <2>4
    <3> QED BY <1>11, <2>1, <3>2, <3>3
  <2>8. AbGoesDeeper(S, T)
    BY <1>8, <2>4, <2>5, <2>6, <2>7 DEF AbGoesDeeper
  <2> QED BY <2>8 DEF T
<1>15. AbGoesDeeper(S, abStack'[t]) /\ abStack' = [abStack EXCEPT ![t] = abStack'[t]]
  <2>1. CASE abStack' = [abStack EXCEPT ![t] = rest]
    <3>1. abStack'[t] = rest
      BY <1>1, <2>1
    <3> QED BY <1>13, <2>1, <3>1
  <2>2. ASSUME NEW kind \in {"error", "other"}, abStack' = [abStack EXCEPT ![t] = more(kind)]
        PROVE  AbGoesDeeper(S, abStack'[t]) /\ abStack' = [abStack EXCEPT ![t] = abStack'[t]]
    <3> DEFINE T == more(kind)
    <3>1. abStack' = [abStack EXCEPT ![t] = T] /\ AbGoesDeeper(S, T)
      BY <1>14, <2>2
    <3> HIDE DEF T
    <3>2. abStack'[t] = T
      BY <1>1, <3>1
    <3> QED BY <3>1, <3>2
  <2> HIDE DEF more
  <2> QED BY <1>4, <2>1, <2>2
<1>16. top = S[n] /\ top \in AbFrames /\ IsInjective(top.left) /\ top.left # <<>>
  BY <1>1, <1>2, <1>3
<1>17. abHeard' = [abHeard EXCEPT ![top.left[1]] = Append(@, top.event)]
  BY <1>4, <1>7
<1> HIDE DEF top
<1> QED BY <1>1, <1>2, <1>15, <1>16, <1>17

LEMMA AbHandleKeepsPlaces == ASSUME ToInv, NEW t \in {"drain", "detached"}, AbHandle(t) PROVE AbPlaces' /\ ToTypeOK'
<1> DEFINE S == abStack[t]
           T == abStack'[t]
           n == Len(S)
           top == S[n]
<1>1. /\ S \in Seq(AbFrames) /\ n \in Nat \ {0} /\ DOMAIN S = 1 .. n
      /\ top \in AbFrames /\ IsInjective(top.left) /\ top.left # <<>> /\ AbGoesDeeper(S, T)
      /\ abStack' = [abStack EXCEPT ![t] = T]
      /\ abHeard' = [abHeard EXCEPT ![top.left[1]] = Append(@, top.event)]
  BY AbHandleShape
<1>2. /\ UNCHANGED <<toTools, toPhase, toChanges, abOn, abQueue, lzVars>>
      /\ abTroubles' = abTroubles \/ (abTroubles < AbTroubles /\ abTroubles' = abTroubles + 1)
  BY DEF AbHandle, toOwnVars
<1>3. AbPlaces
  BY DEF ToInv
<1> HIDE DEF T
<1>4. /\ T \in Seq(AbFrames) /\ \A i \in DOMAIN T : IsInjective(T[i].left)
      /\ \A i \in DOMAIN T : i \in 1 .. n \/ (i = n + 1 /\ T[i].event \in AbNested)
      /\ \A i \in 1 .. n : T[i].event = S[i].event
  <2>1. AbGoesDeeper(S, T) /\ n \in Nat \ {0}
    BY <1>1
  <2>2. T \in Seq(AbFrames) /\ \A i \in DOMAIN T : IsInjective(T[i].left)
    BY <2>1 DEF AbGoesDeeper
  <2>3. \A i \in DOMAIN T : i \in 1 .. n \/ (i = n + 1 /\ T[i].event \in AbNested)
    BY <2>1 DEF AbGoesDeeper
  <2>4. \A i \in 1 .. n : T[i].event = S[i].event
    BY <2>1 DEF AbGoesDeeper
  <2> QED BY <2>2, <2>3, <2>4
<1>5. /\ abStack' \in [{"drain", "detached"} -> Seq(AbFrames)]
      /\ \A u \in {"drain", "detached"} : u # t => abStack'[u] = abStack[u]
      /\ abStack'[t] = T
  BY <1>1, <1>3, <1>4 DEF AbPlaces
<1>6. \A i \in DOMAIN abStack'["drain"] : abStack'["drain"][i].event \in IF i = 1 THEN AbTops ELSE AbNested
  <2>1. CASE t = "drain"
    <3> SUFFICES ASSUME NEW i \in DOMAIN T PROVE T[i].event \in IF i = 1 THEN AbTops ELSE AbNested
      BY <1>5, <2>1
    <3>1. CASE i \in 1 .. n
      <4>1. S[i].event \in IF i = 1 THEN AbTops ELSE AbNested
        BY <1>1, <1>3, <2>1, <3>1 DEF AbPlaces
      <4> QED BY <1>4, <3>1, <4>1
    <3>2. CASE i = n + 1 /\ T[i].event \in AbNested
      <4>1. n \in Nat \ {0}
        BY <1>1
      <4> HIDE DEF n
      <4>2. i # 1
        BY <3>2, <4>1
      <4> QED BY <3>2, <4>2
    <3> QED BY <1>4, <3>1, <3>2
  <2>2. CASE t = "detached"
    BY <1>3, <1>5, <2>2 DEF AbPlaces
  <2> QED BY <2>1, <2>2
<1>7. \A i \in DOMAIN abStack'["detached"] : abStack'["detached"][i].event \in AbNested
  <2>1. CASE t = "detached"
    <3> SUFFICES ASSUME NEW i \in DOMAIN T PROVE T[i].event \in AbNested
      BY <1>5, <2>1
    <3>1. CASE i \in 1 .. n
      <4>1. S[i].event \in AbNested
        BY <1>1, <1>3, <2>1, <3>1 DEF AbPlaces
      <4> QED BY <1>4, <3>1, <4>1
    <3> QED BY <1>4, <3>1
  <2>2. CASE t = "drain"
    BY <1>3, <1>5, <2>2 DEF AbPlaces
  <2> QED BY <2>1, <2>2
<1>8. \A u \in {"drain", "detached"} : \A i \in DOMAIN abStack'[u] : IsInjective(abStack'[u][i].left)
  <2> SUFFICES ASSUME NEW u \in {"drain", "detached"}, NEW i \in DOMAIN abStack'[u] PROVE IsInjective(abStack'[u][i].left)
    OBVIOUS
  <2>1. CASE u = t
    BY <1>4, <1>5, <2>1
  <2>2. CASE u # t
    BY <1>3, <1>5, <2>2 DEF AbPlaces
  <2> QED BY <2>1, <2>2
<1>9. abHeard' \in [AbListeners -> Seq(AbTops \cup AbNested)]
  <2>1. top.event \in AbTops \cup AbNested /\ top.left \in Seq(AbListeners)
    BY <1>1 DEF AbFrames
  <2> DEFINE s == top.left[1]
             v == top.event
             h == Append(abHeard[s], v)
  <2>2. s \in AbListeners
    BY <1>1, <2>1, AbTailIs
  <2>3. abHeard \in [AbListeners -> Seq(AbTops \cup AbNested)]
    BY <1>3 DEF AbPlaces
  <2>4. abHeard' = [abHeard EXCEPT ![s] = h]
    BY <1>1
  <2> HIDE DEF s, v
  <2>5. abHeard[s] \in Seq(AbTops \cup AbNested) /\ v \in AbTops \cup AbNested
    BY <2>1, <2>2, <2>3 DEF v
  <2>6. h \in Seq(AbTops \cup AbNested)
    BY <2>5, AppendProperties
  <2> HIDE DEF h
  <2> QED BY <2>2, <2>3, <2>4, <2>6
<1>10. AbPlaces'
  BY <1>2, <1>3, <1>5, <1>6, <1>7, <1>8, <1>9 DEF AbPlaces
<1>11. ToTypeOK'
  BY <1>2, ToAssumption DEF ToInv, ToPlaces, ToTypeOK, lzVars
<1> QED BY <1>10, <1>11

LEMMA AbHandleNestedKeeps ==
  ASSUME ToInv, NEW t \in {"drain", "detached"}, AbHandle(t), t = "detached" \/ Len(abStack[t]) # 1
  PROVE  ToInv'
<1> DEFINE S == abStack[t]
           T == abStack'[t]
           n == Len(S)
           top == S[n]
<1>1. /\ S \in Seq(AbFrames) /\ n \in Nat \ {0} /\ DOMAIN S = 1 .. n
      /\ top \in AbFrames /\ IsInjective(top.left) /\ top.left # <<>> /\ AbGoesDeeper(S, T)
      /\ abStack' = [abStack EXCEPT ![t] = T]
      /\ abHeard' = [abHeard EXCEPT ![top.left[1]] = Append(@, top.event)]
  BY AbHandleShape
<1>2. UNCHANGED <<toPhase, toContext, toRan, toTouched, abQueue>>
  BY DEF AbHandle, toOwnVars
<1>3. top.event \in AbNested
  <2>1. CASE t = "detached"
    <3>1. \A i \in DOMAIN abStack["detached"] : abStack["detached"][i].event \in AbNested
      BY DEF ToInv, AbPlaces
    <3>2. n \in DOMAIN S
      <4>1. n \in Nat \ {0} /\ DOMAIN S = 1 .. n
        BY <1>1
      <4> HIDE DEF n, S
      <4> QED BY <4>1
    <3> QED BY <2>1, <3>1, <3>2
  <2>2. CASE t = "drain"
    <3>1. n # 1 /\ n \in DOMAIN abStack["drain"]
      <4>1. n # 1
        BY <2>2, Zenon
      <4>2. n \in DOMAIN S
        <5> HIDE DEF n, S
        <5> QED BY <1>1
      <4> QED BY <2>2, <4>1, <4>2
    <3>2. \A i \in DOMAIN abStack["drain"] : i # 1 => abStack["drain"][i].event \in AbNested
      BY DEF ToInv, AbPlaces
    <3> HIDE DEF n
    <3> QED BY <2>2, <3>1, <3>2
  <2> QED BY <2>1, <2>2
<1>4. top.left[1] \in AbListeners
  BY <1>1, AbTailIs DEF AbFrames
<1>5. \E s \in AbListeners, v \in AbNested : abHeard' = [abHeard EXCEPT ![s] = Append(@, v)]
  BY <1>1, <1>3, <1>4
<1>6. /\ abStack'["drain"] # <<>> <=> abStack["drain"] # <<>>
      /\ abStack["drain"] # <<>> => abStack'["drain"][1] = abStack["drain"][1]
  <2>1. abStack \in [{"drain", "detached"} -> Seq(AbFrames)]
    BY DEF ToInv, AbPlaces
  <2>2. CASE t = "detached"
    BY <1>1, <2>1, <2>2
  <2>3. CASE t = "drain"
    <3>a. n # 1
      BY <2>3, Zenon
    <3>1. 1 \in 1 .. n - 1
      <4>1. n \in Nat \ {0}
        BY <1>1
      <4> HIDE DEF n
      <4> QED BY <3>a, <4>1
    <3>2. T # <<>> /\ T[1] = S[1]
      BY <1>1, <3>1 DEF AbGoesDeeper
    <3>3. S # <<>>
      BY <1>1, EmptySeq
    <3> QED BY <2>3, <3>2, <3>3
  <2> QED BY <2>2, <2>3
<1> QED BY <1>2, <1>5, <1>6, AbHandleKeepsPlaces, AbAside

(* The next listener hears the event that is delivered.                    *)
LEMMA AbHandleTopKeeps == ASSUME ToInv, AbHandle("drain"), Len(abStack["drain"]) = 1 PROVE ToInv'
<1> PICK v : v = abStack["drain"][1].event OBVIOUS
<1> PICK p : p = abStack["drain"][1].left[1] OBVIOUS
<1> DEFINE T == abStack'["drain"]
           left == abStack["drain"][1].left
           n == Len(abHeard[p])
<1>1. /\ abStack["drain"] # <<>> /\ left \in Seq(AbListeners) /\ IsInjective(left) /\ left # <<>>
      /\ T # <<>> /\ T[1].event = v /\ T[1].left = Tail(left)
      /\ abHeard' = [abHeard EXCEPT ![p] = Append(@, v)]
  <2> DEFINE S == abStack["drain"]
  <2>1. /\ S \in Seq(AbFrames) /\ S[Len(S)] \in AbFrames /\ IsInjective(S[Len(S)].left) /\ S[Len(S)].left # <<>>
        /\ AbGoesDeeper(S, T)
        /\ abHeard' = [abHeard EXCEPT ![S[Len(S)].left[1]] = Append(@, S[Len(S)].event)]
    BY AbHandleShape
  <2>2. Len(S) = 1 OBVIOUS
  <2>3. S # <<>>
    BY DEF AbHandle
  <2>4. T # <<>> /\ T[1].event = S[1].event /\ T[1].left = Tail(S[1].left)
    BY <2>1, <2>2 DEF AbGoesDeeper
  <2> QED BY <2>1, <2>2, <2>3, <2>4 DEF AbFrames
<1>2. UNCHANGED <<toPhase, toContext, toRan, toTouched, abQueue>>
  BY DEF AbHandle, toOwnVars
<1>3. v \in AbTops /\ AbIsOpen(v) /\ ~AbIsPast(v) /\ v.end # "none"
  BY <1>1, AbCurrent, AbOpenIsNew, AbTopIs
<1>4. /\ p \in AbListeners /\ p = left[1] /\ 1 \in DOMAIN left
      /\ \A m \in DOMAIN Tail(left) : m + 1 \in DOMAIN left /\ Tail(left)[m] = left[m + 1] /\ left[m + 1] # p
  BY <1>1, AbTailIs
<1>5. /\ n \in Nat /\ DOMAIN abHeard[p] = 1 .. n /\ DOMAIN abHeard'[p] = 1 .. n + 1
      /\ abHeard'[p][n + 1] = v /\ \A i \in 1 .. n : abHeard'[p][i] = abHeard[p][i]
      /\ \A s \in AbListeners : s # p => abHeard'[s] = abHeard[s]
  <2>1. abHeard \in [AbListeners -> Seq(AbTops \cup AbNested)]
    BY DEF ToInv, AbPlaces
  <2>2. abHeard[p] \in Seq(AbTops \cup AbNested) /\ abHeard'[p] = Append(abHeard[p], v)
    BY <1>1, <1>4, <2>1
  <2>3. \A s \in AbListeners : s # p => abHeard'[s] = abHeard[s]
    BY <1>1, <2>1
  <2>4. v \in AbTops \cup AbNested
    BY <1>3
  <2>5. /\ Len(Append(abHeard[p], v)) = n + 1 /\ Append(abHeard[p], v) \in Seq(AbTops \cup AbNested)
        /\ Append(abHeard[p], v)[n + 1] = v /\ \A i \in 1 .. n : Append(abHeard[p], v)[i] = abHeard[p][i]
    <3> DEFINE h == abHeard[p]
               E == AbTops \cup AbNested
    <3>1. h \in Seq(E) /\ v \in E
      BY <2>2, <2>4
    <3> HIDE DEF h, E
    <3>2. /\ Len(Append(h, v)) = Len(h) + 1 /\ Append(h, v) \in Seq(E)
          /\ Append(h, v)[Len(h) + 1] = v /\ \A i \in 1 .. Len(h) : Append(h, v)[i] = h[i]
      BY <3>1, AppendProperties
    <3> QED BY <3>2 DEF h, E
  <2>6. n \in Nat /\ DOMAIN abHeard[p] = 1 .. n
    BY <2>2, LenProperties
  <2>7. DOMAIN Append(abHeard[p], v) = 1 .. n + 1
    BY <2>5, LenProperties
  <2> HIDE DEF n
  <2> QED BY <2>2, <2>3, <2>5, <2>6, <2>7
<1> HIDE DEF n
<1>6. \A s \in AbListeners : \A i \in DOMAIN abHeard'[s] :
        \/ i \in DOMAIN abHeard[s] /\ abHeard'[s][i] = abHeard[s][i]
        \/ s = p /\ i = n + 1 /\ abHeard'[s][i] = v /\ \A j \in DOMAIN abHeard'[s] : j = i \/ (j < i /\ j \in DOMAIN abHeard[s])
  <2> SUFFICES ASSUME NEW s \in AbListeners, NEW i \in DOMAIN abHeard'[s]
               PROVE  \/ i \in DOMAIN abHeard[s] /\ abHeard'[s][i] = abHeard[s][i]
                      \/ /\ s = p /\ i = n + 1 /\ abHeard'[s][i] = v
                         /\ \A j \in DOMAIN abHeard'[s] : j = i \/ (j < i /\ j \in DOMAIN abHeard[s])
    OBVIOUS
  <2>1. CASE s # p
    BY <1>5, <2>1
  <2>2. CASE s = p /\ i \in 1 .. n
    BY <1>5, <2>2
  <2>3. CASE s = p /\ i = n + 1
    <3>1. n \in Nat
      BY <1>5
    <3>2. \A j \in 1 .. n + 1 : j = n + 1 \/ (j < n + 1 /\ j \in 1 .. n)
      BY <3>1
    <3> QED BY <1>5, <2>3, <3>2
  <2>4. s = p => i \in 1 .. n \/ i = n + 1
    <3>1. n \in Nat /\ (s = p => i \in 1 .. n + 1)
      BY <1>5
    <3> QED BY <3>1
  <2> QED BY <2>1, <2>2, <2>3, <2>4
<1>15. /\ \A i, j \in DOMAIN abHeard'[p] : i < j => i # n + 1
       /\ \A i \in DOMAIN abHeard[p] : i < n + 1
  <2>1. n \in Nat /\ DOMAIN abHeard[p] = 1 .. n /\ DOMAIN abHeard'[p] = 1 .. n + 1
    BY <1>5
  <2>2. \A i, j \in 1 .. n + 1 : i < j => i # n + 1
    BY <2>1
  <2>3. \A i \in 1 .. n : i < n + 1
    BY <2>1
  <2> QED BY <2>1, <2>2, <2>3
<1>7. \A i \in DOMAIN abHeard[p] : abHeard[p][i] # v
  BY <1>1, <1>4 DEF ToInv, AbHeardSoFar
<1>8. \A s \in AbListeners : \A i, j \in DOMAIN abHeard[s] : i < j /\ abHeard[s][i] = v => abHeard[s][j].end = "none"
  BY <1>1 DEF ToInv, AbHeardSoFar
<1>9. \A e : (AbIsOpen(e) <=> AbIsOpen(e)') /\ (AbIsPast(e) <=> AbIsPast(e)') /\ (AbDelivers(e) <=> AbDelivers(e)')
  BY <1>1, <1>2 DEF AbIsOpen, AbIsPast, AbDelivers, ToHasRun
<1>10. ToPlaces'
  BY <1>2, AbHandleKeepsPlaces DEF ToInv, ToPlaces, ToCallIs, ToHasRun
<1>11. AbOneOpen'
  <2>1. UNCHANGED <<toPhase, toRan, abQueue>> /\ abStack'["drain"][1].event = abStack["drain"][1].event
    BY <1>1, <1>2
  <2>2. AbOneOpen /\ abStack["drain"] # <<>>
    BY <1>1 DEF ToInv
  <2> HIDE DEF T, left
  <2>3. \A i \in DOMAIN abQueue' : AbIsOpen(abQueue[i])'
    BY <2>1, <2>2 DEF AbOneOpen, AbIsOpen, ToHasRun
  <2>4. AbIsOpen(abStack["drain"][1].event)'
    BY <2>1, <2>2 DEF AbOneOpen, AbIsOpen, ToHasRun
  <2>5. /\ \A i, j \in DOMAIN abQueue' : abQueue'[i].of = abQueue'[j].of => i = j
        /\ \A i \in DOMAIN abQueue' : abQueue'[i].of # abStack'["drain"][1].event.of
    BY <2>1, <2>2 DEF AbOneOpen
  <2> QED BY <2>3, <2>4, <2>5 DEF AbOneOpen
<1>12. AbHeardSoFar'
  <2>1. \A s \in AbListeners : \A i \in DOMAIN abHeard'[s] :
          abHeard'[s][i].end # "none" => (AbIsPast(abHeard[s][i]) \/ AbDelivers(abHeard[s][i]))'
    <3> SUFFICES ASSUME NEW s \in AbListeners, NEW i \in DOMAIN abHeard'[s], abHeard'[s][i].end # "none"
          PROVE  (AbIsPast(abHeard[s][i]) \/ AbDelivers(abHeard[s][i]))'
      OBVIOUS
    <3>1. PICK e : e = abHeard'[s][i] OBVIOUS
    <3>2. AbIsPast(e)' \/ AbDelivers(e)'
      <4>1. CASE i \in DOMAIN abHeard[s] /\ e = abHeard[s][i]
        <5>1. AbIsPast(abHeard[s][i]) \/ AbDelivers(abHeard[s][i])
          BY <3>1, <4>1 DEF ToInv, AbHeardSoFar
        <5>2. AbIsPast(e) \/ AbDelivers(e)
          BY <4>1, <5>1, Zenon
        <5> QED BY <1>9, <5>2
      <4>2. CASE e = v
        <5>1. AbDelivers(e)
          BY <1>1, <4>2 DEF AbDelivers
        <5> QED BY <1>9, <5>1
      <4> QED BY <1>6, <3>1, <4>1, <4>2
    <3> QED BY <3>1, <3>2
  <2>2. ASSUME NEW m \in DOMAIN Tail(left), NEW i \in DOMAIN abHeard'[Tail(left)[m]] PROVE abHeard'[Tail(left)[m]][i] # v
    <3>1. PICK u \in AbListeners : u = Tail(left)[m] /\ u = left[m + 1] /\ m + 1 \in DOMAIN left /\ u # p
      <4>1. Tail(left)[m] = left[m + 1] /\ m + 1 \in DOMAIN left /\ left[m + 1] # p
        BY <1>4, <2>2
      <4>2. left[m + 1] \in AbListeners
        <5>1. left \in Seq(AbListeners)
          BY <1>1
        <5> HIDE DEF left
        <5> QED BY <4>1, <5>1
      <4> QED BY <4>1, <4>2
    <3>2. abHeard'[u] = abHeard[u]
      BY <1>5, <3>1
    <3>3. \A k \in DOMAIN abHeard[u] : abHeard[u][k] # v
      BY <1>1, <3>1 DEF ToInv, AbHeardSoFar
    <3> QED BY <2>2, <3>1, <3>2, <3>3
  <2>3. ASSUME NEW s \in AbListeners, NEW i \in DOMAIN abHeard'[s], NEW j \in DOMAIN abHeard'[s], i < j, abHeard'[s][i] = v
        PROVE  abHeard'[s][j].end = "none"
    <3>1. CASE s # p
      <4>1. abHeard'[s] = abHeard[s]
        BY <1>5, <3>1
      <4> QED BY <1>8, <2>3, <4>1
    <3>2. CASE s = p
      <4>1. i = n + 1
        BY <1>6, <1>7, <2>3, <3>2
      <4> QED BY <1>15, <2>3, <3>2, <4>1
    <3> QED BY <3>1, <3>2
  <2> HIDE DEF left, T
  <2> DEFINE d == T[1]
  <2>4. d.left = Tail(left) /\ d.event = v
    BY <1>1
  <2> HIDE DEF d
  <2>5. \A m \in DOMAIN d.left : \A i \in DOMAIN abHeard'[d.left[m]] : abHeard'[d.left[m]][i] # d.event
    BY <2>2, <2>4
  <2>6. \A s \in AbListeners : \A i, j \in DOMAIN abHeard'[s] : i < j /\ abHeard'[s][i] = d.event => abHeard'[s][j].end = "none"
    BY <2>3, <2>4
  <2> QED BY <2>1, <2>5, <2>6 DEF AbHeardSoFar, T, d
<1>13. ToStoriesInOrder'
  <2> SUFFICES ASSUME NEW s \in AbListeners, NEW c \in ToCalls, NEW i \in DOMAIN abHeard'[s], NEW j \in DOMAIN abHeard'[s],
                      i < j, ToTellsOf(abHeard'[s][i], c), ToTellsOf(abHeard'[s][j], c)
        PROVE  abHeard'[s][i].kind = "started" /\ abHeard'[s][j].kind \in {"completed", "failed"}
    BY DEF ToStoriesInOrder, AbListeners, ToTellsOf
  <2>1. CASE i \in DOMAIN abHeard[s] /\ abHeard'[s][i] = abHeard[s][i] /\ j \in DOMAIN abHeard[s] /\ abHeard'[s][j] = abHeard[s][j]
    BY <2>1 DEF ToInv, ToStoriesInOrder, AbListeners
  <2>2. CASE s = p /\ j = n + 1 /\ abHeard'[s][j] = v /\ i \in DOMAIN abHeard[s] /\ abHeard'[s][i] = abHeard[s][i]
    <3>1. PICK e : e = abHeard[s][i] /\ e = abHeard'[s][i]
      BY <2>2
    <3>2. e \in AbTops /\ e # v
      BY <1>7, <2>2, <3>1, AbEventsHeard DEF ToTellsOf
    <3>3. AbIsPast(abHeard[s][i]) \/ AbDelivers(abHeard[s][i])
      BY <2>2, <3>1 DEF ToInv, AbHeardSoFar, ToTellsOf
    <3>4. AbIsPast(e) \/ AbDelivers(e)
      BY <3>1, <3>3, Zenon
    <3>5. AbIsPast(e)
      BY <3>2, <3>4 DEF AbDelivers
    <3>6. v.of = c.id /\ e.of = c.id
      BY <2>2, <3>1 DEF ToTellsOf
    <3>7. /\ toPhase[c] \notin {"idle", "starting"}
          /\ e.kind # "started" => toPhase[c] \in {"returned", "threw"}
          /\ toPhase[c] = IF v.kind = "started" THEN "starting" ELSE "ending"
      BY <1>3, <3>5, <3>6 DEF AbIsPast, AbIsOpen
    <3>8. e.kind = "started" /\ v.kind # "started"
      BY <3>7
    <3>9. v.kind \in {"completed", "failed"}
      BY <1>3, <3>8, AbTopIs
    <3> QED BY <2>2, <3>1, <3>8, <3>9
  <2>3. s = p => i # n + 1
    BY <1>15
  <2>4. (j \in DOMAIN abHeard[s] /\ abHeard'[s][j] = abHeard[s][j]) \/ (s = p /\ j = n + 1 /\ abHeard'[s][j] = v)
    BY <1>6
  <2>5. i \in DOMAIN abHeard[s] /\ abHeard'[s][i] = abHeard[s][i]
    BY <1>6, <2>3
  <2> QED BY <2>1, <2>2, <2>4, <2>5
<1>14. AbSameOrder'
  <2> SUFFICES ASSUME NEW s \in AbListeners, NEW u \in AbListeners, NEW i \in DOMAIN abHeard'[s], NEW j \in DOMAIN abHeard'[s],
                      i < j, abHeard'[s][i].end # "none", abHeard'[s][j].end # "none",
                      NEW k \in DOMAIN abHeard'[u], NEW l \in DOMAIN abHeard'[u],
                      abHeard'[u][k] = abHeard'[s][i], abHeard'[u][l] = abHeard'[s][j]
        PROVE  k < l
    BY DEF AbSameOrder, AbListeners
  <2>1. i \in DOMAIN abHeard[s] /\ abHeard'[s][i] = abHeard[s][i]
    <3>1. s = p => i # n + 1
      BY <1>15
    <3> QED BY <1>6, <3>1
  <2>2. AbSameOrder
    BY DEF ToInv
  <2>3. CASE j \in DOMAIN abHeard[s] /\ abHeard'[s][j] = abHeard[s][j]
    <3>1. abHeard[s][i] # v
      BY <1>8, <2>1, <2>3
    <3>2. k \in DOMAIN abHeard[u] /\ abHeard'[u][k] = abHeard[u][k]
      BY <1>6, <2>1, <3>1
    <3>3. CASE l \in DOMAIN abHeard[u] /\ abHeard'[u][l] = abHeard[u][l]
      BY <2>1, <2>2, <2>3, <3>2, <3>3 DEF AbSameOrder, AbListeners
    <3>4. CASE u = p /\ l = n + 1 /\ abHeard'[u][l] = v
      BY <1>15, <3>2, <3>4
    <3> QED BY <1>6, <3>3, <3>4
  <2>4. CASE s = p /\ j = n + 1 /\ abHeard'[s][j] = v
    <3>1. abHeard[s][i] # v
      BY <1>7, <2>1, <2>4
    <3>2. k \in DOMAIN abHeard[u] /\ abHeard'[u][k] = abHeard[u][k]
      BY <1>6, <2>1, <3>1
    <3>3. CASE u = p
      <4>1. l = n + 1
        BY <1>6, <1>7, <2>4, <3>3
      <4> QED BY <1>15, <3>2, <3>3, <4>1
    <3>4. CASE u # p
      <4>1. abHeard'[u] = abHeard[u]
        BY <1>5, <3>4
      <4>2. abHeard[u][l] = v /\ abHeard[u][k].end # "none" /\ abHeard[u][k] # v
        BY <2>1, <2>4, <3>1, <3>2, <4>1
      <4>3. ~(l < k) /\ l # k
        BY <1>8, <3>2, <4>1, <4>2
      <4>4. abHeard[u] \in Seq(AbTops \cup AbNested)
        BY DEF ToInv, AbPlaces
      <4>5. k \in Nat /\ l \in Nat
        BY <3>2, <4>1, <4>4, LenProperties
      <4> QED BY <4>3, <4>5
    <3> QED BY <3>3, <3>4
  <2> QED BY <1>6, <2>3, <2>4
<1> QED BY <1>10, <1>11, <1>12, <1>13, <1>14, AbHandleKeepsPlaces DEF ToInv

LEMMA AbReturnKeepsPlaces ==
  ASSUME ToInv, NEW t \in {"drain", "detached"}, AbReturn(t)
  PROVE  /\ AbPlaces' /\ abStack[t] # <<>> /\ abStack[t] \in Seq(AbFrames) /\ Last(abStack[t]) = abStack[t][Len(abStack[t])]
         /\ Len(abStack[t]) \in Nat \ {0} /\ DOMAIN abStack[t] = 1 .. Len(abStack[t])
         /\ Len(abStack'[t]) = Len(abStack[t]) - 1 /\ abStack'[t] \in Seq(AbFrames)
         /\ \A i \in 1 .. Len(abStack[t]) - 1 : abStack'[t][i] = abStack[t][i]
         /\ \A u \in {"drain", "detached"} : u # t => abStack'[u] = abStack[u]
<1> DEFINE S == abStack[t]
           T == abStack'[t]
           n == Len(S)
<1>1. AbPlaces
  BY DEF ToInv
<1>2. abStack \in [{"drain", "detached"} -> Seq(AbFrames)]
  BY <1>1 DEF AbPlaces
<1>3. S \in Seq(AbFrames) /\ S # <<>> /\ T = Front(S) /\ \A u \in {"drain", "detached"} : u # t => abStack'[u] = abStack[u]
  BY <1>2 DEF AbReturn
<1>4. UNCHANGED <<abQueue, abHeard>>
  BY DEF AbReturn
<1> HIDE DEF S, T
<1>5. /\ Len(S) \in Nat \ {0} /\ DOMAIN S = 1 .. n /\ Last(S) = S[n]
      /\ T \in Seq(AbFrames) /\ DOMAIN T = 1 .. n - 1 /\ Len(T) = n - 1 /\ \A i \in 1 .. n - 1 : T[i] = S[i]
  BY <1>3, FrontIs
<1> HIDE DEF n
<1>6. \A i \in 1 .. n - 1 : i \in 1 .. n
  BY <1>5 DEF n
<1>7. abStack' \in [{"drain", "detached"} -> Seq(AbFrames)]
  BY <1>2, <1>5 DEF AbReturn, T
<1>8. \A i \in DOMAIN abStack'["drain"] : abStack'["drain"][i].event \in IF i = 1 THEN AbTops ELSE AbNested
  <2>1. CASE t = "drain"
    BY <1>1, <1>5, <1>6, <2>1 DEF AbPlaces, S, T
  <2>2. CASE t = "detached"
    BY <1>1, <1>3, <2>2 DEF AbPlaces
  <2> QED BY <2>1, <2>2
<1>9. \A i \in DOMAIN abStack'["detached"] : abStack'["detached"][i].event \in AbNested
  <2>1. CASE t = "detached"
    BY <1>1, <1>5, <1>6, <2>1 DEF AbPlaces, S, T
  <2>2. CASE t = "drain"
    BY <1>1, <1>3, <2>2 DEF AbPlaces
  <2> QED BY <2>1, <2>2
<1>10. \A u \in {"drain", "detached"} : \A i \in DOMAIN abStack'[u] : IsInjective(abStack'[u][i].left)
  <2> SUFFICES ASSUME NEW u \in {"drain", "detached"}, NEW i \in DOMAIN abStack'[u] PROVE IsInjective(abStack'[u][i].left)
    OBVIOUS
  <2>1. CASE u = t
    <3>1. i \in 1 .. n /\ abStack'[u][i] = S[i]
      BY <1>5, <1>6, <2>1 DEF T
    <3>2. IsInjective(S[i].left)
      BY <1>1, <1>5, <3>1 DEF AbPlaces, S
    <3> QED BY <3>1, <3>2
  <2>2. CASE u # t
    BY <1>1, <1>3, <2>2 DEF AbPlaces
  <2> QED BY <2>1, <2>2
<1>11. AbPlaces'
  BY <1>1, <1>4, <1>7, <1>8, <1>9, <1>10 DEF AbPlaces
<1> QED BY <1>3, <1>5, <1>11 DEF S, T, n

LEMMA AbReturnNestedKeeps ==
  ASSUME ToInv, NEW t \in {"drain", "detached"}, AbReturn(t), t = "detached" \/ Len(abStack[t]) # 1
  PROVE  ToInv'
<1> DEFINE S == abStack[t]
           T == abStack'[t]
           n == Len(S)
           e == Last(S).event
<1>1. /\ AbPlaces' /\ S # <<>> /\ S \in Seq(AbFrames) /\ Last(S) = S[n] /\ n \in Nat \ {0} /\ DOMAIN S = 1 .. n
      /\ Len(T) = n - 1 /\ T \in Seq(AbFrames) /\ \A i \in 1 .. n - 1 : T[i] = S[i]
      /\ \A u \in {"drain", "detached"} : u # t => abStack'[u] = abStack[u]
  BY AbReturnKeepsPlaces
<1>2. /\ UNCHANGED <<abOn, abQueue, abHeard, abTroubles, lzVars, toTools, toScope, toContext, toRan, toTouched, toChanges>>
      /\ toPhase' = [c \in ToCalls |-> IF c.id = e.of /\ e.end # "none" THEN e.end ELSE toPhase[c]]
  BY DEF AbReturn
<1>3. e \in AbNested
  <2>1. CASE t = "detached"
    BY <1>1, <2>1 DEF ToInv, AbPlaces
  <2>2. CASE t = "drain"
    <3>1. n # 1 /\ n \in DOMAIN abStack["drain"]
      <4>1. n # 1
        BY <2>2, Zenon
      <4>2. n \in DOMAIN S
        <5> HIDE DEF n, S
        <5> QED BY <1>1
      <4> QED BY <2>2, <4>1, <4>2
    <3>2. \A i \in DOMAIN abStack["drain"] : i # 1 => abStack["drain"][i].event \in AbNested
      BY DEF ToInv, AbPlaces
    <3> HIDE DEF n
    <3> QED BY <1>1, <2>2, <3>1, <3>2
  <2> QED BY <2>1, <2>2
<1>4. e.end = "none"
  BY <1>3, AbTopIs
<1> HIDE DEF e
<1>5. toPhase' = toPhase
  <2>1. toPhase \in [ToCalls -> ToPhases]
    BY DEF ToInv, ToPlaces
  <2> QED BY <1>2, <1>4, <2>1
<1>6. ToTypeOK'
  BY <1>2, <1>5 DEF ToInv, ToPlaces, ToTypeOK, lzVars
<1>7. /\ abStack'["drain"] # <<>> <=> abStack["drain"] # <<>>
      /\ abStack["drain"] # <<>> => abStack'["drain"][1] = abStack["drain"][1]
  <2>2. CASE t = "detached"
    BY <1>1, <2>2
  <2>3. CASE t = "drain"
    <3>a. n # 1
      BY <2>3, Zenon
    <3> HIDE DEF n, T, S
    <3>1. 1 \in 1 .. n - 1 /\ n - 1 # 0
      BY <1>1, <3>a
    <3>2. T # <<>> /\ T[1] = S[1]
      BY <1>1, <3>1, EmptySeq
    <3> QED BY <1>1, <2>3, <3>2 DEF S, T
  <2> QED BY <2>2, <2>3
<1> QED BY <1>1, <1>2, <1>5, <1>6, <1>7, AbAside

(* The delivery is over, and its call goes on.                             *)
LEMMA AbReturnTopKeeps == ASSUME ToInv, AbReturn("drain"), Len(abStack["drain"]) = 1 PROVE ToInv'
<1> PICK v : v = abStack["drain"][1].event OBVIOUS
<1>1. /\ AbPlaces' /\ abStack["drain"] # <<>> /\ abStack'["drain"] = <<>>
      /\ Last(abStack["drain"]).event = v
  <2>1. /\ AbPlaces' /\ abStack["drain"] # <<>> /\ Last(abStack["drain"]) = abStack["drain"][Len(abStack["drain"])]
        /\ Len(abStack'["drain"]) = Len(abStack["drain"]) - 1 /\ abStack'["drain"] \in Seq(AbFrames)
    BY AbReturnKeepsPlaces
  <2>2. Len(abStack'["drain"]) = 0
    BY <2>1
  <2> QED BY <2>1, <2>2, EmptySeq
<1>2. /\ UNCHANGED <<abOn, abQueue, abHeard, abTroubles, lzVars, toTools, toScope, toContext, toRan, toTouched, toChanges>>
      /\ toPhase' = [c \in ToCalls |-> IF c.id = v.of /\ v.end # "none" THEN v.end ELSE toPhase[c]]
  BY <1>1 DEF AbReturn
<1>3. /\ v \in AbTops /\ AbIsOpen(v) /\ v.end # "none"
      /\ <<v.kind, v.end>> \in {<<"started", "check">>, <<"completed", "returned">>, <<"failed", "threw">>}
  BY <1>1, AbCurrent, AbTopIs
<1>4. /\ toPhase \in [ToCalls -> ToPhases] /\ toPhase' \in [ToCalls -> ToPhases]
      /\ \A c \in ToCalls : c.id = v.of => toPhase'[c] = v.end
      /\ \A c \in ToCalls : c.id # v.of => toPhase'[c] = toPhase[c]
  <2>1. toPhase \in [ToCalls -> ToPhases]
    BY DEF ToInv, ToPlaces
  <2>2. v.end \in ToPhases
    BY <1>3 DEF ToPhases
  <2> QED BY <1>2, <1>3, <2>1, <2>2
<1>5. \A c \in ToCalls : c.id = v.of =>
        /\ toPhase[c] = IF v.kind = "started" THEN "starting" ELSE "ending"
        /\ v.kind = "completed" => ToHasRun(c)
  BY <1>3 DEF AbIsOpen
<1>6. ToPlaces'
  <2>1. ToTypeOK'
    BY <1>2, <1>4 DEF ToInv, ToPlaces, ToTypeOK, ToPhases, lzVars
  <2>2. ASSUME NEW c \in ToCalls PROVE ToCallIs(c)'
    <3>1. ToCallIs(c)
      BY DEF ToInv, ToPlaces
    <3>2. CASE c.id # v.of
      BY <1>2, <1>4, <3>1, <3>2 DEF ToCallIs, ToHasRun
    <3>3. CASE c.id = v.of
      <4>1. toPhase'[c] = v.end
        BY <1>4, <3>3
      <4>2. toPhase'[c] \in {"run", "returned"} => ToHasRun(c)'
        <5>1. toPhase'[c] \in {"run", "returned"} => v.kind = "completed"
          BY <1>3, <4>1
        <5> QED BY <1>2, <1>5, <3>3, <5>1 DEF ToHasRun
      <4>3. ASSUME NEW x \in toTouched, x[1] = c
            PROVE  toPhase'[c] \notin {"idle", "starting", "check"} /\ PpCheck(toContext[c], c.agent, x[2])
        <5>1. toPhase[c] \notin {"idle", "starting", "check"} /\ PpCheck(toContext[c], c.agent, x[2])
          BY <3>1, <4>3 DEF ToCallIs
        <5>2. v.kind # "started"
          BY <1>5, <3>3, <5>1
        <5> QED BY <1>3, <4>1, <5>1, <5>2
      <4> QED BY <1>2, <4>2, <4>3 DEF ToCallIs
    <3> QED BY <3>2, <3>3
  <2> QED BY <1>2, <1>4, <2>1, <2>2 DEF ToInv, ToPlaces
<1>7. AbOneOpen'
  <2>1. \A i \in DOMAIN abQueue : AbIsOpen(abQueue[i])'
    <3> SUFFICES ASSUME NEW i \in DOMAIN abQueue PROVE AbIsOpen(abQueue[i])' OBVIOUS
    <3>1. PICK e : e = abQueue[i] /\ e = abQueue'[i]
      BY <1>2
    <3>2. e.of # v.of
      BY <1>1, <3>1 DEF ToInv, AbOneOpen
    <3>3. AbIsOpen(e)
      <4>1. AbIsOpen(abQueue[i])
        BY DEF ToInv, AbOneOpen
      <4> QED BY <3>1, <4>1, Zenon
    <3>4. AbIsOpen(e)'
      BY <1>2, <1>4, <3>2, <3>3 DEF AbIsOpen, ToHasRun
    <3> QED BY <3>1, <3>4
  <2> QED BY <1>1, <1>2, <2>1 DEF ToInv, AbOneOpen
<1>8. ASSUME NEW e \in AbTops, AbIsPast(e) \/ AbDelivers(e) PROVE AbIsPast(e)'
  <2> SUFFICES ASSUME NEW c \in ToCalls, c.id = e.of
               PROVE  /\ toPhase'[c] \notin {"idle", "starting"}
                      /\ e.kind # "started" => toPhase'[c] \in {"returned", "threw"}
    BY DEF AbIsPast
  <2>1. CASE AbDelivers(e)
    <3>1. e = v
      BY <2>1 DEF AbDelivers
    <3> QED BY <1>3, <1>4, <3>1
  <2>2. CASE AbIsPast(e)
    <3>1. /\ toPhase[c] \notin {"idle", "starting"}
          /\ e.kind # "started" => toPhase[c] \in {"returned", "threw"}
      BY <2>2 DEF AbIsPast
    <3>2. CASE c.id = v.of
      <4>1. toPhase[c] = "ending" /\ v.kind # "started" /\ e.kind = "started"
        BY <1>5, <3>1, <3>2
      <4> QED BY <1>3, <1>4, <3>2, <4>1
    <3>3. CASE c.id # v.of
      BY <1>4, <3>1, <3>3
    <3> QED BY <3>2, <3>3
  <2> QED BY <1>8, <2>1, <2>2
<1>9. AbHeardSoFar'
  <2>1. \A s \in AbListeners : \A i \in DOMAIN abHeard'[s] :
          abHeard'[s][i].end # "none" => (AbIsPast(abHeard[s][i]) \/ AbDelivers(abHeard[s][i]))'
    <3> SUFFICES ASSUME NEW s \in AbListeners, NEW i \in DOMAIN abHeard'[s], abHeard'[s][i].end # "none"
          PROVE  AbIsPast(abHeard[s][i])'
      OBVIOUS
    <3>1. i \in DOMAIN abHeard[s] /\ abHeard[s][i].end # "none"
      BY <1>2
    <3>2. PICK e \in AbTops : e = abHeard[s][i] /\ e = abHeard'[s][i]
      BY <1>2, <3>1, AbEventsHeard
    <3>3. AbIsPast(abHeard[s][i]) \/ AbDelivers(abHeard[s][i])
      BY <3>1 DEF ToInv, AbHeardSoFar
    <3>4. AbIsPast(e) \/ AbDelivers(e)
      BY <3>2, <3>3, Zenon
    <3>5. AbIsPast(e)'
      BY <1>8, <3>4
    <3> QED BY <3>2, <3>5
  <2> QED BY <1>1, <2>1 DEF AbHeardSoFar
<1>10. ToStoriesInOrder' /\ AbSameOrder'
  BY <1>2 DEF ToInv, ToStoriesInOrder, AbSameOrder
<1> QED BY <1>1, <1>6, <1>7, <1>9, <1>10 DEF ToInv

LEMMA ToInvInit == ToInit => ToInv
<1> SUFFICES ASSUME ToInit PROVE ToInv OBVIOUS
<1>1. DOMAIN <<>> = {} /\ \A A : <<>> \in Seq(A)
  BY EmptySeq
<1>2. /\ \A s \in AbListeners : abHeard[s] = <<>> /\ DOMAIN abHeard[s] = {}
      /\ abHeard \in [AbListeners -> Seq(AbTops \cup AbNested)]
  BY <1>1 DEF ToInit, AbListeners
<1>3. ToPlaces
  BY ToAssumption DEF ToInit, ToPlaces, ToTypeOK, ToPhases, ToCallIs
<1>4. abQueue = <<>> /\ abStack["drain"] = <<>> /\ abStack["detached"] = <<>>
  BY DEF ToInit
<1>5. AbPlaces
  <2>1. abStack \in [{"drain", "detached"} -> Seq(AbFrames)]
    BY <1>1 DEF ToInit
  <2> QED BY <1>1, <1>2, <1>4, <2>1 DEF AbPlaces
<1>6. AbOneOpen /\ AbHeardSoFar
  BY <1>1, <1>2, <1>4 DEF AbOneOpen, AbHeardSoFar
<1>7. ToStoriesInOrder /\ AbSameOrder
  BY <1>2 DEF ToStoriesInOrder, AbSameOrder, AbListeners
<1> QED BY <1>3, <1>5, <1>6, <1>7 DEF ToInv

LEMMA ToStutters ==
  ToInv /\ UNCHANGED <<toPhase, toContext, toRan, toTouched, abQueue, abStack, abHeard>> /\ ToTypeOK' => ToInv'
  BY ToCatalogKeeps

LEMMA ToInvNext == ToInv /\ (ToCatalogNext \/ LzNext \/ UNCHANGED toVars) => ToInv'
<1> SUFFICES ASSUME ToInv, ToCatalogNext \/ LzNext \/ UNCHANGED toVars PROVE ToInv' OBVIOUS
<1>1. ToTypeOK
  BY DEF ToInv, ToPlaces
<1>2. CASE UNCHANGED toVars
  BY <1>1, <1>2, ToStutters DEF ToTypeOK, toVars, toOwnVars, abVars, lzVars
<1>3. CASE LzNext
  <2>1. UNCHANGED <<toOwnVars, abVars>>
    BY <1>3 DEF LzNext, LzSearch, LzNewRun
  <2>2. lzSearches' \in 0 .. LzMaxSearches + 1
    <3>1. (lzSearches <= LzMaxSearches /\ lzSearches' = lzSearches + 1) \/ lzSearches' = 0
      <4>1. ASSUME NEW q, NEW r, lzSearches <= LzMaxSearches, LzSearch(<<q, r>>)
            PROVE  lzSearches <= LzMaxSearches /\ lzSearches' = lzSearches + 1
        BY <4>1, Zenon DEF LzSearch
      <4>2. LzNewRun => lzSearches' = 0
        BY DEF LzNewRun
      <4> QED BY <1>3, <4>1, <4>2, Zenon DEF LzNext
    <3> QED BY <1>1, <3>1, ToAssumption DEF ToTypeOK
  <2> QED BY <1>1, <2>1, <2>2, ToStutters DEF ToTypeOK, toOwnVars, abVars
<1>4. ASSUME NEW n \in ToNames, ToRegister(n) \/ ToUnregister(n) PROVE ToInv'
  <2>1. UNCHANGED <<toPhase, toContext, toRan, toTouched, abVars, lzVars>> /\ toTools' \subseteq ToNames /\ toChanges' \in 0 .. ToChanges
    BY <1>1, <1>4, ToAssumption DEF ToRegister, ToUnregister, ToTypeOK
  <2> QED BY <1>1, <2>1, ToStutters DEF ToTypeOK, abVars, lzVars
<1>5. ASSUME NEW a \in ToAgents, NEW s \in ToScopes, ToSetAgentScope(a, s) PROVE ToInv'
  <2>1. UNCHANGED <<toTools, toPhase, toContext, toRan, toTouched, abVars, lzVars>> /\ toChanges' \in 0 .. ToChanges
    BY <1>1, <1>5, ToAssumption DEF ToSetAgentScope, ToTypeOK
  <2> QED BY <1>1, <2>1, ToStutters DEF ToTypeOK, abVars, lzVars
<1>6. ASSUME NEW c \in ToCalls, ToStart(c) \/ ToLookUp(c) \/ ToFinish(c) \/ ToTouch(c, "read") \/ ToTouch(c, "write") PROVE ToInv'
  BY <1>6, ToStartKeeps, ToLookUpKeeps, ToFinishKeeps, ToTouchKeeps
<1>7. ASSUME NEW s \in ToSet(AbOrder), AbSubscribe(s) \/ AbUnsubscribe(s) PROVE ToInv'
  <2>1. /\ UNCHANGED <<abQueue, abStack, abHeard, toOwnVars, lzVars>>
        /\ abOn' \subseteq ToSet(AbOrder) /\ abTroubles' \in 0 .. AbTroubles
    BY <1>1, <1>7, ToAssumption DEF AbSubscribe, AbUnsubscribe, ToTypeOK
  <2> QED BY <1>1, <2>1, ToStutters DEF ToTypeOK, toOwnVars, lzVars
<1>8. ASSUME NEW t \in {"drain", "detached"}, AbHandle(t) \/ AbReturn(t) PROVE ToInv'
  <2>1. CASE t = "detached" \/ Len(abStack[t]) # 1
    BY <1>8, <2>1, AbHandleNestedKeeps, AbReturnNestedKeeps
  <2>2. CASE t = "drain" /\ Len(abStack[t]) = 1
    BY <1>8, <2>2, AbHandleTopKeeps, AbReturnTopKeeps
  <2> QED BY <2>1, <2>2
<1>9. AbDrain \/ AbDetached => ToInv'
  BY AbDrainKeeps, AbDetachedKeeps
<1> QED BY <1>2, <1>3, <1>4, <1>5, <1>6, <1>7, <1>8, <1>9 DEF ToCatalogNext, AbNext

LEMMA ToInvImplies == ToInv => ToTypeOK /\ ToFaithful
<1> SUFFICES ASSUME ToInv PROVE ToTypeOK /\ ToFaithful OBVIOUS
<1>1. ToTypeOK /\ ToStoriesInOrder /\ AbSameOrder
  BY DEF ToInv, ToPlaces
<1>2. \A c \in ToCalls : ToCallIs(c)
  BY DEF ToInv, ToPlaces
<1>3. ToReportsTrue
  BY <1>2 DEF ToReportsTrue, ToCallIs, ToHasRun
<1>4. ToRunsWithinScope
  <2>1. \A r \in toRan : r.visible
    BY DEF ToInv, ToPlaces
  <2>2. ASSUME NEW x \in toTouched PROVE PpCheck(toContext[x[1]], x[1].agent, x[2])
    <3>1. PICK c \in ToCalls : c = x[1]
      BY DEF ToInv, ToPlaces
    <3>2. PpCheck(toContext[c], c.agent, x[2])
      BY <1>2, <3>1 DEF ToCallIs
    <3> QED BY <3>1, <3>2
  <2>3. ASSUME NEW n \in DOMAIN abQueue, NEW c \in ToCalls, abQueue[n] = AbEvent("started", c.id, "check")
        PROVE  toPhase[c] = "starting"
    <3>1. abQueue[n].of = c.id /\ abQueue[n].kind = "started"
      BY <2>3 DEF AbEvent
    <3> QED BY <3>1 DEF ToInv, AbOneOpen, AbIsOpen
  <2> QED BY <2>1, <2>2, <2>3 DEF ToRunsWithinScope
<1> QED BY <1>1, <1>3, <1>4 DEF ToFaithful

(* ToolsFaithful, for any calls, tools, scopes, changes of them and        *)
(* subscriptions, and any number of handlers that throw, emit or leave     *)
(* work behind: a tool runs for an agent that could see it and touches     *)
(* what its policy allows, a call that returns has run its tool, and       *)
(* everyone on the bus hears the start of a call before its end, nothing   *)
(* twice, and any two of them the same events in one order (catalog.ts,    *)
(* agent-bus.ts).                                                          *)
THEOREM ToolsStayFaithful == PluginsSpec => []ToolsFaithful
<1> DEFINE Inv == turn \in {"tools", "lazy"} => ToInv
<1>1. PluginsInit => Inv
  BY ToInvInit DEF PluginsInit
<1>2. Inv /\ [PluginsNext]_PluginsVars => Inv'
  <2> SUFFICES ASSUME Inv, [PluginsNext]_PluginsVars, turn' \in {"tools", "lazy"} PROVE ToInv' OBVIOUS
  <2>1. turn' = turn
    BY DEF PluginsNext, PluginsVars
  <2>2. ToCatalogNext \/ LzNext \/ UNCHANGED toVars
    BY <2>1 DEF PluginsNext, PluginsVars, serviceVars
  <2> QED BY <2>1, <2>2, ToInvNext
<1>3. Inv => ToolsFaithful
  BY ToInvImplies DEF ToolsFaithful
<1> QED BY <1>1, <1>2, <1>3, PTL DEF PluginsSpec
-----------------------------------------------------------------------------
(* Types.  The passages that are stored, on disk or about to be are ones   *)
(* that were given, and no write lands that was not begun.                 *)
VsKeptBy(j, at, write) ==
  /\ DOMAIN at = VsFields
  /\ at.n \in 0 .. write /\ at.snap \subseteq VsGiven
  /\ at.phase = "embed" => at.i = 1
  /\ (j.op = "add" /\ at.phase \in {"load", "apply", "persist"}) => at.i \in 1 .. j.chunks
  /\ (j.op = "add" /\ at.phase = "call") => at.i \in 1 .. j.chunks
VsKept ==
  /\ vsEntries \subseteq VsGiven /\ vsDisk \subseteq VsGiven /\ vsWrite \in Nat /\ vsLanded \in 0 .. vsWrite
  /\ vsAt = [j \in VsJobs |-> vsAt[j]] /\ \A j \in VsJobs : VsKeptBy(j, vsAt[j], vsWrite)

(* A job is at another place, and the others where they were.              *)
LEMMA VsKeptMoves ==
  ASSUME VsKept, NEW j \in VsJobs, NEW to, vsAt' = [vsAt EXCEPT ![j] = to], NEW write \in Nat, write >= vsWrite,
         VsKeptBy(j, to, write)
  PROVE  vsAt' = [k \in VsJobs |-> vsAt'[k]] /\ \A k \in VsJobs : VsKeptBy(k, vsAt'[k], write)
<1>1. vsAt' = [k \in VsJobs |-> IF k = j THEN to ELSE vsAt[k]]
  BY DEF VsKept
<1>2. ASSUME NEW k \in VsJobs, k # j PROVE VsKeptBy(k, vsAt'[k], write)
  <2>1. VsKeptBy(k, vsAt[k], vsWrite) /\ vsAt'[k] = vsAt[k] /\ vsWrite \in Nat
    BY <1>1, <1>2 DEF VsKept
  <2> QED BY <2>1 DEF VsKeptBy
<1>3. vsAt'[j] = to
  BY <1>1
<1> QED BY <1>1, <1>2, <1>3

LEMMA VsPassageIsGiven ==
  ASSUME NEW j \in VsJobs, j.op = "add", vsAt[j].i \in 1 .. j.chunks
  PROVE  VsPassage(j) \in VsGiven
<1>1. VsPassage(j) \in VsPassagesOf(j)
  BY DEF VsPassage, VsPassagesOf
<1> QED BY <1>1 DEF VsGiven

LEMMA VsEffectIsGiven ==
  ASSUME NEW j \in VsJobs, j.op = "add" => vsAt[j].i \in 1 .. j.chunks, NEW E \in SUBSET VsGiven
  PROVE  VsEffect(j, E) \subseteq VsGiven
<1>1. CASE j.op = "add"
  <2>1. VsEffect(j, E) = E \cup {VsPassage(j)}
    BY <1>1 DEF VsEffect, VsUpsert
  <2> QED BY <1>1, <2>1, VsPassageIsGiven
<1>2. CASE j.op = "remove"
  BY <1>2 DEF VsEffect, VsRemoveByDocId
<1>3. CASE j.op = "drop"
  BY <1>3 DEF VsEffect, VsRemoveByCorpusId
<1> QED BY <1>1, <1>2, <1>3, VsShapes

LEMMA VsKeptInit == VsInit => VsKept
<1> SUFFICES ASSUME VsInit PROVE VsKept OBVIOUS
<1>1. /\ vsEntries = {} /\ vsDisk = VsStored /\ vsWrite = 0 /\ vsLanded = 0 /\ vsAt = [j \in VsJobs |-> VsIdle]
  BY DEF VsInit
<1>2. \A j \in VsJobs : VsKeptBy(j, VsIdle, 0)
  BY DEF VsKeptBy, VsIdle, VsFields
<1> QED BY <1>1, <1>2 DEF VsKept, VsGiven

(* What a job's own step makes of its place.                               *)
LEMMA VsKeptStep == ASSUME VsKept, NEW j \in VsJobs, VsStart(j) \/ VsEmbed(j) \/ VsCall(j) \/ VsLoad(j) PROVE VsKept'
<1> DEFINE at == vsAt[j]
<1>1. /\ DOMAIN at = VsFields /\ at.n \in 0 .. vsWrite /\ at.snap \subseteq VsGiven /\ vsWrite \in Nat /\ vsDisk \subseteq VsGiven
      /\ at.phase = "embed" => at.i = 1
      /\ (j.op = "add" /\ at.phase \in {"call", "load"}) => at.i \in 1 .. j.chunks
  BY DEF VsKept, VsKeptBy
<1>2. PICK to : vsAt' = [vsAt EXCEPT ![j] = to] /\ VsKeptBy(j, to, vsWrite)
  <2>1. CASE VsStart(j)
    <3> DEFINE phase == IF j.op = "add" THEN "embed" ELSE "call"
               to == [at EXCEPT !.phase = phase, !.i = 1]
    <3>1. vsAt' = [vsAt EXCEPT ![j] = to]
      BY <2>1 DEF VsStart
    <3>2. phase \in {"embed", "call"} /\ (j.op = "add" => phase = "embed") OBVIOUS
    <3> HIDE DEF phase
    <3>3. DOMAIN to = VsFields /\ to.phase = phase /\ to.i = 1 /\ to.snap = at.snap /\ to.n = at.n
      BY <1>1 DEF VsFields
    <3> HIDE DEF to
    <3>4. VsKeptBy(j, to, vsWrite)
      BY <1>1, <3>2, <3>3 DEF VsKeptBy
    <3> QED BY <3>1, <3>4
  <2>2. ASSUME NEW phase \in {"call", "over", "apply"}, vsAt' = [vsAt EXCEPT ![j].phase = phase],
               (j.op = "add" /\ phase # "over") => at.i \in 1 .. j.chunks
        PROVE  \E to : vsAt' = [vsAt EXCEPT ![j] = to] /\ VsKeptBy(j, to, vsWrite)
    <3> DEFINE to == [at EXCEPT !.phase = phase]
    <3>1. vsAt' = [vsAt EXCEPT ![j] = to]
      BY <2>2
    <3>2. DOMAIN to = VsFields /\ to.phase = phase /\ to.i = at.i /\ to.snap = at.snap /\ to.n = at.n
      BY <1>1 DEF VsFields
    <3> HIDE DEF to
    <3>3. VsKeptBy(j, to, vsWrite)
      BY <1>1, <2>2, <3>2 DEF VsKeptBy
    <3> QED BY <3>1, <3>3
  <2>3. CASE VsEmbed(j)
    <3>1. j.chunks > 0 /\ j.op = "add" => at.i \in 1 .. j.chunks
      BY <1>1, <2>3, VsShapes DEF VsEmbed
    <3>2. CASE j.chunks > 0 /\ vsAt' = [vsAt EXCEPT ![j].phase = "call"]
      BY <2>2, <3>1, <3>2
    <3>3. CASE vsAt' = [vsAt EXCEPT ![j].phase = "over"]
      BY <2>2, <3>3
    <3> QED BY <2>3, <3>2, <3>3 DEF VsEmbed
  <2>4. CASE VsCall(j)
    <3>1. at.phase = "call"
      BY <2>4 DEF VsCall
    <3>2. CASE vsAt' = [vsAt EXCEPT ![j].phase = "apply"]
      BY <1>1, <2>2, <3>1, <3>2
    <3>3. CASE vsAt' = [vsAt EXCEPT ![j].phase = "load", ![j].snap = vsDisk]
      <4> DEFINE to == [at EXCEPT !.phase = "load", !.snap = vsDisk]
      <4>1. vsAt' = [vsAt EXCEPT ![j] = to]
        BY <3>3
      <4>2. DOMAIN to = VsFields /\ to.phase = "load" /\ to.i = at.i /\ to.snap = vsDisk /\ to.n = at.n
        BY <1>1 DEF VsFields
      <4> HIDE DEF to
      <4>3. VsKeptBy(j, to, vsWrite)
        BY <1>1, <3>1, <4>2 DEF VsKeptBy
      <4> QED BY <4>1, <4>3
    <3> QED BY <2>4, <3>2, <3>3 DEF VsCall
  <2>5. CASE VsLoad(j)
    <3>1. at.phase = "load" /\ vsAt' = [vsAt EXCEPT ![j].phase = "apply"]
      BY <2>5 DEF VsLoad
    <3> QED BY <1>1, <2>2, <3>1
  <2> QED BY <2>1, <2>3, <2>4, <2>5
<1>3. UNCHANGED <<vsDisk, vsWrite, vsLanded>>
  BY DEF VsStart, VsEmbed, VsCall, VsLoad
<1>4. vsEntries' = vsEntries \/ vsEntries' = at.snap
  BY DEF VsStart, VsEmbed, VsCall, VsLoad
<1>5. vsAt' = [k \in VsJobs |-> vsAt'[k]] /\ \A k \in VsJobs : VsKeptBy(k, vsAt'[k], vsWrite)
  <2>1. vsWrite \in Nat /\ vsWrite >= vsWrite
    BY <1>1
  <2> QED BY <1>2, <2>1, VsKeptMoves
<1> HIDE DEF at
<1> QED BY <1>1, <1>3, <1>4, <1>5 DEF VsKept

LEMMA VsKeptWrites == ASSUME VsKept, NEW j \in VsJobs, VsApply(j) \/ VsPersist(j) PROVE VsKept'
<1> DEFINE at == vsAt[j]
<1>1. /\ DOMAIN at = VsFields
      /\ at.n \in 0 .. vsWrite /\ at.snap \subseteq VsGiven /\ vsWrite \in Nat /\ vsLanded \in 0 .. vsWrite
      /\ (j.op = "add" /\ at.phase \in {"apply", "persist"}) => at.i \in 1 .. j.chunks
      /\ vsEntries \in SUBSET VsGiven /\ vsDisk \subseteq VsGiven
  BY DEF VsKept, VsKeptBy
<1>2. CASE VsApply(j)
  <2> DEFINE E == VsEffect(j, vsEntries)
             w == vsWrite + 1
             to == [at EXCEPT !.phase = "persist", !.snap = E, !.n = w]
  <2>1. /\ at.phase = "apply" /\ vsEntries' = E /\ vsWrite' = w /\ UNCHANGED <<vsDisk, vsLanded>>
        /\ vsAt' = [vsAt EXCEPT ![j] = to]
    BY <1>2 DEF VsApply
  <2>2. E \subseteq VsGiven
    BY <1>1, <2>1, VsEffectIsGiven
  <2>3. w \in Nat /\ w >= vsWrite /\ w \in 0 .. w /\ vsLanded \in 0 .. w
    BY <1>1
  <2>4. DOMAIN to = VsFields /\ to.phase = "persist" /\ to.i = at.i /\ to.snap = E /\ to.n = w
    <3> HIDE DEF E, w
    <3> QED BY <1>1 DEF VsFields
  <2> HIDE DEF E, w, to
  <2>5. VsKeptBy(j, to, w)
    BY <1>1, <2>1, <2>2, <2>3, <2>4 DEF VsKeptBy
  <2>6. vsAt' = [k \in VsJobs |-> vsAt'[k]] /\ \A k \in VsJobs : VsKeptBy(k, vsAt'[k], w)
    BY <2>1, <2>3, <2>5, VsKeptMoves
  <2> QED BY <1>1, <2>1, <2>2, <2>3, <2>6 DEF VsKept
<1>3. CASE VsPersist(j)
  <2> DEFINE more == j.op = "add" /\ at.i < j.chunks
             i == IF more THEN at.i + 1 ELSE at.i
             phase == IF more THEN "call" ELSE "over"
             to == [at EXCEPT !.phase = phase, !.i = i, !.snap = {}]
  <2>1. at.phase = "persist" /\ vsDisk' = at.snap /\ vsLanded' = at.n /\ UNCHANGED <<vsEntries, vsWrite>>
    BY <1>3 DEF VsPersist
  <2>2. vsAt' = [vsAt EXCEPT ![j] = to]
    BY <1>1, <1>3 DEF VsPersist, VsFields
  <2>3. phase \in {"call", "over"} /\ (j.op = "add" /\ phase = "call" => i \in 1 .. j.chunks)
    BY <1>1, <2>1, VsShapes
  <2> HIDE DEF phase, i, more
  <2>4. DOMAIN to = VsFields /\ to.phase = phase /\ to.i = i /\ to.snap = {} /\ to.n = at.n
    BY <1>1 DEF VsFields
  <2> HIDE DEF to
  <2>5. VsKeptBy(j, to, vsWrite)
    BY <1>1, <2>3, <2>4 DEF VsKeptBy
  <2>6. vsAt' = [k \in VsJobs |-> vsAt'[k]] /\ \A k \in VsJobs : VsKeptBy(k, vsAt'[k], vsWrite)
    <3>1. vsWrite \in Nat /\ vsWrite >= vsWrite
      BY <1>1
    <3> QED BY <2>2, <2>5, <3>1, VsKeptMoves
  <2> QED BY <1>1, <2>1, <2>6 DEF VsKept
<1> QED BY <1>2, <1>3

LEMMA VsKeptNext == VsKept /\ [VsNext]_vsVars => VsKept'
<1> SUFFICES ASSUME VsKept, [VsNext]_vsVars PROVE VsKept' OBVIOUS
<1>1. CASE UNCHANGED vsVars
  BY <1>1 DEF VsKept, vsVars
<1>2. ASSUME NEW j \in VsJobs, VsStart(j) \/ VsEmbed(j) \/ VsCall(j) \/ VsLoad(j) \/ VsApply(j) \/ VsPersist(j)
      PROVE  VsKept'
  BY <1>2, VsKeptStep, VsKeptWrites
<1>3. CASE VsRestart
  <2>1. /\ vsEntries' = {} /\ UNCHANGED <<vsDisk, vsWrite, vsLanded>>
        /\ vsAt' = [j \in VsJobs |-> IF vsAt[j].phase = "idle" THEN VsIdle ELSE [VsIdle EXCEPT !.phase = "over"]]
    BY <1>3 DEF VsRestart
  <2>2. \A j \in VsJobs : VsKeptBy(j, VsIdle, vsWrite)
    BY DEF VsKeptBy, VsIdle, VsKept, VsFields
  <2> DEFINE over == [VsIdle EXCEPT !.phase = "over"]
  <2>3. DOMAIN over = VsFields /\ over.phase = "over" /\ over.n = 0 /\ over.snap = {}
    BY DEF VsIdle, VsFields
  <2> HIDE DEF over
  <2>4. \A j \in VsJobs : VsKeptBy(j, over, vsWrite)
    BY <2>3 DEF VsKeptBy, VsKept
  <2> QED BY <2>1, <2>2, <2>4 DEF VsKept, over
<1> QED BY <1>1, <1>2, <1>3 DEF VsNext

(* A configuration, kept or saved, speaks of names alone.                  *)
CfSpeaks(entries, parents) ==
  DOMAIN entries \subseteq CfNames /\ DOMAIN parents \subseteq CfNames /\ \A n \in DOMAIN parents : parents[n] \in CfNames
CfKept == CfSpeaks(cfEntries, cfParents) /\ \A data \in cfSaved : CfSpeaks(data.entries, data.parents)

LEMMA CfKeptNext == CfKept /\ [CfNext]_cfVars => CfKept'
<1> SUFFICES ASSUME CfKept, [CfNext]_cfVars PROVE CfKept' OBVIOUS
<1>1. CASE UNCHANGED cfVars
  BY <1>1 DEF CfKept, cfVars
<1>2. ASSUME NEW name \in CfNames, NEW settings \in CfSettings, CfSet(name, settings) PROVE CfKept'
  <2>1. cfEntries' = ChPut(cfEntries, name, settings) /\ UNCHANGED <<cfParents, cfSaved>>
    BY <1>2 DEF CfSet
  <2>2. DOMAIN cfEntries \subseteq CfNames
    BY DEF CfKept, CfSpeaks
  <2>3. DOMAIN cfEntries' \subseteq CfNames
    BY <2>1, <2>2 DEF ChPut
  <2> QED BY <2>1, <2>3 DEF CfKept, CfSpeaks
<1>3. ASSUME NEW name \in CfNames, NEW settings \in CfSettings, NEW base \in CfNames, CfExtend(base, name, settings)
      PROVE  CfKept'
  <2>1. /\ cfParents' = ChPut(cfParents, name, base) /\ cfEntries' = ChPut(cfEntries, name, settings)
        /\ UNCHANGED cfSaved
    BY <1>3 DEF CfExtend
  <2>4. /\ DOMAIN cfEntries \subseteq CfNames /\ DOMAIN cfParents \subseteq CfNames
        /\ \A n \in DOMAIN cfParents : cfParents[n] \in CfNames
    BY DEF CfKept, CfSpeaks
  <2>2. DOMAIN cfEntries' \subseteq CfNames
    BY <2>1, <2>4 DEF ChPut
  <2>3. DOMAIN cfParents' \subseteq CfNames /\ \A n \in DOMAIN cfParents' : cfParents'[n] \in CfNames
    BY <2>1, <2>4 DEF ChPut
  <2> QED BY <2>1, <2>2, <2>3 DEF CfKept, CfSpeaks
<1>4. ASSUME NEW name \in CfNames, CfDelete(name) PROVE CfKept'
  BY <1>4 DEF CfDelete, ChDrop, CfKept, CfSpeaks
<1>5. CASE CfSave
  <2>1. UNCHANGED <<cfEntries, cfParents>> /\ cfSaved' = {[entries |-> cfEntries, parents |-> cfParents]}
    BY <1>5 DEF CfSave
  <2>2. \A data \in cfSaved' : data.entries = cfEntries /\ data.parents = cfParents
    BY <2>1
  <2> QED BY <2>1, <2>2 DEF CfKept
<1>6. CASE CfLoad
  <2>1. PICK data \in cfSaved : cfEntries' = data.entries /\ cfParents' = data.parents
    BY <1>6 DEF CfLoad
  <2>2. UNCHANGED cfSaved
    BY <1>6 DEF CfLoad
  <2> QED BY <2>1, <2>2 DEF CfKept
<1> QED BY <1>1, <1>2, <1>3, <1>4, <1>5, <1>6 DEF CfNext

HrKept == hrDoc \in [HrDocs -> {"new", "uploaded", "pending", "active", "failed", "removed"}]

LEMMA HrKeptNext == HrKept /\ [HrNext]_hrVars => HrKept'
BY DEF HrKept, HrNext, HrUpload, HrAttach, HrIndexed, HrRemove, hrVars

(* What the parts' invariants say of types.                                *)
LEMMA ItTyped == RgInv /\ ItInv => ItTypeOK
<1> SUFFICES ASSUME RgInv, ItInv PROVE ItTypeOK OBVIOUS
<1>1. Cardinality(rgCache) <= 1
  <2>1. CASE rgCache = {}
    BY <2>1, FS_EmptySet
  <2>2. CASE rgCache # {}
    <3>1. PICK map : rgCache = {map}
      BY <2>2 DEF RgInv, RgCached
    <3> QED BY <3>1, FS_Singleton
  <2> QED BY <2>1, <2>2
<1>2. rgCount \in 0 .. RgChanges
  BY DEF RgInv, RgTypes
<1>3. \A l \in RgLookups : rgAt[l].phase \in {"idle", "build", "read", "done", "threw"}
  BY DEF RgInv, RgBuilds, RgPlaceOf
<1> QED BY <1>1, <1>2, <1>3, ItInvImplies DEF ItTypeOK, ItPhases

LEMMA StoresTyped == ChInv /\ CfKept => StoresTypeOK
<1> SUFFICES ASSUME ChInv, CfKept PROVE StoresTypeOK OBVIOUS
<1>1. ASSUME NEW sk \in DOMAIN chStore PROVE chStore[sk].body \in 1 .. Len(chJobs) /\ chStore[sk].storedAt \in 0 .. chClock
  <2> DEFINE body == chStore[sk].body
  <2>1. body \in 1 .. Len(chJobs) /\ chJobs[body].op = "set" /\ chStore[sk].storedAt = chJobs[body].storedAt
    BY DEF ChInv, ChHolds, ChStoreKept, ChWasSet
  <2>2. ChJobIs(chJobs[body], chClock)
    BY <2>1 DEF ChInv, ChHolds, ChJobsKept
  <2> QED BY <2>1, <2>2 DEF ChJobIs
<1> QED BY <1>1 DEF StoresTypeOK, ChInv, CfKept, CfSpeaks

LEMMA MgTyped == MgInv => MgTypeOK
BY DEF MgInv, MgHolds, MgIsEntry, MgTypeOK

LEMMA RvTyped == RvInv /\ VsKept /\ HrKept => RvTypeOK
BY DEF RvInv, RvHolds, VsKept, HrKept, RvTypeOK

(* PluginsTypeOK, for all values of the constants: each part keeps its     *)
(* types, a cache and its counters their bounds, and the vector store      *)
(* holds no passage but those stored before and those of documents that    *)
(* were added.                                                             *)
THEOREM PluginsStayTyped == PluginsSpec => []PluginsTypeOK
<1> DEFINE Inv ==
      /\ turn \in PluginParts
      /\ turn \in {"server", "responses"} => SvRequestInv /\ SvStoreInv
      /\ turn \in {"tools", "lazy"} => ToInv
      /\ turn = "media" => MeInv
      /\ turn = "files" => FiHeld
      /\ turn \in {"cache", "configuration"} => ChInv /\ CfKept
      /\ turn \in {"chunker", "vectors", "hosted"} => RvInv /\ VsKept /\ HrKept
      /\ turn \in {"registry", "runner"} => RgInv /\ ItInv
      /\ turn = "catalog" => MgInv
<1>1. PluginsInit => Inv
  <2> SUFFICES ASSUME PluginsInit PROVE Inv OBVIOUS
  <2>1. /\ turn \in PluginParts /\ SvInit /\ ToInit /\ MeInit /\ FiInit
        /\ ChInit /\ CfInit /\ RvInit /\ VsInit /\ HrInit /\ RgInit /\ ItInit /\ MgInit
    BY DEF PluginsInit
  <2>2. CfKept /\ HrKept
    BY <2>1 DEF CfInit, CfKept, CfSpeaks, HrInit, HrKept
  <2> QED BY <2>1, <2>2, SvRequestInvInit, SvStoreInvInit, ToInvInit, MeInvInit, FiInvInit, ChInvInit, RvInvInit, VsKeptInit,
             RgInvInit, ItInvInit, MgInvInit
<1>2. Inv /\ [PluginsNext]_PluginsVars => Inv'
  <2> SUFFICES ASSUME Inv, [PluginsNext]_PluginsVars PROVE Inv' OBVIOUS
  <2>1. turn' = turn
    BY DEF PluginsNext, PluginsVars
  <2>2. CASE turn \in {"server", "responses"}
    <3>1. \/ (turn = "server" /\ SvRequestNext /\ UNCHANGED svStoreVars)
          \/ (turn = "responses" /\ SvStoreNext /\ UNCHANGED svRequestVars)
          \/ UNCHANGED svVars
      BY <2>2 DEF PluginsNext, PluginsVars, serviceVars
    <3>2. [SvRequestNext]_svRequestVars /\ [SvStoreNext]_svStoreVars
      BY <3>1 DEF svVars
    <3> QED BY <2>1, <2>2, <3>2, SvRequestInvNext, SvStoreInvNext
  <2>3. CASE turn \in {"tools", "lazy"}
    <3>1. ToCatalogNext \/ LzNext \/ UNCHANGED toVars
      BY <2>3 DEF PluginsNext, PluginsVars, serviceVars
    <3> QED BY <2>1, <2>3, <3>1, ToInvNext
  <2>4. CASE turn = "media"
    <3>1. [MeNext]_meVars
      BY <2>4 DEF PluginsNext, PluginsVars, serviceVars
    <3> QED BY <2>1, <2>4, <3>1, MeInvNext
  <2>5. CASE turn = "files"
    <3>1. [FiNext]_fiVars
      BY <2>5 DEF PluginsNext, PluginsVars, serviceVars
    <3> QED BY <2>1, <2>5, <3>1, FiInvNext
  <2>6. CASE turn \in {"cache", "configuration"}
    <3>1. [ChNext]_chVars /\ [CfNext]_cfVars
      BY <2>6 DEF PluginsNext, PluginsVars, storeVars
    <3> QED BY <2>1, <2>6, <3>1, ChInvNext, CfKeptNext
  <2>7. CASE turn \in {"chunker", "vectors", "hosted"}
    <3>1. [RvNext]_rvVars /\ [VsNext]_vsVars /\ [HrNext]_hrVars
      BY <2>7 DEF PluginsNext, PluginsVars, storeVars
    <3> QED BY <2>1, <2>7, <3>1, RvInvNext, VsKeptNext, HrKeptNext
  <2>8. CASE turn \in {"registry", "runner"}
    <3>1. [RgNext]_rgVars /\ [ItNext]_itVars
      BY <2>8 DEF PluginsNext, PluginsVars, runnerVars
    <3> QED BY <2>1, <2>8, <3>1, RgInvNext, ItInvNext
  <2>9. CASE turn = "catalog"
    <3>1. [MgNext]_mgVars
      BY <2>9 DEF PluginsNext, PluginsVars, storeVars
    <3> QED BY <2>1, <2>9, <3>1, MgInvNext
  <2> QED BY <2>2, <2>3, <2>4, <2>5, <2>6, <2>7, <2>8, <2>9 DEF PluginParts
<1>3. Inv => PluginsTypeOK
  BY SvInvImplies, ToInvImplies, MeInvImplies, FiInvImplies, ItTyped, StoresTyped, MgTyped, RvTyped DEF PluginsTypeOK, FiHeld
<1> QED BY <1>1, <1>2, <1>3, PTL DEF PluginsSpec

(* ServicesFaithful, for all values of the constants: what each service    *)
(* promises on its turn, by the theorems above.                            *)
THEOREM ServicesStayFaithful == PluginsSpec => []ServicesFaithful
<1>1. /\ ServerFaithful /\ ToolsFaithful /\ MediaFaithful /\ RunnersFaithful
      /\ FilesFaithful /\ CacheFaithful /\ IndexFaithful /\ CatalogFaithful
      => ServicesFaithful
  BY DEF ServicesFaithful
<1> QED BY <1>1, ServerStaysFaithful, ToolsStayFaithful, MediaStaysFaithful, RunnersStayFaithful,
           FilesStayFaithful, CacheStaysFaithful, IndexStaysFaithful, CatalogStaysFaithful, PTL
=============================================================================
