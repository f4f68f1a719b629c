----------------------------- MODULE Retrieval -----------------------------
(***************************************************************************)
(* Retrieval (plugins/retrieval/): the chunker that cuts a document into   *)
(* overlapping windows (Rv), the local backend over the in-memory vector   *)
(* store with its lazy load and whole-store writes (Vs), and the hosted    *)
(* backends that upload, attach and report the state of an index (Hr).     *)
(***************************************************************************)
EXTENDS Integers, Sequences, FiniteSets, FiniteSetsExt

CONSTANTS
  RvLength,      \* length of the texts cut
  RvMaxChars, RvOverlapChars,
  VsCorpora,     \* corpora
  VsJobs,        \* operations: [op, corpus, doc, chunks]; op "add", "remove" or "drop"
  VsStored,      \* passages on disk at the start: [corpus, doc, i]
  VsScore,       \* score of a document's passages for the query
  VsRestarts,    \* bound: restarts
  HrDocs         \* documents given to a hosted corpus

ASSUME RvAssumption ==
  RvLength \in Nat /\ RvMaxChars \in Nat \ {0} /\ RvOverlapChars \in Nat /\ VsRestarts \in Nat
ASSUME VsShapes ==
  \A j \in VsJobs : j.op \in {"add", "remove", "drop"} /\ (j.op = "add" => j.chunks \in Nat)
ASSUME HrAssumption == IsFiniteSet(HrDocs)

VARIABLES
  rvText, rvOffset, rvChunks, rvOver,
  vsEntries, vsLoaded, vsDisk,
  vsAt,          \* job -> [phase, i, snap]
  vsAcked,       \* what the applied operations add up to
  vsRaced,       \* a load came after another, or a write landed after a newer one
  vsWrite, vsLanded, vsRestarted,
  hrDoc          \* document -> new, uploaded, pending, active, failed

rvVars == <<rvText, rvOffset, rvChunks, rvOver>>
vsVars == <<vsEntries, vsLoaded, vsDisk, vsAt, vsAcked, vsRaced, vsWrite, vsLanded, vsRestarted>>
hrVars == <<hrDoc>>

-----------------------------------------------------------------------------
(* chunkText.  Characters are a space or not; positions count from 0.      *)
RvInit == rvText \in [0 .. RvLength - 1 -> BOOLEAN] /\ rvOffset = 0 /\ rvChunks = <<>> /\ rvOver = FALSE
RvSpace(p) == rvText[p]

(* snapToWordBoundary: back to the last space, if that leaves half of it.  *)
RvSnapped(offset, end) ==
  LET spaces == {p \in offset + 1 .. end - 1 : RvSpace(p) /\ 2 * (p - offset) >= end - offset}
  IN  IF end < RvLength /\ spaces # {} THEN Max(spaces) - offset ELSE end - offset

RvNextSpaceAnywhere(target, offset, limit) == {p \in target .. RvLength - 1 : RvSpace(p)}
(* snapStep: to the next space at or after the target, but never past what *)
(* the chunk just emitted reaches, and the one space behind it.            *)
RvNextSpace(target, offset, limit) ==
  LET later == {p \in target .. RvLength - 1 : RvSpace(p)}
  IN  IF later # {} /\ Min(later) - offset + 1 <= limit THEN {Min(later)} ELSE {}
RvSnapStep(offset, step, limit) ==
  IF offset + step >= RvLength THEN RvLength - offset
  ELSE IF RvNextSpace(offset + step, offset, limit) # {}
       THEN Min(RvNextSpace(offset + step, offset, limit)) - offset + 1 ELSE step

(* One turn of the loop.                                                   *)
RvChunk ==
  LET end == Min({rvOffset + RvMaxChars, RvLength})
      length == RvSnapped(rvOffset, end)
      step == Max({length - RvOverlapChars, 1})
  IN  /\ ~rvOver /\ rvOffset < RvLength
      /\ rvChunks' = Append(rvChunks, [offset |-> rvOffset, length |-> length])
      /\ rvOver' = (end >= RvLength)
      /\ rvOffset' = IF end >= RvLength THEN rvOffset ELSE rvOffset + RvSnapStep(rvOffset, step, length + 1)
      /\ UNCHANGED rvText
RvNext == RvChunk

-----------------------------------------------------------------------------
(* InMemoryVectorStore under LocalRetrievalBackend.                        *)
VsIdle == [phase |-> "idle", i |-> 0, snap |-> {}, n |-> 0]
VsInit ==
  /\ vsEntries = {} /\ vsLoaded = FALSE /\ vsDisk = VsStored /\ vsAt = [j \in VsJobs |-> VsIdle]
  /\ vsAcked = VsStored /\ vsRaced = FALSE /\ vsWrite = 0 /\ vsLanded = 0 /\ vsRestarted = 0

(* addDocument waits for the embeddings first; then an upsert per chunk,   *)
(* each with its own load and write.  The others are one call of the store.*)
VsStart(j) ==
  /\ vsAt[j].phase = "idle"
  /\ vsAt' = [vsAt EXCEPT ![j].phase = IF j.op = "add" THEN "embed" ELSE "call", ![j].i = 1]
  /\ UNCHANGED <<vsEntries, vsLoaded, vsDisk, vsAcked, vsRaced, vsWrite, vsLanded, vsRestarted>>
VsEmbed(j) ==
  /\ vsAt[j].phase = "embed"
  /\ \/ j.chunks > 0 /\ vsAt' = [vsAt EXCEPT ![j].phase = "call"]
     \/ vsAt' = [vsAt EXCEPT ![j].phase = "over"]                             \* it failed, or the text is empty
  /\ UNCHANGED <<vsEntries, vsLoaded, vsDisk, vsAcked, vsRaced, vsWrite, vsLanded, vsRestarted>>

(* ensureLoaded: nothing once loaded; else the snapshot is asked for ...   *)
VsEnsureLoaded == vsLoaded
VsCall(j) ==
  /\ vsAt[j].phase = "call"
  /\ \/ VsEnsureLoaded /\ vsAt' = [vsAt EXCEPT ![j].phase = "apply"]
     \/ ~VsEnsureLoaded /\ vsAt' = [vsAt EXCEPT ![j].phase = "load", ![j].snap = vsDisk]
  /\ UNCHANGED <<vsEntries, vsLoaded, vsDisk, vsAcked, vsRaced, vsWrite, vsLanded, vsRestarted>>
(* ... and replaces the entries when it comes, even if another came first. *)
VsLoad(j) ==
  /\ vsAt[j].phase = "load"
  /\ vsEntries' = vsAt[j].snap /\ vsLoaded' = TRUE /\ vsRaced' = (vsRaced \/ vsLoaded)
  /\ vsAt' = [vsAt EXCEPT ![j].phase = "apply"]
  /\ UNCHANGED <<vsDisk, vsAcked, vsWrite, vsLanded, vsRestarted>>

VsPassage(j) == [corpus |-> j.corpus, doc |-> j.doc, i |-> vsAt[j].i]
VsUpsert(j, E) == E \cup {VsPassage(j)}
VsRemoveByDocId(j, E) == {e \in E : ~(e.corpus = j.corpus /\ e.doc = j.doc)}
VsRemoveByCorpusId(j, E) == {e \in E : e.corpus # j.corpus}
VsEffect(j, E) ==
  CASE j.op = "add" -> VsUpsert(j, E) [] j.op = "remove" -> VsRemoveByDocId(j, E) [] j.op = "drop" -> VsRemoveByCorpusId(j, E)
(* The change, and persist: the whole of it as it is now is to be written. *)
VsApply(j) ==
  /\ vsAt[j].phase = "apply"
  /\ vsEntries' = VsEffect(j, vsEntries) /\ vsAcked' = VsEffect(j, vsAcked)
  /\ vsWrite' = vsWrite + 1
  /\ vsAt' = [vsAt EXCEPT ![j].phase = "persist", ![j].snap = VsEffect(j, vsEntries), ![j].n = vsWrite + 1]
  /\ UNCHANGED <<vsLoaded, vsDisk, vsRaced, vsLanded, vsRestarted>>
(* The write lands; the next chunk, or the end.                            *)
VsPersist(j) ==
  /\ vsAt[j].phase = "persist"
  /\ vsDisk' = vsAt[j].snap /\ vsLanded' = vsAt[j].n /\ vsRaced' = (vsRaced \/ vsAt[j].n < vsLanded)
  /\ LET more == j.op = "add" /\ vsAt[j].i < j.chunks
     IN  vsAt' = [vsAt EXCEPT ![j].phase = IF more THEN "call" ELSE "over",
                              ![j].i = IF more THEN @ + 1 ELSE @, ![j].snap = {}]
  /\ UNCHANGED <<vsEntries, vsLoaded, vsAcked, vsWrite, vsRestarted>>
(* The process ends and a new one opens the same persistence.              *)
VsRestart ==
  /\ vsRestarted < VsRestarts /\ vsRestarted' = vsRestarted + 1
  /\ vsEntries' = {} /\ vsLoaded' = FALSE /\ vsAcked' = vsDisk
  /\ vsAt' = [j \in VsJobs |-> IF vsAt[j].phase = "idle" THEN VsIdle ELSE [VsIdle EXCEPT !.phase = "over"]]
  /\ UNCHANGED <<vsDisk, vsRaced, vsWrite, vsLanded>>

VsNext ==
  \/ \E j \in VsJobs : VsStart(j) \/ VsEmbed(j) \/ VsCall(j) \/ VsLoad(j) \/ VsApply(j) \/ VsPersist(j)
  \/ VsRestart

(* query of one corpus, and search, which merges the best of each: here    *)
(* the scores alone, best first.                                           *)
VsBest(E, k) ==
  LET left(found) == {e \in E : \A n \in DOMAIN found : found[n] # e}
      best[n \in 0 .. k] ==
        IF n = 0 THEN <<>>
        ELSE IF left(best[n - 1]) = {} THEN best[n - 1]
        ELSE Append(best[n - 1], CHOOSE x \in left(best[n - 1]) :
                                   \A y \in left(best[n - 1]) : VsScore[x.doc] >= VsScore[y.doc])
  IN  best[k]
VsQueryOneLess(corpus, k) == VsBest({e \in vsEntries : e.corpus = corpus}, k - 1)
VsQuery(corpus, k) == VsBest({e \in vsEntries : e.corpus = corpus}, k)
VsSearch(corpora, k) == VsBest(UNION {{VsQuery(c, k)[n] : n \in DOMAIN VsQuery(c, k)} : c \in corpora}, k)

-----------------------------------------------------------------------------
(* Hosted backends: upload, then attach; what fails in between stays       *)
(* uploaded and unattached.  The provider indexes on its own.              *)
HrInit == hrDoc = [d \in HrDocs |-> "new"]
HrUpload(d) == hrDoc[d] = "new" /\ hrDoc' = [hrDoc EXCEPT ![d] = "uploaded"]
HrAttach(d) == hrDoc[d] = "uploaded" /\ hrDoc' = [hrDoc EXCEPT ![d] = "pending"]
HrIndexed(d) == hrDoc[d] = "pending" /\ \E s \in {"active", "failed"} : hrDoc' = [hrDoc EXCEPT ![d] = s]
HrRemove(d) == hrDoc[d] \in {"active", "failed"} /\ hrDoc' = [hrDoc EXCEPT ![d] = "removed"]
HrNext == \E d \in HrDocs : HrUpload(d) \/ HrAttach(d) \/ HrIndexed(d) \/ HrRemove(d)

HrCount(s) == Cardinality({d \in HrDocs : hrDoc[d] = s})
HrGoogleStatus ==
  IF HrCount("pending") > 0 THEN "indexing" ELSE IF HrCount("failed") > 0 THEN "error"
  ELSE IF HrCount("active") > 0 THEN "ready" ELSE "pending"
HrXaiStatus ==
  LET total == HrCount("pending") + HrCount("active") + HrCount("failed")
  IN  IF total = 0 THEN "pending" ELSE IF HrCount("failed") > 0 THEN "error"
      ELSE IF HrCount("active") = total THEN "ready" ELSE "indexing"

-----------------------------------------------------------------------------
(* The passages there can be: those stored before, and those of documents  *)
(* that are added.                                                         *)
VsPassagesOf(j) == {[corpus |-> j.corpus, doc |-> j.doc, i |-> n] : n \in 1 .. j.chunks}
VsGiven == VsStored \cup UNION {VsPassagesOf(j) : j \in {j \in VsJobs : j.op = "add"}}

RvTypeOK ==
  /\ rvOffset \in 0 .. RvLength
  /\ vsEntries \subseteq VsGiven /\ vsLanded <= vsWrite
  /\ \A d \in HrDocs : hrDoc[d] \in {"new", "uploaded", "pending", "active", "failed", "removed"}

(* No character of the text but a space falls between two chunks or behind *)
(* the last one; every chunk is non-empty, begins after the one before it, *)
(* so that the loop ends, and fits the window.                             *)
RvChunksCover ==
  /\ \A n \in 1 .. Len(rvChunks) :
       /\ rvChunks[n].length \in 1 .. RvMaxChars
       /\ n > 1 =>
            /\ rvChunks[n].offset > rvChunks[n - 1].offset
            /\ \A p \in rvChunks[n - 1].offset + rvChunks[n - 1].length .. rvChunks[n].offset - 1 : RvSpace(p)
  /\ (rvOver \/ (rvOffset >= RvLength /\ rvChunks # <<>>)) =>
       LET last == rvChunks[Len(rvChunks)] IN \A p \in last.offset + last.length .. RvLength - 1 : RvSpace(p)

(* Unless two first calls loaded the snapshot one over the other or two    *)
(* writes landed in the wrong order, the store holds exactly what the      *)
(* operations applied to it add up to, and the disk too when none is under *)
(* way.                                                                    *)
VsNothingLost ==
  ~vsRaced =>
    /\ vsLoaded => vsEntries = vsAcked
    /\ (vsLoaded /\ \A j \in VsJobs : vsAt[j].phase # "persist") => vsDisk = vsEntries

(* A search over several corpora finds the best passages of them all: what *)
(* each corpus keeps for itself leaves out none of them.                   *)
VsScores(s) == [n \in DOMAIN s |-> VsScore[s[n].doc]]
VsSearchIsGlobal ==
  \A k \in 1 .. 2 : VsScores(VsSearch(VsCorpora, k)) = VsScores(VsBest(vsEntries, k))

(* A hosted corpus is reported ready only when everything attached to it   *)
(* can be searched.                                                        *)
HrReadyMeansIndexed ==
  \A status \in {HrGoogleStatus, HrXaiStatus} :
    status = "ready" => (HrCount("pending") = 0 /\ HrCount("failed") = 0 /\ HrCount("active") > 0)
=============================================================================
