------------------------------- MODULE Files -------------------------------
(***************************************************************************)
(* Files in messages (plugins/files/, llm/providers/*/files.ts): the       *)
(* registry hears onMessageResolve, walks the message and replaces every   *)
(* file source IN PLACE by a provider's reference, the bytes, an address   *)
(* or a note that it was skipped.  An upload is awaited, so the requests   *)
(* of one conversation, deletions and the clock interleave with it.        *)
(***************************************************************************)
EXTENDS Integers, Sequences, FiniteSets

CONSTANTS
  FiFiles,       \* files: [id, content, size, kind]; content is "bytes" or "url"
  FiRequests,    \* requests: [id, provider, message]
  FiMessages,    \* message -> its parts: [type, file], type "file", "path" or "other"
  FiProviders,   \* providers a request can go to
  FiAdapters,    \* those with a registered FileProviderAdapter
  FiThreshold,   \* DefaultFileStrategy.inlineThreshold
  FiAsked,       \* whether uploadLifetimeSeconds is configured
  FiLifetime,    \* ticks a reference lives at a provider that lets it expire
  FiEnd,         \* bound: the clock's last tick
  FiDeletions    \* bound: calls of deleteRemote

ASSUME FiAssumption ==
  FiAsked \in BOOLEAN /\ FiLifetime \in Nat /\ FiEnd \in Nat /\ FiDeletions \in Nat /\ FiThreshold \in Nat

(* A request is one conversation's, with an id of its own; a "file" part   *)
(* names an attachment of the registry, and an attachment made for a path  *)
(* is none of those.                                                       *)
ASSUME FiShapes ==
  /\ \A r \in FiRequests : r.message \in DOMAIN FiMessages /\ r.provider \in FiProviders
  /\ \A q, r \in FiRequests : q.id = r.id => q = r
  /\ \A m \in DOMAIN FiMessages : FiMessages[m] \in Seq({FiMessages[m][i] : i \in DOMAIN FiMessages[m]})
  /\ \A m \in DOMAIN FiMessages : \A i \in DOMAIN FiMessages[m] :
       /\ FiMessages[m][i].type \in {"file", "path", "other"}
       /\ FiMessages[m][i].type = "file" => FiMessages[m][i].file \in FiFiles
  /\ \A f \in FiFiles : "owner" \notin DOMAIN f
  /\ FiAdapters \subseteq {"google", "openai", "anthropic", "xai"}

VARIABLES
  fiClock,
  fiKnown,       \* the registry's map: attachment keys
  fiUploads,     \* uploads of each attachment: provider -> [status, remote]
  fiParts,       \* the messages as they are now
  fiAt,          \* request -> [phase, i, key, file, ...]: the part and attachment at hand
  fiRemote,      \* what was uploaded: [key, provider, began, bornAt, startedAt, expires, gone]
  fiDeleting     \* deletions begun: [key, provider, remote, at]

fiVars == <<fiClock, fiKnown, fiUploads, fiParts, fiAt, fiRemote, fiDeleting>>

FiKeys ==
  FiFiles \cup UNION {{[owner |-> r.id, part |-> i] : i \in 1 .. Len(FiMessages[r.message])} : r \in FiRequests}
FiNoUpload == [status |-> "none", remote |-> 0]

FiInit ==
  /\ fiClock = 0 /\ fiKnown = FiFiles
  /\ fiUploads = [k \in FiKeys |-> [p \in FiProviders |-> FiNoUpload]]
  /\ fiParts = FiMessages
  /\ fiAt = [r \in FiRequests |-> [phase |-> "idle", i |-> 0, began |-> 0, startedAt |-> 0, key |-> "none", file |-> "none"]]
  /\ fiRemote = <<>> /\ fiDeleting = <<>>

(* The adapters: what they accept, and when their references expire:       *)
(* Google's always do; the others say so when uploadLifetimeSeconds asked. *)
FiMaxSize(p) == CASE p = "google" -> 2000 [] p = "anthropic" -> 500 [] p = "openai" -> 50 [] p = "xai" -> 48
FiAccepts(p, kind) ==
  CASE p \in {"google", "openai"} -> TRUE
    [] p = "anthropic" -> kind \in {"application", "text", "image"}
    [] p = "xai" -> kind \in {"application", "text"}
FiUploadGoogle == fiClock + FiLifetime
FiUploadOpenAI == IF FiAsked THEN fiClock + FiLifetime ELSE -1
FiUploadAnthropic == IF FiAsked THEN fiClock + FiLifetime ELSE -1
FiUploadXAI == IF FiAsked THEN fiClock + FiLifetime ELSE -1
FiExpiry(p) ==
  CASE p = "google" -> FiUploadGoogle [] p = "openai" -> FiUploadOpenAI
    [] p = "anthropic" -> FiUploadAnthropic [] p = "xai" -> FiUploadXAI

FiPart(r) == fiParts[r.message][fiAt[r].i]
(* The attachment of a part: a registered one, or one added for a path.    *)
FiKey(r) == IF FiPart(r).type = "file" THEN FiPart(r).file ELSE [owner |-> r.id, part |-> fiAt[r].i]
FiHasFileSource(part) == part.type \in {"file", "path"}

FiAvailableForever(upload) == upload.status = "uploaded"
FiExpired(n) == fiRemote[n].expires # -1 /\ fiClock > fiRemote[n].expires
(* isAvailable; needsUpload is its negation and getRef asks it again.      *)
FiAvailable(upload) == upload.status = "uploaded" /\ ~FiExpired(upload.remote)
(* ... and the status an isAvailable leaves behind.                        *)
FiMarked(upload) ==
  IF upload.status = "uploaded" /\ ~FiAvailable(upload) THEN [upload EXCEPT !.status = "expired"] ELSE upload

(* DefaultFileStrategy.decide, in its order.                               *)
FiDecide(f, p, upload) ==
  LET marked == FiMarked(upload)
      max == IF p \in FiAdapters THEN FiMaxSize(p) ELSE 500
  IN  CASE p \in FiAdapters /\ ~FiAccepts(p, f.kind) -> "skip"
        [] f.size > max -> "skip"
        [] FiAvailable(upload) -> "upload"
        [] marked.status = "expired" -> "reupload"
        [] f.content = "url" /\ p \in {"openai", "xai"} -> "url"
        [] f.size < FiThreshold -> "inline"
        [] OTHER -> "upload"

FiReplace(r, part) == fiParts' = [fiParts EXCEPT ![r.message][fiAt[r].i] = part]
FiAdvance(r) == fiAt' = [fiAt EXCEPT ![r].phase = "walk", ![r].i = @ + 1]
FiReject(r) == fiAt' = [fiAt EXCEPT ![r].phase = "rejected"] /\ UNCHANGED fiParts
(* makeInlinePart: the bytes; an address cannot be turned into them.       *)
FiInline(r, f) ==
  \/ f.content = "url" /\ FiReject(r)
  \/ f.content # "url" /\ FiReplace(r, [type |-> "inline", file |-> f]) /\ FiAdvance(r)
(* A deletion of that copy has come back.                                  *)
FiToldGone(n, deleting) == \E d \in 1 .. Len(deleting) : deleting[d].remote = n /\ deleting[d].at = "answered"

(* getRef and the provider_ref part; live: had it not expired, and had the *)
(* provider kept it, for all that this process had been told.              *)
FiTakeRef(r, f, upload) ==
  \/ /\ FiAvailable(upload)
     /\ FiReplace(r, [type |-> "ref", file |-> f, provider |-> r.provider, remote |-> upload.remote,
                      live |-> /\ ~FiExpired(upload.remote)
                               /\ fiRemote[upload.remote].gone => ~FiToldGone(upload.remote, fiDeleting)])
     /\ FiAdvance(r)
  \/ ~FiAvailable(upload) /\ FiInline(r, f)

FiStart(r) ==
  /\ fiAt[r].phase = "idle" /\ fiAt' = [fiAt EXCEPT ![r].phase = "walk", ![r].i = 1]
  /\ UNCHANGED <<fiClock, fiKnown, fiUploads, fiParts, fiRemote, fiDeleting>>

(* resolveMessages: past a part that is no file source, or whose file the  *)
(* registry does not know (onWarning), and out at the end.                 *)
FiPass(r) ==
  /\ fiAt[r].phase = "walk"
  /\ \/ fiAt[r].i > Len(fiParts[r.message]) /\ fiAt' = [fiAt EXCEPT ![r].phase = "sent"]
     \/ /\ fiAt[r].i <= Len(fiParts[r.message])
        /\ FiHasFileSource(FiPart(r)) => (FiPart(r).type = "file" /\ FiPart(r).file \notin fiKnown)
        /\ FiAdvance(r)
  /\ UNCHANGED <<fiClock, fiKnown, fiUploads, fiParts, fiRemote, fiDeleting>>

(* resolveFilePart and executeDecision up to the await of an upload.       *)
FiResolve(r) ==
  LET f == FiPart(r).file
      upload == fiUploads[FiKey(r)][r.provider]
      decision == FiDecide(f, r.provider, upload)
  IN  /\ fiAt[r].phase = "walk" /\ fiAt[r].i <= Len(fiParts[r.message]) /\ FiHasFileSource(FiPart(r))
      /\ FiPart(r).type = "file" => f \in fiKnown
      /\ fiKnown' = fiKnown \cup {FiKey(r)}
      /\ fiUploads' = [fiUploads EXCEPT ![FiKey(r)][r.provider] = FiMarked(upload)]
      /\ \/ /\ decision = "skip" /\ FiReplace(r, [type |-> "skipped", file |-> f]) /\ FiAdvance(r)
         \/ /\ decision = "url" /\ FiReplace(r, [type |-> "url", file |-> f]) /\ FiAdvance(r)
         \/ /\ decision = "inline" \/ (decision \in {"upload", "reupload"} /\ r.provider \notin FiAdapters)
            /\ FiInline(r, f)
         \/ /\ decision \in {"upload", "reupload"} /\ r.provider \in FiAdapters
            /\ \/ FiAvailable(upload) /\ FiTakeRef(r, f, upload)
               \/ /\ ~FiAvailable(upload)
                  /\ fiAt' = [fiAt EXCEPT ![r].phase = "upload", ![r].began = Len(fiRemote), ![r].startedAt = fiClock,
                                        ![r].key = FiKey(r), ![r].file = f]
                  /\ UNCHANGED fiParts
      /\ UNCHANGED <<fiClock, fiRemote, fiDeleting>>

(* The adapter's upload comes back: setUploaded, whatever is there now.    *)
FiUploaded(r) ==
  LET n == Len(fiRemote) + 1
      at == fiAt[r]
  IN
  /\ at.phase = "upload" /\ at.file.content # "url"
  /\ fiRemote' = Append(fiRemote, [key |-> at.key, file |-> at.file, provider |-> r.provider, began |-> at.began,
                                   startedAt |-> at.startedAt, expires |-> FiExpiry(r.provider), gone |-> FALSE])
  /\ fiUploads' = [fiUploads EXCEPT ![at.key][r.provider] = [status |-> "uploaded", remote |-> n]]
  /\ fiAt' = [fiAt EXCEPT ![r].phase = "ref"]
  /\ UNCHANGED <<fiClock, fiKnown, fiParts, fiDeleting>>

(* It fails (the request, or toBuffer of an address): the emit of the hook *)
(* rejects and the request with it; no error is noted on the attachment.   *)
FiUploadFails(r) ==
  /\ fiAt[r].phase = "upload" /\ FiReject(r)
  /\ UNCHANGED <<fiClock, fiKnown, fiUploads, fiRemote, fiDeleting>>

(* After the upload: getRef, which may already say no again.               *)
FiReferred(r) ==
  LET upload == fiUploads[fiAt[r].key][r.provider] IN
  /\ fiAt[r].phase = "ref"
  /\ fiUploads' = [fiUploads EXCEPT ![fiAt[r].key][r.provider] = FiMarked(upload)]
  /\ FiTakeRef(r, fiAt[r].file, upload)
  /\ UNCHANGED <<fiClock, fiKnown, fiRemote, fiDeleting>>

FiRemove(f) ==
  /\ f \in fiKnown /\ fiKnown' = fiKnown \ {f}
  /\ UNCHANGED <<fiClock, fiUploads, fiParts, fiAt, fiRemote, fiDeleting>>

(* deleteRemote: the reference is read, the deletion awaited, and only     *)
(* then the status set: on whatever upload is there by that time.          *)
FiDeleteRemote(f, p) ==
  LET upload == fiUploads[f][p] IN
  /\ f \in fiKnown /\ p \in FiAdapters /\ Len(fiDeleting) < FiDeletions
  /\ fiUploads' = [fiUploads EXCEPT ![f][p] = FiMarked(upload)]
  /\ FiAvailable(upload)
  /\ fiDeleting' = Append(fiDeleting, [key |-> f, provider |-> p, remote |-> upload.remote, at |-> "asked"])
  /\ UNCHANGED <<fiClock, fiKnown, fiParts, fiAt, fiRemote>>

(* The provider deletes the copy, and its answer is on the way.            *)
FiRemoteDeletes(d) ==
  /\ fiDeleting[d].at = "asked" /\ ~fiRemote[fiDeleting[d].remote].gone
  /\ fiRemote' = [fiRemote EXCEPT ![fiDeleting[d].remote].gone = TRUE]
  /\ UNCHANGED <<fiClock, fiKnown, fiUploads, fiParts, fiAt, fiDeleting>>

(* The answer is here: setDeleted.                                         *)
FiDeleted(d) ==
  LET del == fiDeleting[d] IN
  /\ del.at = "asked" /\ fiRemote[del.remote].gone
  /\ fiDeleting' = [fiDeleting EXCEPT ![d].at = "answered"]
  /\ fiUploads' = [fiUploads EXCEPT ![del.key][del.provider].status = "deleted"]
  /\ UNCHANGED <<fiClock, fiKnown, fiParts, fiAt, fiRemote>>

(* The request fails, or its answer is lost: deleteRemote rejects, and the *)
(* copy stays on record, whatever the provider did.                        *)
FiDeleteFails(d) ==
  /\ fiDeleting[d].at = "asked" /\ fiDeleting' = [fiDeleting EXCEPT ![d].at = "failed"]
  /\ UNCHANGED <<fiClock, fiKnown, fiUploads, fiParts, fiAt, fiRemote>>

FiTick ==
  /\ fiClock < FiEnd /\ fiClock' = fiClock + 1
  /\ UNCHANGED <<fiKnown, fiUploads, fiParts, fiAt, fiRemote, fiDeleting>>

FiNext ==
  \/ \E r \in FiRequests : FiStart(r) \/ FiPass(r) \/ FiResolve(r) \/ FiUploaded(r) \/ FiUploadFails(r) \/ FiReferred(r)
  \/ \E f \in FiFiles : FiRemove(f) \/ \E p \in FiProviders : FiDeleteRemote(f, p)
  \/ \E d \in 1 .. Len(fiDeleting) : FiRemoteDeletes(d) \/ FiDeleted(d) \/ FiDeleteFails(d)
  \/ FiTick

-----------------------------------------------------------------------------
FiTypeOK ==
  /\ fiClock \in 0 .. FiEnd /\ fiKnown \subseteq FiKeys
  /\ \A k \in FiKeys : \A p \in FiProviders :
       /\ fiUploads[k][p].status \in {"none", "uploaded", "expired", "deleted"}
       /\ fiUploads[k][p].remote \in 0 .. Len(fiRemote)
  /\ \A r \in FiRequests : fiAt[r].phase \in {"idle", "walk", "upload", "ref", "sent", "rejected"}
  /\ \A d \in 1 .. Len(fiDeleting) : fiDeleting[d].remote \in 1 .. Len(fiRemote)

FiIsRef(part) == part.type = "ref"
(* A reference put into a message names that part's own file, uploaded to  *)
(* the provider it was resolved for, and had not expired then.  Nor was it *)
(* deleted, however uploads and deletions interleaved, but by a deletion   *)
(* of that very copy that was still under way or whose answer was lost:    *)
(* between the provider's step and setDeleted the registry cannot tell.    *)
FiRefsWereLive ==
  \A m \in DOMAIN fiParts : \A i \in 1 .. Len(fiParts[m]) :
    FiIsRef(fiParts[m][i]) =>
      LET part == fiParts[m][i] IN
      /\ part.live
      /\ fiRemote[part.remote].file = part.file /\ fiRemote[part.remote].provider = part.provider

(* A request goes out with every file source resolved, except one whose    *)
(* file was no longer in the registry.                                     *)
FiNothingLeftBehind ==
  \A r \in FiRequests : fiAt[r].phase = "sent" =>
    \A i \in 1 .. Len(fiParts[r.message]) :
      FiHasFileSource(fiParts[r.message][i]) => fiParts[r.message][i].file \notin fiKnown

(* A file is uploaded again only when the earlier copy had expired, was    *)
(* being deleted or had not landed yet when the upload began.              *)
FiNoNeedlessUpload ==
  \A m, n \in 1 .. Len(fiRemote) :
    (fiRemote[m].key = fiRemote[n].key /\ fiRemote[m].provider = fiRemote[n].provider /\ fiRemote[n].began >= m) =>
      \/ fiRemote[m].expires # -1 /\ fiRemote[n].startedAt > fiRemote[m].expires
      \/ \E d \in 1 .. Len(fiDeleting) : fiDeleting[d].key = fiRemote[m].key

FiFaithful == FiRefsWereLive /\ FiNothingLeftBehind /\ FiNoNeedlessUpload
=============================================================================
