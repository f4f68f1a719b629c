------------------------------- MODULE Media -------------------------------
(***************************************************************************)
(* Generated media (plugins/media/output.ts, helpers/media.ts, and the     *)
(* media adapters of the providers): images and sound come with the        *)
(* answer, a video is an operation at the provider that is polled; what    *)
(* arrives is saved one by one, and announced once to whoever counts cost. *)
(***************************************************************************)
EXTENDS Integers, Sequences, SequencesExt, FiniteSets

CONSTANTS
  MeCalls,       \* calls: [id, provider, kind, extends]
  MeItems,       \* bound: images of one answer
  MePolls        \* maxPollWaitMs, in polls

ASSUME MeAssumption == MeItems \in Nat \ {0} /\ MePolls \in Nat \ {0}

VARIABLES
  mePhase,       \* where each call is
  meOperation,   \* the provider's operation of a video: none, running, done, error
  mePolled,      \* status requests made
  meRaw,         \* the raw results: [usage] each
  meFetched,     \* items of an answer that gives addresses, still to download
  meSaved,       \* how many are in the media store
  meAnnounced,   \* onMediaGenerated: [count, usage], in order
  meErrors,      \* calls onMediaError was emitted for
  meProgress     \* calls onMediaProgress was emitted for

meVars == <<mePhase, meOperation, mePolled, meRaw, meFetched, meSaved, meAnnounced, meErrors, meProgress>>

MeInit ==
  /\ mePhase = [c \in MeCalls |-> "idle"] /\ meOperation = [c \in MeCalls |-> "none"]
  /\ mePolled = [c \in MeCalls |-> 0] /\ meRaw = [c \in MeCalls |-> <<>>] /\ meFetched = [c \in MeCalls |-> 0]
  /\ meSaved = [c \in MeCalls |-> 0] /\ meAnnounced = [c \in MeCalls |-> <<>>]
  /\ meErrors = {} /\ meProgress = {}

MeGo(c, phase) == mePhase' = [mePhase EXCEPT ![c] = phase]

(* capabilities() of the adapters, and what generateVideo asks of a source *)
(* video.  A provider without an adapter has none.                         *)
MeCan(provider, kind) ==
  CASE kind \in {"image", "edit", "audio"} -> provider \in {"openai", "google", "xai", "openrouter"}
    [] kind = "video" -> provider \in {"openai", "google", "xai"}
MeExtends(provider) == provider = "xai"
MeAllowed(c) == MeCan(c.provider, c.kind) /\ (c.extends => MeExtends(c.provider))

(* A call: the model is refused by the catalog, there is no adapter, or it *)
(* cannot; or the request goes out.                                        *)
MeCall(c) ==
  /\ mePhase[c] = "idle"
  /\ \/ MeGo(c, "threw")                                                     \* refuseCall
     \/ ~MeAllowed(c) /\ MeGo(c, "threw")
     \/ MeAllowed(c) /\ MeGo(c, IF c.kind = "video" THEN "submit" ELSE "ask")
  /\ UNCHANGED <<meOperation, mePolled, meRaw, meFetched, meSaved, meAnnounced, meErrors, meProgress>>

(* The request fails: engine.fetch rejects whatever is not ok, and the     *)
(* call with it; wherever it is.                                           *)
MeRequestFails(c) ==
  /\ mePhase[c] \in {"ask", "items", "submit", "poll", "download"} /\ MeGo(c, "threw")
  /\ UNCHANGED <<meOperation, mePolled, meRaw, meFetched, meSaved, meAnnounced, meErrors, meProgress>>

MeUsageOnEach(n) == [i \in 1 .. n |-> [usage |-> 1]]
(* parseImages and parseGenerateContent: the usage of the answer goes with *)
(* its first item.                                                         *)
MeRawOf(n) == [i \in 1 .. n |-> [usage |-> IF i = 1 THEN 1 ELSE 0]]

(* The answer of an image or a sound.  A sound must be there; xAI may give *)
(* addresses, to be downloaded one after the other.                        *)
MeAnswer(c, n) ==
  /\ mePhase[c] = "ask"
  /\ \/ /\ c.kind = "audio" /\ n = 0 /\ MeGo(c, "threw") /\ UNCHANGED <<meRaw, meFetched>>
     \/ /\ c.kind = "audio" => n = 1
        /\ MeGo(c, "save") /\ meRaw' = [meRaw EXCEPT ![c] = MeRawOf(n)] /\ UNCHANGED meFetched
     \/ /\ c.provider = "xai" /\ c.kind \in {"image", "edit"} /\ n > 0
        /\ MeGo(c, "items") /\ meFetched' = [meFetched EXCEPT ![c] = n] /\ UNCHANGED meRaw
  /\ UNCHANGED <<meOperation, mePolled, meSaved, meAnnounced, meErrors, meProgress>>

MeDownloadItem(c) ==
  /\ mePhase[c] = "items"
  /\ meFetched' = [meFetched EXCEPT ![c] = @ - 1]
  /\ meRaw' = [meRaw EXCEPT ![c] = Append(@, [usage |-> IF @ = <<>> THEN 1 ELSE 0])]
  /\ MeGo(c, IF meFetched[c] = 1 THEN "save" ELSE "items")
  /\ UNCHANGED <<meOperation, mePolled, meSaved, meAnnounced, meErrors, meProgress>>

(* submitVideo, and the operation at the provider.                         *)
MeSubmit(c) ==
  /\ mePhase[c] = "submit" /\ MeGo(c, "poll")
  /\ meOperation' = [meOperation EXCEPT ![c] = "running"]
  /\ UNCHANGED <<mePolled, meRaw, meFetched, meSaved, meAnnounced, meErrors, meProgress>>
MeOperationEnds(c) ==
  /\ meOperation[c] = "running" /\ mePhase[c] = "poll"
  /\ \E o \in {"done", "error"} : meOperation' = [meOperation EXCEPT ![c] = o]
  /\ UNCHANGED <<mePhase, mePolled, meRaw, meFetched, meSaved, meAnnounced, meErrors, meProgress>>

(* getVideoStatus: what a poll says of the operation.  Google's operation  *)
(* is done when it has failed too, and done is looked at first.            *)
MeStatus(c) ==
  CASE meOperation[c] = "running" -> "processing"
    [] meOperation[c] = "done" -> "completed"
    [] meOperation[c] = "error" -> IF c.provider = "google" THEN "completed" ELSE "failed"

(* One turn of the loop of pollVideoCompletion, the wait after it          *)
(* included: the wait is over when maxPollWaitMs is, and the operation     *)
(* goes on without anyone.                                                 *)
MePoll(c) ==
  /\ mePhase[c] = "poll"
  /\ mePolled' = [mePolled EXCEPT ![c] = @ + 1]
  /\ CASE MeStatus(c) = "processing" ->
            /\ meProgress' = meProgress \cup {c} /\ UNCHANGED meErrors
            /\ MeGo(c, IF mePolled[c] + 1 < MePolls THEN "poll" ELSE "threw")
       [] MeStatus(c) = "completed" -> MeGo(c, "download") /\ UNCHANGED <<meErrors, meProgress>>
       [] MeStatus(c) = "failed" -> MeGo(c, "threw") /\ meErrors' = meErrors \cup {c} /\ UNCHANGED meProgress
  /\ UNCHANGED <<meOperation, meRaw, meFetched, meSaved, meAnnounced>>

(* downloadVideo: the operation is read again, and its video fetched; an   *)
(* operation that failed has none.                                         *)
MeDownload(c) ==
  /\ mePhase[c] = "download"
  /\ \/ meOperation[c] = "done" /\ MeGo(c, "save") /\ meRaw' = [meRaw EXCEPT ![c] = <<[usage |-> 0]>>]
     \/ meOperation[c] = "error" /\ MeGo(c, "threw") /\ UNCHANGED meRaw
  /\ UNCHANGED <<meOperation, mePolled, meFetched, meSaved, meAnnounced, meErrors, meProgress>>

(* saveResults: one after the other; a store that fails ends the call, and *)
(* what was generated is not announced.                                    *)
MeSave(c) ==
  /\ mePhase[c] = "save" /\ meSaved[c] < Len(meRaw[c])
  /\ \/ meSaved' = [meSaved EXCEPT ![c] = @ + 1] /\ UNCHANGED mePhase
     \/ MeGo(c, "threw") /\ UNCHANGED meSaved
  /\ UNCHANGED <<meOperation, mePolled, meRaw, meFetched, meAnnounced, meErrors, meProgress>>

(* aggregateUsage, and the one announcement.                               *)
MeAggregateUsage(raw) ==
  LET sum[n \in 0 .. Len(raw)] == IF n = 0 THEN 0 ELSE sum[n - 1] + raw[n].usage IN sum[Len(raw)]
MeAnnounce(c) ==
  /\ mePhase[c] = "save" /\ meSaved[c] = Len(meRaw[c])
  /\ meAnnounced' = [meAnnounced EXCEPT ![c] = Append(@, [count |-> meSaved[c], usage |-> MeAggregateUsage(meRaw[c])])]
  /\ MeGo(c, "returned")
  /\ UNCHANGED <<meOperation, mePolled, meRaw, meFetched, meSaved, meErrors, meProgress>>

MeNext ==
  \E c \in MeCalls :
    \/ MeCall(c) \/ MeRequestFails(c) \/ (\E n \in 0 .. MeItems : MeAnswer(c, n)) \/ MeDownloadItem(c)
    \/ MeSubmit(c) \/ MeOperationEnds(c) \/ MePoll(c) \/ MeDownload(c) \/ MeSave(c) \/ MeAnnounce(c)

---------------------------------------------------------------------------
MeTypeOK ==
  /\ \A c \in MeCalls :
       /\ mePhase[c] \in {"idle", "ask", "items", "submit", "poll", "download", "save", "returned", "threw"}
       /\ mePolled[c] \in 0 .. MePolls /\ meSaved[c] <= Len(meRaw[c]) /\ Len(meAnnounced[c]) <= 1
  /\ meErrors \subseteq MeCalls /\ meProgress \subseteq MeCalls

(* What a caller gets is in the store and was announced, once, with the    *)
(* count of what was stored and the usage of the answer counted once; a    *)
(* call that throws announces nothing.                                     *)
MeReturnedIsAnnounced ==
  \A c \in MeCalls :
    IF mePhase[c] = "returned"
    THEN \E a \in ToSet(meAnnounced[c]) :
           /\ Len(meAnnounced[c]) = 1 /\ a.count = Len(meRaw[c]) /\ a.count = meSaved[c]
           /\ a.usage = IF c.kind # "video" /\ a.count > 0 THEN 1 ELSE 0
    ELSE meAnnounced[c] = <<>>

(* A video is returned only if its operation is done, and its failure is   *)
(* told to onMediaError only where it failed.                              *)
MeVideosAreReal ==
  \A c \in MeCalls : c.kind = "video" =>
    /\ mePhase[c] = "returned" => meOperation[c] = "done"
    /\ c \in meErrors => meOperation[c] = "error" /\ mePhase[c] = "threw"

MeFaithful == MeReturnedIsAnnounced /\ MeVideosAreReal
=============================================================================
