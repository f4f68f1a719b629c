--------------------------- MODULE ModeratedStream ---------------------------
(***************************************************************************)
(* LLMClient.stream() with emulated moderation (llm/client.ts, stream, and *)
(* llm/moderation/runner.ts): the generators that put verdicts about the   *)
(* text so far between the events of a raw stream, after it ("post"),      *)
(* before the text it speaks of ("buffer"), or as they land ("parallel").  *)
(*                                                                         *)
(* An event is "t" (text), "n" (text with a line feed) or "u" (anything    *)
(* else); a text is one character long.  A verdict is the number of        *)
(* characters it covers: flagged or not, or the error that took its place. *)
(* The consumer pulls one event at a time and may leave.                   *)
(***************************************************************************)
EXTENDS Integers, Sequences, FiniteSets, SequencesExt

CONSTANTS
  MdStrategies,  \* subset of {"post", "buffer", "parallel"}
  MdLength,      \* events of the raw stream
  MdInterval     \* mod.stream.interval

ASSUME MdAssumption ==
  MdStrategies \subseteq {"post", "buffer", "parallel"} /\ MdLength \in Nat /\ MdInterval \in Nat \ {0}

VARIABLES
  mdStrategy,
  mdRaw,       \* the raw stream
  mdTaken,     \* events of it the generator has pulled
  mdAt,        \* where the generator is
  mdChecked,   \* checkedAt
  mdHold,      \* hold
  mdPending,   \* pending: moderations scheduled and not settled
  mdRawDone,   \* rawDone
  mdAsked,     \* every text a verdict was asked for
  mdWinner,    \* what settled Promise.race, until the generator resumes
  mdOut,       \* what the consumer was given
  mdReport     \* moderationReport, and whether onCompletion was emitted

mdVars == <<mdStrategy, mdRaw, mdTaken, mdAt, mdChecked, mdHold, mdPending, mdRawDone, mdAsked, mdWinner, mdOut, mdReport>>

MdEvents == {"t", "n", "u"}
MdNone == <<>>
MdRawEv(i) == <<"raw", i>>
MdVerdict(n) == <<"mod", n>>

MdIsText(ev) == ev \in {"t", "n"}

(* acc.length after n events: the characters of the text among them.       *)
MdAcc(n) == Cardinality({i \in 1 .. n : MdIsText(mdRaw[i])})

MdTypeOK ==
  /\ mdStrategy \in MdStrategies /\ mdTaken \in 0 .. Len(mdRaw)
  /\ mdAt \in {"pull", "moderate", "give", "last", "race", "yielded", "over", "left"}
  /\ mdRawDone \in BOOLEAN /\ mdChecked \in 0 .. Len(mdRaw) /\ mdPending \subseteq mdAsked /\ mdAsked \subseteq 1 .. Len(mdRaw)

MdInit ==
  /\ mdStrategy \in MdStrategies /\ mdRaw \in [1 .. MdLength -> MdEvents]
  /\ mdTaken = 0 /\ mdChecked = 0 /\ mdHold = <<>> /\ mdPending = {} /\ mdAsked = {} /\ mdRawDone = FALSE
  /\ mdWinner = MdNone /\ mdOut = <<>> /\ mdReport = [last |-> 0, told |-> FALSE]
  /\ mdAt = IF mdStrategy = "parallel" THEN "race" ELSE "pull"

(* stream()'s own loop: every event is folded and handed to the consumer.  *)
MdFold(evs) ==
  LET mods == {i \in DOMAIN evs : evs[i][1] = "mod"}
  IN  IF mods = {} THEN mdReport
      ELSE [mdReport EXCEPT !.last = evs[CHOOSE i \in mods : \A j \in mods : j <= i][2]]

MdGive(evs) == mdOut' = mdOut \o evs /\ mdReport' = MdFold(evs)

MdDue(taken) == MdAcc(taken) - mdChecked >= MdInterval \/ mdRaw[taken] = "n"

-----------------------------------------------------------------------------

(* wrapPost: forward, and one verdict at the end if there was any text.    *)
MdPostPull ==
  /\ mdStrategy = "post" /\ mdAt = "pull"
  /\ IF mdTaken < Len(mdRaw)
     THEN mdTaken' = mdTaken + 1 /\ MdGive(<<MdRawEv(mdTaken + 1)>>) /\ UNCHANGED <<mdAt, mdAsked>>
     ELSE /\ UNCHANGED <<mdTaken, mdOut, mdReport>>
          /\ mdAt' = IF MdAcc(mdTaken) > 0 THEN "last" ELSE "over"
          /\ mdAsked' = mdAsked \cup ({MdAcc(mdTaken)} \ {0})
  /\ UNCHANGED <<mdStrategy, mdRaw, mdChecked, mdHold, mdPending, mdRawDone, mdWinner>>

MdReleaseFirst(event) == mdHold \o <<event>>

(* wrapBuffer: the verdict goes out before what it was held for.           *)
MdRelease(event) == <<event>> \o mdHold

MdBufferPull ==
  /\ mdStrategy = "buffer" /\ mdAt = "pull"
  /\ IF mdTaken < Len(mdRaw)
     THEN LET n == mdTaken + 1
              due == MdIsText(mdRaw[n]) /\ MdDue(n)
          IN  /\ mdTaken' = n /\ mdHold' = Append(mdHold, MdRawEv(n))
              /\ mdChecked' = IF due THEN MdAcc(n) ELSE mdChecked
              /\ mdAsked' = IF due THEN mdAsked \cup {MdAcc(n)} ELSE mdAsked
              /\ mdAt' = IF due THEN "moderate" ELSE "pull"
     ELSE /\ UNCHANGED <<mdTaken, mdHold, mdChecked>>
          /\ mdAsked' = IF MdAcc(mdTaken) > mdChecked THEN mdAsked \cup {MdAcc(mdTaken)} ELSE mdAsked
          /\ mdAt' = IF MdAcc(mdTaken) > mdChecked THEN "last" ELSE "give"
  /\ UNCHANGED <<mdStrategy, mdRaw, mdPending, mdRawDone, mdWinner, mdOut, mdReport>>

(* The awaited moderate() settles, with a result or with its error.        *)
MdJudged ==
  /\ mdStrategy \in {"post", "buffer"} /\ mdAt \in {"moderate", "last"}
  /\ MdGive(MdRelease(MdVerdict(MdAcc(mdTaken))))
  /\ mdHold' = <<>>
  /\ mdAt' = IF mdAt = "moderate" THEN "pull" ELSE "over"
  /\ UNCHANGED <<mdStrategy, mdRaw, mdTaken, mdChecked, mdPending, mdRawDone, mdAsked, mdWinner>>

(* What is held at the end and holds no text that was not judged.          *)
MdFlush ==
  /\ mdStrategy = "buffer" /\ mdAt = "give"
  /\ MdGive(mdHold) /\ mdHold' = <<>> /\ mdAt' = "over"
  /\ UNCHANGED <<mdStrategy, mdRaw, mdTaken, mdChecked, mdPending, mdRawDone, mdAsked, mdWinner>>

-----------------------------------------------------------------------------

(* wrapParallel.  rawNext is under way until the stream is done, beside    *)
(* the moderations that are pending: the first to settle wins the race.    *)
MdRawLands ==
  /\ mdStrategy = "parallel" /\ mdAt = "race" /\ mdWinner = MdNone /\ ~mdRawDone
  /\ mdWinner' = MdRawEv(mdTaken + 1)
  /\ UNCHANGED <<mdStrategy, mdRaw, mdTaken, mdAt, mdChecked, mdHold, mdPending, mdAsked, mdRawDone, mdOut, mdReport>>

(* schedule's then: the promise leaves pending whoever is racing it.       *)
MdModLands(n) ==
  /\ n \in mdPending
  /\ mdPending' = mdPending \ {n}
  /\ mdWinner' = IF mdAt = "race" /\ mdWinner = MdNone THEN MdVerdict(n) ELSE mdWinner
  /\ UNCHANGED <<mdStrategy, mdRaw, mdTaken, mdAt, mdChecked, mdHold, mdAsked, mdRawDone, mdOut, mdReport>>

MdSchedule(n) == mdPending' = mdPending \cup {n} /\ mdAsked' = mdAsked \cup {n}

(* The loop ends when nothing is left to race.                             *)
MdRacesOn == IF ~mdRawDone' \/ mdPending' # {} THEN "race" ELSE "over"

MdResume ==
  /\ mdAt = "race" /\ mdWinner # MdNone
  /\ mdWinner' = MdNone
  /\ IF mdWinner = MdRawEv(Len(mdRaw) + 1)
     THEN /\ mdRawDone' = TRUE
          /\ IF MdAcc(mdTaken) > mdChecked THEN MdSchedule(MdAcc(mdTaken)) ELSE UNCHANGED <<mdPending, mdAsked>>
          /\ mdAt' = MdRacesOn /\ UNCHANGED <<mdTaken, mdOut, mdReport>>
     ELSE /\ MdGive(<<mdWinner>>) /\ mdAt' = "yielded"
          /\ mdTaken' = IF mdWinner[1] = "raw" THEN mdTaken + 1 ELSE mdTaken
          /\ UNCHANGED <<mdRawDone, mdPending, mdAsked>>
  /\ UNCHANGED <<mdStrategy, mdRaw, mdChecked, mdHold>>

(* The consumer asks for more: the text it was given now counts.           *)
MdPulled ==
  /\ mdAt = "yielded"
  /\ LET due == Last(mdOut)[1] = "raw" /\ MdIsText(mdRaw[mdTaken]) /\ MdAcc(mdTaken) - mdChecked >= MdInterval
     IN  IF due THEN mdChecked' = MdAcc(mdTaken) /\ MdSchedule(MdAcc(mdTaken))
         ELSE UNCHANGED <<mdChecked, mdPending, mdAsked>>
  /\ UNCHANGED <<mdStrategy, mdRaw, mdTaken, mdHold, mdRawDone, mdWinner, mdOut, mdReport>>
  /\ mdAt' = MdRacesOn

-----------------------------------------------------------------------------

(* The consumer leaves, or the raw stream throws: no onCompletion.         *)
MdLeave ==
  /\ mdAt \in {"pull", "race", "yielded"}
  /\ mdAt' = "left"
  /\ UNCHANGED <<mdStrategy, mdRaw, mdTaken, mdChecked, mdHold, mdPending, mdAsked, mdRawDone, mdWinner, mdOut, mdReport>>

(* The stream is over: onCompletion, with the report.                      *)
MdEnd ==
  /\ mdAt = "over" /\ ~mdReport.told
  /\ mdReport' = [mdReport EXCEPT !.told = TRUE]
  /\ UNCHANGED <<mdStrategy, mdRaw, mdTaken, mdAt, mdChecked, mdHold, mdPending, mdAsked, mdRawDone, mdWinner, mdOut>>

MdNext ==
  \/ MdPostPull \/ MdBufferPull \/ MdJudged \/ MdFlush
  \/ MdRawLands \/ (\E n \in mdPending : MdModLands(n)) \/ MdResume \/ MdPulled
  \/ MdLeave \/ MdEnd

MdSpec == MdInit /\ [][MdNext]_mdVars

-----------------------------------------------------------------------------

(* Moderation never reorders, repeats or swallows what the provider        *)
(* streamed; a buffered text is given only after a verdict that covers it; *)
(* and a stream that ends reports, unless verdicts race the text, on all   *)
(* of it.                                                                  *)
MdGivenRaw == SelectSeq(mdOut, LAMBDA e : e[1] = "raw")

MdFaithful ==
  /\ \A i \in DOMAIN MdGivenRaw : MdGivenRaw[i] = MdRawEv(i)
  /\ mdAt = "over" => Len(MdGivenRaw) = Len(mdRaw)
  /\ mdStrategy = "buffer" =>
       \A i \in DOMAIN mdOut : (mdOut[i][1] = "raw" /\ MdIsText(mdRaw[mdOut[i][2]])) =>
         \E j \in 1 .. i - 1 : mdOut[j][1] = "mod" /\ mdOut[j][2] >= MdAcc(mdOut[i][2])
  /\ (mdAt = "over" /\ mdStrategy # "parallel") => mdReport.last = MdAcc(Len(mdRaw))

(* Every verdict asked for is given to the consumer (runner.ts: "surface   *)
(* each result as soon as it resolves").                                   *)
MdEveryVerdictSurfaces ==
  mdAt = "over" => \A n \in mdAsked : \E i \in DOMAIN mdOut : mdOut[i] = MdVerdict(n)
=============================================================================
