----------------------------- MODULE MCNetwork -----------------------------
(***************************************************************************)
(* The network layer on small instances: the queue whose hooks throw, the  *)
(* engine's buckets and named queues, the MCP transport, client and OAuth  *)
(* flow, the streams, and the plugins that only listen: telemetry, cost    *)
(* and calibration.  No two of these share state here, so a behaviour      *)
(* takes the steps of one of them, the part on turn, and leaves the others *)
(* as they start.                                                          *)
(***************************************************************************)
EXTENDS MCQueueState, NetworkEngine, McpTransport, McpClient, McpOauth, Streams,
        Telemetry, CostCollector, Calibration

VARIABLE turn

(* Calls with a price and without, on two tiers, of two providers.         *)
NwCalls ==
  {[provider |-> "openai", model |-> "priced", tag |-> "x", units |-> 1, told |-> -1, tier |-> "standard"],
   [provider |-> "openai", model |-> "priced", tag |-> "y", units |-> 2, told |-> -1, tier |-> "flex"],
   [provider |-> "openai", model |-> "unpriced", tag |-> "x", units |-> 1, told |-> 3, tier |-> "standard"],
   [provider |-> "xai", model |-> "priced", tag |-> "y", units |-> 2, told |-> 3, tier |-> "standard"]}
NwBudget(id, limit, key, value, thresholds, stop) ==
  [id |-> id, limit |-> limit, scope |-> [key |-> key, value |-> value], thresholds |-> thresholds, stop |-> stop]
NwBudgets ==
  {NwBudget("all", 4, "all", "", {50}, TRUE), NwBudget("xai", 3, "provider", "xai", {50}, FALSE),
   NwBudget("tag", 4, "tag", "x", {100}, TRUE)}

NetworkParts == {"queue", "clock", "named", "transport", "client", "oauth", "sse", "realtime",
                 "telemetry", "cost", "calibration"}

(* A part that is not on turn starts in one state only.                    *)
NetworkInit ==
  /\ turn \in NetworkParts
  /\ Init /\ NeInit
  /\ TpInit /\ (turn # "transport" => tpKind = "stdio")
  /\ RtInit /\ (turn # "realtime" => rtKind = "openai")
  /\ OaInit /\ (turn # "oauth" => oaClient = "absent" /\ oaTokens = 0 /\ ~oaForeign)
  /\ McInit /\ (turn # "client" => /\ mcFocus = "calls" /\ mcFetch = "engine"
                                   /\ mcSrv.speaks = {"hand"} /\ mcSrv.keeps)
  /\ StInit /\ (turn # "sse" => stText = <<>>)
  /\ IF turn = "calibration" THEN TRUE ELSE caStrategy = [m \in CaModels |-> "heuristic"] /\ caPeer = FALSE /\ caKeyed = FALSE
  /\ TlInit /\ CcInit /\ CaInit

observerVars == <<tlVars, ccVars, caVars>>
carrierVars == <<vars, neVars, tpVars, mcVars, oaVars, stVars, rtVars>>

NetworkNext ==
  /\ \/ turn = "queue" /\ Next /\ UNCHANGED <<neVars, tpVars, mcVars, oaVars, stVars, rtVars, observerVars>>
     \/ turn = "clock" /\ NeClockNext /\ UNCHANGED <<vars, tpVars, mcVars, oaVars, stVars, rtVars, observerVars>>
     \/ turn = "named" /\ NeMapNext /\ UNCHANGED <<vars, tpVars, mcVars, oaVars, stVars, rtVars, observerVars>>
     \/ turn = "transport" /\ TpNext /\ UNCHANGED <<vars, neVars, mcVars, oaVars, stVars, rtVars, observerVars>>
     \/ turn = "client" /\ McNext /\ UNCHANGED <<vars, neVars, tpVars, oaVars, stVars, rtVars, observerVars>>
     \/ turn = "oauth" /\ OaNext /\ UNCHANGED <<vars, neVars, tpVars, mcVars, stVars, rtVars, observerVars>>
     \/ turn = "sse" /\ StNext /\ UNCHANGED <<vars, neVars, tpVars, mcVars, oaVars, rtVars, observerVars>>
     \/ turn = "realtime" /\ RtNext /\ UNCHANGED <<vars, neVars, tpVars, mcVars, oaVars, stVars, observerVars>>
     \/ turn = "telemetry" /\ TlNext /\ UNCHANGED <<carrierVars, ccVars, caVars>>
     \/ turn = "cost" /\ CcNext /\ UNCHANGED <<carrierVars, tlVars, caVars>>
     \/ turn = "calibration" /\ CaNext /\ UNCHANGED <<carrierVars, tlVars, ccVars>>
  /\ UNCHANGED turn

NetworkVars == <<turn, carrierVars, observerVars>>
NetworkSpec ==
  /\ NetworkInit /\ [][NetworkNext]_NetworkVars
  /\ WF_NetworkVars(turn = "transport" /\ TpFair /\ UNCHANGED <<turn, vars, neVars, mcVars, oaVars, stVars, rtVars, observerVars>>)

-----------------------------------------------------------------------------
(* Every variable of the engine, the MCP client, the streams and the       *)
(* observers keeps its type.                                               *)
NetworkTypeOK ==
  /\ turn \in NetworkParts /\ NeTypeOK /\ TpTypeOK /\ McTypeOK /\ OaTypeOK /\ StTypeOK
  /\ turn = "telemetry" => TlTypeOK
  /\ turn = "cost" => CcTypeOK
  /\ turn = "calibration" => CaTypeOK

(* The limits a caller sets hold across everything that happens in         *)
(* between: a request leaves with its tokens unless a pause or a header    *)
(* changed a bucket while the loop slept (rate-limiter.ts, queue-state.ts  *)
(* loop), a queue obeys the settings it was created with for as long as    *)
(* its name stands (engine.ts configureQueue, dropQueue), and a request is *)
(* sent no more often than its retry budget allows, whichever hooks throw  *)
(* (queue-state.ts handleRetry, connect).                                  *)
LimitsHold == NeSendsAreCovered /\ NeQueueObeysSettings /\ RetryBudget

(* Over one MCP connection an answer reaches the caller that asked and no  *)
(* other, and an open subscription is known to whoever must end it.        *)
McpDelivers == TpAnswersReachTheirCallers /\ TpSubscriptionsTended

(* The MCP client agrees with its server on an era, rebuilds a session one *)
(* call at a time, and keeps no listing older than the last change it was  *)
(* told of, except one that was under way then; and a grant that was       *)
(* accepted once is in the store, not one it replaced (oauth.ts).          *)
McpClientHolds == McAutoAgrees /\ McOneRecovery /\ McOnlyRacedListsAreStale /\ OaGrantKept

(* Where the chunks of an event stream are cut does not show in its events *)
(* (sse.ts), and a realtime session writes the frames in the order of the  *)
(* calls, after its setup (session.ts).                                    *)
StreamsFaithful == StChunksDoNotShow /\ RtFramesInCallOrder

(* What observes the calls records what happened: the span tree holds      *)
(* under filters and overlapping runs and tells the tokens of a run once   *)
(* (telemetry.ts), the ledger adds up and a budget fires when it is        *)
(* reached (collector.ts), and a learned rate is what was measured         *)
(* (calibration-store.ts, estimator.ts).                                   *)
ObserversFaithful ==
  /\ turn = "telemetry" => TlStackIsWhatIsOpen /\ TlFilteredTreeHolds /\ TlTokensToldOnce
  /\ turn = "cost" => CcFaithful
  /\ turn = "calibration" => CaRatesAreLearned
=============================================================================
