------------------------------ MODULE MCPlugins ------------------------------
(***************************************************************************)
(* The plugins and services around the calls on small instances: the       *)
(* OpenAI-compatible server, tools and the agent bus, media, files, the    *)
(* stores, retrieval, internal tools and the model catalog.  No two of     *)
(* these share state here: a behaviour takes the steps of the part on turn *)
(* and leaves the others as they start.                                    *)
(***************************************************************************)
EXTENDS Server, Tools, Media, Files, Stores, Retrieval, InternalTools,
        Catalog

VARIABLE turn

(* Two turns of one conversation and one request of another kind.          *)
PgChat(i) == [id |-> i, route |-> "chat", key |-> "u1", user |-> "none", model |-> "m1", body |-> "ok", throws |-> "none"]
PgOther ==
  {[PgChat(3) EXCEPT !.key = "u2", !.user = "u1"], [PgChat(3) EXCEPT !.key = "unknown"], [PgChat(3) EXCEPT !.user = "v"],
   [PgChat(3) EXCEPT !.key = "unknown", !.throws = "onAuthFail"],
   [PgChat(3) EXCEPT !.key = "unknown", !.throws = "onServerResponse"],
   [PgChat(3) EXCEPT !.throws = "onServerRequest"],
   [PgChat(3) EXCEPT !.throws = "onServerResponse"], [PgChat(3) EXCEPT !.body = "malformed"],
   [PgChat(3) EXCEPT !.body = "no_user"], [PgChat(3) EXCEPT !.route = "options"],
   [PgChat(3) EXCEPT !.route = "health"], [PgChat(3) EXCEPT !.route = "other"]}
PgWorkloads == {{PgChat(1), PgChat(2), other} : other \in PgOther}

(* One agent, an own tool and an external one, a scope with a policy.      *)
PgToolCalls == {[id |-> 1, agent |-> "a1", tool |-> "out"], [id |-> 2, agent |-> "a1", tool |-> "in"]}
PgScopes ==
  {[names |-> {"out"}, external |-> TRUE,
    policy |-> <<[source |-> "a1", action |-> "read", effect |-> "allow"], [source |-> "*", action |-> "*", effect |-> "deny"]>>]}
PgOrder == <<[name |-> 1, pattern |-> "*"], [name |-> 2, pattern |-> "tool.*"]>>
PgLazy ==
  <<[name |-> "h", words |-> {"file", "url"}, nameWords |-> {}], [name |-> "g", words |-> {"read", "url"}, nameWords |-> {"url"}],
    [name |-> "f", words |-> {"file", "read"}, nameWords |-> {"file"}]>>

PgMedia(i, p, k, e) == [id |-> i, provider |-> p, kind |-> k, extends |-> e]
PgMediaCalls ==
  {PgMedia(1, "google", "video", FALSE), PgMedia(2, "xai", "image", FALSE), PgMedia(5, "xai", "video", TRUE),
   PgMedia(3, "openrouter", "video", FALSE), PgMedia(4, "openai", "audio", FALSE)}

(* One file named by two requests to one provider, and by a third to one   *)
(* without a file store.                                                   *)
PgFile(i, c, s, k) == [id |-> i, content |-> c, size |-> s, kind |-> k]
PgBytes == PgFile(1, "bytes", 40, "text")
PgUrl == PgFile(2, "url", 0, "text")
PgImage == PgFile(3, "bytes", 40, "image")
PgFiles == {PgBytes, PgUrl}
PgPart(t, f) == [type |-> t, file |-> f]
PgMessages ==
  ("a" :> <<PgPart("other", PgUrl), PgPart("path", PgImage)>>) @@ ("b" :> <<PgPart("file", PgBytes), PgPart("path", PgUrl)>>)
  @@ ("c" :> <<PgPart("path", PgImage), PgPart("file", PgUrl)>>)
PgRequest(i, p, m) == [id |-> i, provider |-> p, message |-> m]
PgRequests == {PgRequest(1, "google", "b"), PgRequest(2, "google", "b"), PgRequest(3, "xai", "a"), PgRequest(4, "openai", "c")}

PgCacheNames == {<<"a">>}
PgCacheKeys == {<<"k">>, <<"b", "k">>, <<"w">>}
PgSettings == {"x" :> 1, ("x" :> 2) @@ ("y" :> 1)}

PgJob(op, c, d, n) == [op |-> op, corpus |-> c, doc |-> d, chunks |-> n]
PgVectorJobs == {PgJob("add", "c1", "d1", 2), PgJob("add", "c2", "d2", 1), PgJob("remove", "c1", "d0", 0), PgJob("drop", "c2", "d2", 0)}
PgStored == {[corpus |-> "c1", doc |-> "d0", i |-> 1], [corpus |-> "c2", doc |-> "d3", i |-> 1]}
PgScore == ("d0" :> 2) @@ ("d1" :> 3) @@ ("d2" :> 1) @@ ("d3" :> 3)

PgLookups == {[id |-> 1, tool |-> "t1"], [id |-> 2, tool |-> "t2"]}
PgRuns == {[id |-> 1, models |-> <<"m1", "m2", "m3">>], [id |-> 2, models |-> <<"m2", "m1">>], [id |-> 3, models |-> <<>>]}
PgProvider == ("m1" :> "openai") @@ ("m2" :> "openai") @@ ("m3" :> "xai")

(* Names that differ in spelling, one id in use as another's slug, models  *)
(* that are gone or past their day.                                        *)
PgName(b, s) == [base |-> b, spelling |-> s]
PgEntry(name, id, aliases, gone, shutdown, price, version) ==
  [name |-> name, id |-> id, aliases |-> aliases, gone |-> gone, active |-> ~gone, shutdown |-> shutdown,
   price |-> price, version |-> version]
PgCatalogs ==
  {<<PgEntry(PgName("g", "-"), {PgName("g4", "-")}, {PgName("gl", "-")}, FALSE, {}, 2, 1),
     PgEntry(PgName("h", "."), {}, {PgName("g4", ".")}, FALSE, {0}, 1, 2)>>,
   <<PgEntry(PgName("h", "-"), {PgName("h", "-")}, {}, FALSE, {1}, 1, 3)>>,
   <<PgEntry(PgName("i", "-"), {PgName("i0", "-")}, {PgName("i1", "-")}, TRUE, {}, 1, 1)>>,
   <<PgEntry(PgName("g", "-"), {PgName("g5", "-")}, {}, FALSE, {1}, 2, 2),
     PgEntry(PgName("gl", "."), {PgName("gl", "-")}, {PgName("gl", "-")}, FALSE, {}, 3, 1)>>,
   <<PgEntry(PgName("g4", "."), {}, {}, FALSE, {}, 1, 1)>>}
PgModelNames == {PgName(b, s) : b \in {"g", "g4", "gl", "h", "i", "i0", "g5"}, s \in {"-", "."}}
PluginParts ==
  {"server", "responses", "tools", "lazy", "media",
   "files", "cache", "configuration", "chunker", "vectors", "hosted", "registry", "runner", "catalog"}

(* A part that is not on turn starts in one state only.                    *)
PluginsInit ==
  /\ turn \in PluginParts
  /\ IF turn = "server" THEN TRUE ELSE svRequests = CHOOSE w \in SvWorkloads : TRUE
  /\ IF turn = "tools" THEN TRUE ELSE toScope = [a \in ToAgents |-> ToNone]
  /\ IF turn = "cache" THEN TRUE ELSE chKind = "memory"
  /\ IF turn = "chunker" THEN TRUE ELSE rvText = [p \in 0 .. RvLength - 1 |-> FALSE]
  /\ SvInit /\ ToInit /\ MeInit /\ FiInit
  /\ ChInit /\ CfInit /\ RvInit /\ VsInit /\ HrInit /\ RgInit /\ ItInit /\ MgInit

serviceVars == <<svVars, toVars, meVars, fiVars>>
storeVars == <<chVars, cfVars, rvVars, vsVars, hrVars, mgVars>>
runnerVars == <<rgVars, itVars>>
PluginsVars == <<turn, serviceVars, storeVars, runnerVars>>
PluginsNext ==
  /\ \/ turn = "server" /\ SvRequestNext /\ UNCHANGED svStoreVars /\ UNCHANGED <<toVars, meVars, fiVars, storeVars, runnerVars>>
     \/ turn = "responses" /\ SvStoreNext /\ UNCHANGED svRequestVars /\ UNCHANGED <<toVars, meVars, fiVars, storeVars, runnerVars>>
     \/ turn = "tools" /\ ToCatalogNext /\ UNCHANGED <<svVars, meVars, fiVars, storeVars, runnerVars>>
     \/ turn = "lazy" /\ LzNext /\ UNCHANGED <<svVars, meVars, fiVars, storeVars, runnerVars>>
     \/ turn = "media" /\ MeNext /\ UNCHANGED <<svVars, toVars, fiVars, storeVars, runnerVars>>
     \/ turn = "files" /\ FiNext /\ UNCHANGED <<svVars, toVars, meVars, storeVars, runnerVars>>
     \/ turn = "cache" /\ ChNext /\ UNCHANGED <<serviceVars, cfVars, rvVars, vsVars, hrVars, mgVars, runnerVars>>
     \/ turn = "configuration" /\ CfNext /\ UNCHANGED <<serviceVars, chVars, rvVars, vsVars, hrVars, mgVars, runnerVars>>
     \/ turn = "chunker" /\ RvNext /\ UNCHANGED <<serviceVars, chVars, cfVars, vsVars, hrVars, mgVars, runnerVars>>
     \/ turn = "vectors" /\ VsNext /\ UNCHANGED <<serviceVars, chVars, cfVars, rvVars, hrVars, mgVars, runnerVars>>
     \/ turn = "hosted" /\ HrNext /\ UNCHANGED <<serviceVars, chVars, cfVars, rvVars, vsVars, mgVars, runnerVars>>
     \/ turn = "registry" /\ RgNext /\ UNCHANGED <<serviceVars, storeVars, itVars>>
     \/ turn = "runner" /\ ItNext /\ UNCHANGED <<serviceVars, storeVars, rgVars>>
     \/ turn = "catalog" /\ MgNext /\ UNCHANGED <<serviceVars, chVars, cfVars, rvVars, vsVars, hrVars, runnerVars>>
  /\ UNCHANGED turn

PluginsSpec == PluginsInit /\ [][PluginsNext]_PluginsVars

-----------------------------------------------------------------------------
(* Every variable of the plugins keeps its type.                           *)
PluginsTypeOK ==
  /\ turn \in PluginParts
  /\ turn \in {"server", "responses"} => SvTypeOK
  /\ turn \in {"tools", "lazy"} => ToTypeOK
  /\ turn = "media" => MeTypeOK
  /\ turn = "files" => FiTypeOK
  /\ turn \in {"cache", "configuration"} => StoresTypeOK
  /\ turn \in {"chunker", "vectors", "hosted"} => RvTypeOK
  /\ turn \in {"registry", "runner"} => ItTypeOK
  /\ turn = "catalog" => MgTypeOK

(* A conversation keeps every turn that was answered, each request is      *)
(* reported with its status, and a cached response is the stored one,      *)
(* whatever requests overlapped (server.ts, response-store.ts).            *)
ServerFaithful == turn \in {"server", "responses"} => SvFaithful

(* A tool runs within the scope and the policy its agent had, and everyone *)
(* on the bus hears the story of a call in one order (catalog.ts,          *)
(* agent-bus.ts).                                                          *)
ToolsFaithful == turn = "tools" => ToFaithful

(* A search among lazy tools returns the best there are (lazy-tools.ts).   *)
LazyFaithful == turn = "lazy" => LzReturnsTheBest

(* A media item that is returned is stored and was announced once, with    *)
(* its usage counted once (output.ts, the adapters' media.ts).             *)
MediaFaithful == turn = "media" => MeFaithful

(* The tool a lookup finds is that of the first backend that has it, and a *)
(* run tells each attempt, on one model after another, from start to end   *)
(* (internal-tools/registry.ts, runner.ts).                                *)
RunnersFaithful == turn \in {"registry", "runner"} => ItFaithful

(* File references that are sent are live, but for a deletion under way,   *)
(* nothing is left unresolved, and nothing is uploaded twice for no reason *)
(* (files/).                                                               *)
FilesFaithful == turn = "files" => FiFaithful

(* A get answers with what was set under its key and within its lifetime,  *)
(* and an invalidation leaves nothing of what it saw (cache/).             *)
CacheFaithful == turn = "cache" => ChAnswersAreFresh /\ ChInvalidated

(* A configuration says what the nearest of its ancestors says             *)
(* (configuration.ts).                                                     *)
ConfigurationFaithful == turn = "configuration" => CfNearestWins

(* No text falls between two chunks, no passage is lost between memory and *)
(* disk, and a corpus is ready when all of it is (retrieval/).             *)
IndexFaithful == turn \in {"chunker", "vectors", "hosted"} => RvChunksCover /\ VsNothingLost /\ HrReadyMeansIndexed

(* A search over several corpora finds the best of them all (local.ts).    *)
SearchFaithful == turn = "vectors" => VsSearchIsGlobal

(* A model is called under the entry it was priced by, and one that is     *)
(* recommended can be called (catalog.ts, select-model.ts).                *)
CatalogFaithful == turn = "catalog" => MgFaithful

(* What the services promise, each of them on its turn.                    *)
ServicesFaithful ==
  /\ ServerFaithful
  /\ ToolsFaithful
  /\ MediaFaithful
  /\ RunnersFaithful
  /\ FilesFaithful
  /\ CacheFaithful
  /\ IndexFaithful
  /\ CatalogFaithful

(* Who looks among several gets the best there is: the lazy tools that     *)
(* score highest, the value of the nearest ancestor, the passages of all   *)
(* corpora that score highest (lazy-tools.ts, configuration.ts, local.ts). *)
LookupsFindTheBest ==
  /\ LazyFaithful
  /\ ConfigurationFaithful
  /\ SearchFaithful
=============================================================================
