-------------------------------- MODULE Wire --------------------------------
(***************************************************************************)
(* The wire specs and their interpreter (wire/inherit.ts, interpreter.ts): *)
(* a chain of deltas is resolved to a spec, and the spec builds a body     *)
(* from a request: fields, then blocks, then the overlay of the flavor.    *)
(*                                                                         *)
(* A JSON value is the set of its leaves, each a path and a scalar: a      *)
(* scalar is one leaf at the empty path, an array's keys are 1, 2, ...     *)
(* Empty objects and arrays are not told from absence.  Scalars are        *)
(* strings; "" stands for every falsy one.                                 *)
(***************************************************************************)
EXTENDS Integers, Sequences, FiniteSets, SequencesExt, Functions

CONSTANTS
  WiDeltas,    \* spec id |-> its delta
  WiSpecIds,   \* the ids a request may be built from
  WiFlavors,   \* flavors
  WiRequests,  \* requests: values
  WiBuilds     \* bound: requests built with the same options object

VARIABLES
  wiSpec, wiFlavor,
  wiReq,       \* the request, as the caller's object is now
  wiAsked,     \* the request, as the caller wrote it
  wiBody,      \* ctx.body
  wiShared,    \* first keys of the body that hold an object of the request: key |-> where
  wiAt,        \* the stage and the rule in it
  wiLog,       \* writes and deletions, in order
  wiBuilt      \* requests built

wiVars == <<wiSpec, wiFlavor, wiReq, wiAsked, wiBody, wiShared, wiAt, wiLog, wiBuilt>>

WiUndef == {}
WiScalar(v) == {[p |-> <<>>, v |-> v]}
WiAt(prefix, sub) == {[p |-> prefix \o l.p, v |-> l.v] : l \in sub}
WiIsObj(sub) == sub # WiUndef /\ \A l \in sub : l.p # <<>>
WiTruthy(sub) == sub # WiUndef /\ sub # WiScalar("")
WiRelated(p, q) == IsPrefix(p, q) \/ IsPrefix(q, p)

(* getPath, setPath (a scalar on the way becomes an object), deletePath.   *)
WiGet(tree, path) == {[p |-> SubSeq(l.p, Len(path) + 1, Len(l.p)), v |-> l.v] : l \in {l \in tree : IsPrefix(path, l.p)}}
WiUnset(tree, path) == {l \in tree : ~IsPrefix(path, l.p)}
WiSet(tree, path, sub) == {l \in tree : ~WiRelated(path, l.p)} \cup WiAt(path, sub)

(* deepMerge: what the source says replaces what is in its way.            *)
WiMerge(target, source) ==
  IF ~WiIsObj(source) \/ ~(target = WiUndef \/ WiIsObj(target)) THEN source
  ELSE source \cup {t \in target : \A s \in source : ~WiRelated(s.p, t.p)}

(* Object.assign: whole keys.                                              *)
WiAssign(target, source) ==
  {t \in target : \A s \in source : s.p[1] # t.p[1]} \cup source

-----------------------------------------------------------------------------

(* evalCond, for the conditions on a request, an item and the flavor.      *)
RECURSIVE WiCond(_, _)
WiCond(c, ctx) ==
  CASE c.op = "true" -> TRUE
    [] c.op = "defined" -> WiGet(ctx.req, c.path) # WiUndef
    [] c.op = "truthy" -> WiTruthy(WiGet(ctx.req, c.path))
    [] c.op = "eq" -> WiGet(ctx.req, c.path) = WiScalar(c.value)
    [] c.op = "flavor" -> ctx.flavor = c.value
    [] c.op = "itemTruthy" -> WiTruthy(WiGet(ctx.item, c.path))
    [] c.op = "isLast" -> ctx.last
    [] c.op = "not" -> ~WiCond(c.of, ctx)
    [] c.op = "all" -> \A i \in DOMAIN c.of : WiCond(c.of[i], ctx)
    [] c.op = "any" -> \E i \in DOMAIN c.of : WiCond(c.of[i], ctx)

(* The items of an array, in order.                                        *)
WiIndex == <<"1", "2", "3">>

WiItems(arr) == [i \in 1 .. Cardinality({l.p[1] : l \in arr}) |-> WiGet(arr, <<WiIndex[i]>>)]

(* evalTemplate: a key, an element or an item that is OMIT leaves nothing. *)
RECURSIVE WiEval(_, _)
WiEval(t, ctx) ==
  CASE t.op = "lit" -> WiScalar(t.value)
    [] t.op = "path" -> LET v == WiGet(ctx.req, t.path) IN IF v # WiUndef THEN v ELSE t.default
    [] t.op = "item" -> LET v == WiGet(ctx.item, t.path) IN IF v # WiUndef THEN v ELSE t.default
    [] t.op = "when" -> IF WiCond(t.cond, ctx) THEN WiEval(t.value, ctx) ELSE WiUndef
    [] t.op = "table" -> LET k == WiGet(ctx.req, t.path)
                         IN  IF \E e \in t.table : WiScalar(e[1]) = k
                             THEN WiScalar((CHOOSE e \in t.table : WiScalar(e[1]) = k)[2]) ELSE t.default
    [] t.op = "obj" -> UNION {WiAt(<<k>>, WiEval(t.of[k], ctx)) : k \in DOMAIN t.of}
    [] t.op = "map" ->
         LET items == WiItems(WiGet(ctx.req, t.path))
             at(i) == [ctx EXCEPT !.item = items[i], !.last = (i = Len(items))]
             takes(i) == {n \in DOMAIN t.cases : WiCond(t.cases[n].when, at(i))}
             first(i) == CHOOSE n \in takes(i) : \A m \in takes(i) : n <= m
             value(i) == IF takes(i) = {} THEN WiUndef ELSE WiEval(t.cases[first(i)].value, at(i))
             kept == SelectSeq([i \in DOMAIN items |-> value(i)], LAMBDA v : v # WiUndef)
         IN  UNION {WiAt(<<WiIndex[i]>>, kept[i]) : i \in DOMAIN kept}

-----------------------------------------------------------------------------
(* Inheritance.                                                            *)

WiKeyed(list, key) == {i \in DOMAIN list : list[i].key = key}
WiKeys(list) == {list[i].key : i \in DOMAIN list}

(* mergeKeyed: a rule of the same key is replaced where it stands.         *)
WiMergeKeyed(base, child) ==
  FoldLeft(LAMBDA acc, c : IF WiKeyed(acc, c.key) # {}
                           THEN [i \in DOMAIN acc |-> IF acc[i].key = c.key THEN c ELSE acc[i]]
                           ELSE Append(acc, c), base, child)

WiRemoveFirst(list, names) == SelectSeq(list, LAMBDA r : r.key \notin names \/ r = Head(list))

(* removeFields, removeBlocks.                                             *)
WiRemove(list, names) == SelectSeq(list, LAMBDA r : r.key \notin names)

(* place, one entry: taken out, and put back beside its anchor.            *)
WiPlaceOne(list, to) ==
  LET item == list[CHOOSE i \in WiKeyed(list, to.name) : TRUE]
      rest == SelectSeq(list, LAMBDA r : r.key # to.name)
      j == CHOOSE i \in WiKeyed(rest, to.anchor) : TRUE
  IN  InsertAt(rest, IF to.before THEN j ELSE j + 1, item)

WiPlace(list, places) == FoldLeft(WiPlaceOne, list, places)

(* requirePresent and place's own checks: a delta that names nothing.      *)
WiDeltaFits(base, d) ==
  /\ d.removeFields \subseteq WiKeys(WiMergeKeyed(base.fields, d.fields))
  /\ d.removeBlocks \subseteq WiKeys(WiMergeKeyed(base.blocks, d.blocks))

(* applyDelta.  A child's overlay for a flavor replaces the base's.        *)
WiApplyDelta(base, d) ==
  [fields |-> WiRemove(WiMergeKeyed(base.fields, d.fields), d.removeFields),
   blocks |-> WiPlace(WiRemove(WiMergeKeyed(base.blocks, d.blocks), d.removeBlocks), d.places),
   overlays |-> [f \in WiFlavors |-> IF f \in DOMAIN d.overlays THEN d.overlays[f] ELSE base.overlays[f]]]

WiEmptySpec == [fields |-> <<>>, blocks |-> <<>>, overlays |-> [f \in WiFlavors |-> <<>>]]

(* resolveSpec: the chain from its root, which a cycle never reaches.      *)
RECURSIVE WiResolve(_)
WiResolve(id) ==
  LET d == WiDeltas[id] IN WiApplyDelta(IF d.extends = "" THEN WiEmptySpec ELSE WiResolve(d.extends), d)

-----------------------------------------------------------------------------
(* The registries the specs are served from, each id with the one it       *)
(* extends ("" for a root).                                                *)

WiNames(area, ops) == {area \o op : op \in ops}
WiUnder(parent, ids) == [id \in ids |-> parent]
WiRoots(ids) == WiUnder("", ids)

WiChatSpecs ==
  WiRoots({"anthropic/messages@4.0", "google/generate@2.5", "google/interactions", "openai/chat-completions", "openai/responses"})
  @@ [id \in {"anthropic/messages@4.1"} |-> "anthropic/messages@4.0"]
  @@ [id \in {"anthropic/messages@4.6"} |-> "anthropic/messages@4.1"]
  @@ [id \in {"anthropic/messages@4.7"} |-> "anthropic/messages@4.6"]
  @@ [id \in {"google/generate@3"} |-> "google/generate@2.5"]

WiServiceSpecs ==
  WiRoots({"openai/embeddings", "google/embeddings", "openai/realtime", "google/realtime", "xai/media.base", "openrouter/media.base",
           "openai/moderations", "openai/transcriptions", "xai/videos.status", "xai/videos.cancel", "xai/media.download"})
  @@ WiRoots(WiNames("google/files.", {"startUpload", "delete", "list", "finishUpload"}))
  @@ WiRoots(WiNames("google/batch.", {"submit", "getStatus", "cancel", "getResults"}))
  @@ WiRoots({"anthropic/batch.base", "openai/batch.base", "xai/batch.base", "anthropic/files.base", "openai/files.base"})
  @@ WiUnder("openai/embeddings", {"openrouter/embeddings"}) @@ WiUnder("google/files.delete", {"google/files.getInfo"})
  @@ WiUnder("xai/media.base", {"xai/images.base", "xai/tts"} \cup WiNames("xai/videos.", {"generations", "edits", "extensions"}))
  @@ WiUnder("xai/images.base", WiNames("xai/images.", {"generations", "edits"}))
  @@ WiUnder("openrouter/media.base", {"openrouter/media.image", "openrouter/media.audio"})
  @@ WiUnder("openrouter/media.image", {"openrouter/media.imageEdit"})
  @@ WiUnder("anthropic/batch.base", WiNames("anthropic/batch.", {"submit", "getStatus", "getResults", "cancel"}))
  @@ WiUnder("openai/batch.base", WiNames("openai/batch.", {"uploadJsonl", "getStatus", "cancel", "getResults", "create"}))
  @@ WiUnder("xai/batch.base", WiNames("xai/batch.", {"create", "addRequests", "getStatus", "getResults", "cancel"}))
  @@ WiUnder("anthropic/files.base", WiNames("anthropic/files.", {"upload", "delete", "getInfo", "list"}))
  @@ WiUnder("openai/files.base", UNION {WiNames(p, {"upload", "delete", "getInfo", "list"}) : p \in {"openai/files.", "xai/files."}})

WiServiceAbstract ==
  {"xai/media.base", "xai/images.base", "openrouter/media.base", "anthropic/batch.base", "openai/batch.base",
   "xai/batch.base", "anthropic/files.base", "openai/files.base"}

WiMediaSpecs ==
  WiRoots({"openai/media.base", "openai/videos.content", "google/media.generateContent", "google/media.predict",
           "google/media.operation.status", "google/media.operation.cancel", "google/media.download"})
  @@ WiUnder("openai/media.base", {"openai/media.images", "openai/audio.speech", "openai/videos", "openai/videos.status"})
  @@ WiUnder("openai/media.images", {"openai/images.generations", "openai/images.edits"})
  @@ WiUnder("openai/images.generations", {"openai/images.generations@dall-e"})
  @@ WiUnder("google/media.generateContent", {"google/gemini-image@generateContent", "google/gemini-tts@generateContent"})
  @@ WiUnder("google/gemini-image@generateContent", {"google/gemini-image-edit@generateContent"})
  @@ WiUnder("google/media.predict", {"google/imagen@predict", "google/veo@predictLongRunning"})

WiMediaAbstract == {"openai/media.base", "openai/media.images", "google/media.generateContent", "google/media.predict"}

WiMcpSpecs ==
  WiRoots({"mcp/http.base", "mcp-oauth/base", "mcp-oauth/authorize"})
  @@ WiUnder("mcp/http.base", WiNames("mcp/http.", {"request", "notify", "events", "close", "message"}))
  @@ WiUnder("mcp/http.request", {"mcp/http.longLived"})
  @@ WiUnder("mcp-oauth/base", WiNames("mcp-oauth/", {"discover.oauth", "discover.oidc", "register", "token.exchange", "token.refresh"}))

WiMcpAbstract == {"mcp/http.base", "mcp-oauth/base"}

WiCorpusOps == {"createCorpus", "indexStatus", "removeDocument", "deleteCorpus", "listCorpora"}

WiRetrievalSpecs ==
  WiRoots(WiNames("openai/retrieval.", {"base"}) \cup WiNames("google/retrieval.", {"base"}) \cup WiNames("xai/retrieval.", {"base"}))
  @@ WiUnder("openai/retrieval.base", WiNames("openai/retrieval.", {"json", "uploadFile"}))
  @@ WiUnder("openai/retrieval.json", WiNames("openai/retrieval.", WiCorpusOps \cup {"attachDocument"}))
  @@ WiUnder("google/retrieval.base", WiNames("google/retrieval.", {"json", "uploadFile"}))
  @@ WiUnder("google/retrieval.json", WiNames("google/retrieval.", WiCorpusOps \cup {"importFile", "pollOperation"}))
  @@ WiUnder("xai/retrieval.base", WiNames("xai/retrieval.", {"management", "standard"}))
  @@ WiUnder("xai/retrieval.standard", WiNames("xai/retrieval.", {"standardJson", "uploadFile"}))
  @@ WiUnder("xai/retrieval.standardJson", WiNames("xai/retrieval.", {"search"}))
  @@ WiUnder("xai/retrieval.management", WiNames("xai/retrieval.", WiCorpusOps \cup {"attachDocument", "listDocuments"}))

WiRetrievalAbstract ==
  UNION {WiNames(p, {"base", "json"}) : p \in {"openai/retrieval.", "google/retrieval."}}
  \cup WiNames("xai/retrieval.", {"base", "management", "standard", "standardJson"})

WiUtilitySpecs ==
  WiRoots({"anthropic/count.messages", "google/count.tokens", "xai/count.tokenize", "openai/models.list", "anthropic/models.list",
           "google/models.list", "xai/models.list", "openrouter/models.list", "openai/files.content", "anthropic/files.content",
           "google/files.content", "files/download.byUrl", "openai/provenance.check"})
  @@ WiUnder("openai/files.content", {"openai/files.content.container"})

(* chatSpec, serviceSpec, mediaSpec, mcpSpec, retrievalSpec, utilitySpec:  *)
(* a registry, and the ids that build no request.                          *)
WiChatSpec == [specs |-> WiChatSpecs, abstract |-> {}]
WiServiceSpec == [specs |-> WiServiceSpecs, abstract |-> WiServiceAbstract]
WiMediaSpec == [specs |-> WiMediaSpecs, abstract |-> WiMediaAbstract]
WiMcpSpec == [specs |-> WiMcpSpecs, abstract |-> WiMcpAbstract]
WiRetrievalSpec == [specs |-> WiRetrievalSpecs, abstract |-> WiRetrievalAbstract]
WiUtilitySpec == [specs |-> WiUtilitySpecs, abstract |-> {}]

WiRegistries == {WiChatSpec, WiServiceSpec, WiMediaSpec, WiMcpSpec, WiRetrievalSpec, WiUtilitySpec}

(* WIRE_SPECS: all of them, by id.                                         *)
WiWireSpecs == UNION {DOMAIN r.specs : r \in WiRegistries}

(* pinFor: the node of the chain for a model the catalog has no pin for.   *)
(* A rule names the models it matches; the first that does wins.           *)
WiAnthropicPins ==
  <<<<{"opus-4-6", "sonnet-4-6"}, "anthropic/messages@4.6">>,
    <<{"opus-4-1", "opus-4-5", "sonnet-4-5", "haiku-4-5"}, "anthropic/messages@4.1">>,
    <<{"3-5-sonnet"}, "anthropic/messages@4.0">>, <<{"opus-4"}, "anthropic/messages@4.0">>,
    <<{"opus-4-20250514"}, "anthropic/messages@4.0">>,
    <<{"opus-4-5", "opus-4-1", "haiku-4-1"}, "anthropic/messages@4.0">>, <<{"opus-4.5"}, "anthropic/messages@4.0">>>>

WiPinFor(model, rules, default) ==
  LET hits == {i \in DOMAIN rules : model \in rules[i][1]}
  IN  IF hits = {} THEN default ELSE rules[CHOOSE i \in hits : \A j \in hits : i <= j][2]

-----------------------------------------------------------------------------
(* buildFromSpec.                                                          *)

WiTypeOK ==
  /\ wiSpec \in WiSpecIds /\ wiFlavor \in WiFlavors /\ wiBuilt \in 0 .. WiBuilds
  /\ wiAt.stage \in {"fields", "blocks", "overlay", "built"} /\ wiAt.n \in Nat
  /\ \A l \in wiBody : l.p \in Seq(STRING) /\ Len(l.p) > 0

WiInit ==
  /\ wiSpec \in WiSpecIds /\ wiFlavor \in WiFlavors
  /\ wiReq \in WiRequests /\ wiAsked = wiReq
  /\ wiBody = {} /\ wiShared = <<>> /\ wiLog = <<>> /\ wiBuilt = 0
  /\ wiAt = [stage |-> "fields", n |-> 1]

WiCtx == [req |-> wiReq, flavor |-> wiFlavor, item |-> WiUndef, last |-> FALSE]

WiWrites(path, sub) ==
  /\ wiBody' = WiSet(wiBody, path, sub)
  /\ wiLog' = Append(wiLog, [path |-> path, sub |-> sub])
  /\ UNCHANGED <<wiReq, wiShared>>

WiSkips == UNCHANGED <<wiBody, wiLog, wiReq, wiShared>>

WiNextRule(stage, rules, after) ==
  /\ wiAt.stage = stage
  /\ wiAt' = IF wiAt.n < Len(rules) THEN [wiAt EXCEPT !.n = @ + 1] ELSE [stage |-> after, n |-> 1]
  /\ UNCHANGED <<wiSpec, wiFlavor, wiAsked, wiBuilt>>

(* A field: present, or its default; mapped by its table, where it has one.*)
WiFieldValue(f) ==
  LET raw == WiGet(wiReq, f.from)
      present == IF f.truthy THEN WiTruthy(raw) ELSE raw # WiUndef
      value == IF present THEN raw ELSE f.default
  IN  IF value = WiUndef \/ ~WiCond(f.when, WiCtx) THEN WiUndef
      ELSE IF f.table = {} THEN value
      ELSE IF \E e \in f.table : WiScalar(e[1]) = value
           THEN WiScalar((CHOOSE e \in f.table : WiScalar(e[1]) = value)[2]) ELSE f.tableDefault

WiField ==
  LET rules == WiResolve(wiSpec).fields
  IN  /\ WiNextRule("fields", rules, "blocks")
      /\ IF rules = <<>> THEN WiSkips
         ELSE LET v == WiFieldValue(rules[wiAt.n])
              IN  IF v = WiUndef THEN WiSkips ELSE WiWrites(rules[wiAt.n].to, v)

(* A block: assigned whole, merged, or set at its place.                   *)
WiBlock ==
  LET rules == WiResolve(wiSpec).blocks
  IN  /\ WiNextRule("blocks", rules, "overlay")
      /\ IF rules = <<>> THEN WiSkips
         ELSE LET b == rules[wiAt.n]
                  v == IF WiCond(b.when, WiCtx) THEN WiEval(b.template, WiCtx) ELSE WiUndef
              IN  IF v = WiUndef THEN WiSkips
                  ELSE WiWrites(b.to, IF b.merge THEN WiMerge(WiGet(wiBody, b.to), v) ELSE v)

(* The overlay: rename moves a truthy value only; mergeFrom shares the     *)
(* objects of the request with the body, and what is moved under a key     *)
(* that holds one is written there too.                                    *)
WiRename(op) ==
  LET v == WiGet(wiBody, op.from)
  IN  IF ~WiTruthy(v) THEN WiSkips
      ELSE /\ wiBody' = WiUnset(WiSet(wiBody, op.to, v), op.from)
           /\ wiLog' = wiLog \o <<[path |-> op.to, sub |-> v], [path |-> op.from, sub |-> WiUndef]>>
           /\ wiReq' = IF op.to[1] \in DOMAIN wiShared /\ WiIsObj(WiGet(wiBody, <<op.to[1]>>))
                       THEN WiSet(wiReq, wiShared[op.to[1]] \o Tail(op.to), v) ELSE wiReq
           /\ UNCHANGED wiShared

WiDelete(op) ==
  /\ wiBody' = WiUnset(wiBody, op.from)
  /\ wiLog' = Append(wiLog, [path |-> op.from, sub |-> WiUndef])
  /\ UNCHANGED <<wiReq, wiShared>>

WiMergeFrom(op) ==
  LET src == WiGet(wiReq, op.from)
      keys == {l.p[1] : l \in src}
      objects == {k \in keys : WiIsObj(WiGet(src, <<k>>))}
  IN  IF ~WiIsObj(src) THEN WiSkips
      ELSE /\ wiBody' = WiAssign(wiBody, src)
           /\ wiLog' = wiLog \o SetToSeq({[path |-> <<k>>, sub |-> WiGet(src, <<k>>)] : k \in keys})
           /\ wiShared' = [k \in (DOMAIN wiShared \ keys) \cup objects |->
                             IF k \in objects THEN op.from \o <<k>> ELSE wiShared[k]]
           /\ UNCHANGED wiReq

WiOverlay ==
  LET ops == WiResolve(wiSpec).overlays[wiFlavor]
  IN  /\ WiNextRule("overlay", ops, "built")
      /\ IF ops = <<>> THEN WiSkips
         ELSE LET op == ops[wiAt.n]
              IN  \/ ~WiCond(op.when, WiCtx) /\ WiSkips
                  \/ WiCond(op.when, WiCtx) /\ op.op = "rename" /\ WiRename(op)
                  \/ WiCond(op.when, WiCtx) /\ op.op = "delete" /\ WiDelete(op)
                  \/ WiCond(op.when, WiCtx) /\ op.op = "mergeFrom" /\ WiMergeFrom(op)

(* The caller asks again, with the same options and, maybe, less of them.  *)
WiAgain ==
  /\ wiAt.stage = "built" /\ wiBuilt < WiBuilds
  /\ wiBuilt' = wiBuilt + 1
  /\ \E gone \in {<<>>} \cup {<<l.p[1]>> : l \in wiAsked} :
       LET cut(t) == IF gone = <<>> THEN t ELSE WiUnset(t, gone)
       IN  wiReq' = cut(wiReq) /\ wiAsked' = cut(wiAsked)
  /\ wiBody' = {} /\ wiShared' = <<>> /\ wiLog' = <<>>
  /\ wiAt' = [stage |-> "fields", n |-> 1]
  /\ UNCHANGED <<wiSpec, wiFlavor>>

WiNext == WiField \/ WiBlock \/ WiOverlay \/ WiAgain

WiSpecification == WiInit /\ [][WiNext]_wiVars

-----------------------------------------------------------------------------

(* A body says what was said last about each of its parts: nothing a later *)
(* rule wrote or deleted shines through, whatever the paths have in common.*)
WiLastWriterWins ==
  /\ \A l \in wiBody :
       \E i \in DOMAIN wiLog :
         /\ l \in WiAt(wiLog[i].path, wiLog[i].sub)
         /\ \A j \in i + 1 .. Len(wiLog) :
              /\ wiLog[j].sub # WiUndef => ~WiRelated(wiLog[j].path, l.p) \/ l \in WiAt(wiLog[j].path, wiLog[j].sub)
                                           \/ IsStrictPrefix(l.p, wiLog[j].path)
              /\ wiLog[j].sub = WiUndef => ~IsPrefix(wiLog[j].path, l.p)
  /\ \A l, m \in wiBody : l # m => ~WiRelated(l.p, m.p)

(* A resolved spec has one rule for a key, the child's where it has one,   *)
(* none that a delta removed, and a placed block stands by its anchor.     *)
WiInherits ==
  \A id \in WiSpecIds :
    LET d == WiDeltas[id]
        s == WiResolve(id)
    IN  /\ \A k \in WiKeys(s.fields) : Cardinality(WiKeyed(s.fields, k)) = 1
        /\ \A k \in WiKeys(s.blocks) : Cardinality(WiKeyed(s.blocks, k)) = 1
        /\ \A i \in DOMAIN d.fields : d.fields[i].key \in d.removeFields \/ d.fields[i] \in Range(s.fields)
        /\ WiKeys(s.fields) \cap d.removeFields = {} /\ WiKeys(s.blocks) \cap d.removeBlocks = {}
        /\ d.extends # "" => WiDeltaFits(WiResolve(d.extends), d)
        /\ d.places # <<>> =>
             LET p == Last(d.places)
                 at(k) == CHOOSE i \in WiKeyed(s.blocks, k) : TRUE
             IN  at(p.name) = IF p.before THEN at(p.anchor) - 1 ELSE at(p.anchor) + 1

(* Every registry serves what it names: the chain of an id stays in its    *)
(* registry and ends at a root, what builds no request is what others      *)
(* extend, and no two registries give one id two meanings.  A model that   *)
(* no rule knows gets the newest node.                                     *)
WiRegistriesClosed ==
  /\ \A r \in WiRegistries :
       /\ \A id \in DOMAIN r.specs :
            LET up[k \in 0 .. 4] == IF k = 0 THEN id ELSE IF up[k - 1] \in DOMAIN r.specs THEN r.specs[up[k - 1]] ELSE up[k - 1]
            IN  up[4] = ""
       /\ \A id \in r.abstract : id \in Range(r.specs)
  /\ \A r, q \in WiRegistries : r # q => DOMAIN r.specs \cap DOMAIN q.specs = {}
  /\ \A m \in UNION {WiAnthropicPins[i][1] : i \in DOMAIN WiAnthropicPins} \cup {"opus-5"} :
       WiPinFor(m, WiAnthropicPins, "anthropic/messages@4.7") \in DOMAIN WiChatSpecs
  /\ WiPinFor("opus-4-5", WiAnthropicPins, "anthropic/messages@4.7") = "anthropic/messages@4.1"
  /\ Cardinality(WiWireSpecs) = 150

WiFaithful == WiLastWriterWins /\ WiInherits /\ WiRegistriesClosed
=============================================================================
