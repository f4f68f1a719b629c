-------------------------------- MODULE MCWire --------------------------------
(***************************************************************************)
(* Wire specs and requests to check Wire on: excerpts of                   *)
(* openai-completions.json and of anthropic-chain/*.json, with the rules   *)
(* that write to each other's paths kept.                                  *)
(***************************************************************************)
EXTENDS Wire

WxAlways == [op |-> "true"]
WxTruthy(path) == [op |-> "truthy", path |-> path]
WxThinks ==
  [op |-> "all", of |-> <<WxTruthy(<<"thinking">>),
                          [op |-> "not", of |-> [op |-> "eq", path |-> <<"thinking", "mode">>, value |-> "off"]]>>]

WxField(from, to) ==
  [key |-> to, from |-> from, to |-> to, default |-> {}, truthy |-> FALSE, when |-> WxAlways, table |-> {}, tableDefault |-> {}]
WxBlock(name, to, when, template, merge) == [key |-> name, to |-> to, when |-> when, template |-> template, merge |-> merge]
WxLit(v) == [op |-> "lit", value |-> v]
WxDelta(extends, fields, blocks) ==
  [extends |-> extends, fields |-> fields, blocks |-> blocks, removeFields |-> {}, removeBlocks |-> {}, places |-> <<>>, overlays |-> <<>>]

WxTools ==
  WxBlock("tools", <<"tools">>, WxTruthy(<<"tools">>),
    [op |-> "map", path |-> <<"tools">>,
     cases |-> <<[when |-> [op |-> "itemTruthy", path |-> <<"name">>],
                  value |-> [op |-> "obj",
                             of |-> [name |-> [op |-> "item", path |-> <<"name">>, default |-> {}],
                                     cache |-> [op |-> "when", cond |-> [op |-> "isLast"], value |-> WxLit("yes")]]]]>>], FALSE)

WxReasoning ==
  WxBlock("reasoning", <<"reasoning_effort">>, WxThinks,
    [op |-> "table", path |-> <<"thinking", "effort">>, table |-> {<<"max", "xhigh">>, <<"low", "low">>},
     default |-> WiScalar("medium")], FALSE)

WxRenameTokens == [op |-> "rename", when |-> WxAlways, from |-> <<"max_completion_tokens">>, to |-> <<"max_tokens">>]

WxCompletions ==
  [WxDelta("", <<WxField(<<"model">>, <<"model">>),
                 [WxField(<<"maxTokens">>, <<"max_completion_tokens">>) EXCEPT !.default = WiScalar("4096")],
                 [WxField(<<"topK">>, <<"top_k">>) EXCEPT !.when = [op |-> "not", of |-> [op |-> "flavor", value |-> "openai"]]]>>,
           <<WxTools, WxReasoning>>)
   EXCEPT !.overlays =
     [openrouter |-> <<WxRenameTokens,
                       [op |-> "mergeFrom", when |-> WxAlways, from |-> <<"providerOptions", "openrouter">>],
                       [op |-> "rename", when |-> WxAlways, from |-> <<"reasoning_effort">>, to |-> <<"reasoning", "effort">>]>>,
      xai |-> <<WxRenameTokens,
                [op |-> "delete", when |-> [op |-> "eq", path |-> <<"model">>, value |-> "plain"], from |-> <<"reasoning_effort">>]>>]]

WxAdaptive ==
  [WxDelta("anthropic/messages@4.1", <<>>,
     <<WxBlock("thinking.adaptive", <<"thinking">>, WxThinks, [op |-> "obj", of |-> [type |-> WxLit("adaptive")]], FALSE),
       WxBlock("thinking.adaptive.effort", <<"output_config">>, WxTruthy(<<"thinking", "effort">>),
               [op |-> "obj", of |-> [effort |-> [op |-> "path", path |-> <<"thinking", "effort">>, default |-> {}]]], TRUE)>>)
   EXCEPT !.removeBlocks = {"thinking.budgeted"},
          !.places = <<[name |-> "thinking.adaptive", before |-> TRUE, anchor |-> "structured"],
                       [name |-> "thinking.adaptive.effort", before |-> TRUE, anchor |-> "structured"]>>]

WxDeltas ==
  "openai/chat-completions" :> WxCompletions
  @@ "anthropic/messages@4.0" :>
       WxDelta("", <<WxField(<<"model">>, <<"model">>), WxField(<<"temperature">>, <<"temperature">>)>>,
               <<WxBlock("thinking.budgeted", <<"thinking">>, WxThinks, [op |-> "obj", of |-> [budget_tokens |-> WxLit("1024")]], FALSE),
                 WxBlock("structured", <<"output_config">>, WxTruthy(<<"structured">>), [op |-> "obj", of |-> [format |-> WxLit("json")]], TRUE)>>)
  @@ "anthropic/messages@4.1" :> WxDelta("anthropic/messages@4.0", <<WxField(<<"topK">>, <<"top_k">>)>>, <<>>)
  @@ "anthropic/messages@4.6" :> WxAdaptive
  @@ "anthropic/messages@4.7" :> [WxDelta("anthropic/messages@4.6", <<>>, <<>>) EXCEPT !.removeFields = {<<"temperature">>, <<"top_k">>}]

WxSpecIds == {"openai/chat-completions", "anthropic/messages@4.6", "anthropic/messages@4.7"}
WxFlavors == {"openai", "xai", "openrouter"}

WxLeaf(path, v) == WiAt(path, WiScalar(v))

WxRequests ==
  {WxLeaf(<<"model">>, model) \cup thinking \cup structured \cup options \cup limits \cup tools :
     model \in {"plain", "deep"},
     thinking \in {{}, WxLeaf(<<"thinking", "effort">>, "max"), WxLeaf(<<"thinking", "mode">>, "off")},
     structured \in {{}, WxLeaf(<<"structured">>, "s")},
     options \in {{}, WxLeaf(<<"providerOptions", "openrouter", "reasoning", "max_tokens">>, "9")
                        \cup WxLeaf(<<"providerOptions", "openrouter", "max_tokens">>, "7")},
     limits \in {{}, WxLeaf(<<"maxTokens">>, ""), WxLeaf(<<"maxTokens">>, "5") \cup WxLeaf(<<"topK">>, "3")},
     tools \in {{}, WxLeaf(<<"tools", "1", "name">>, "a") \cup WxLeaf(<<"tools", "2", "type">>, "web")
                      \cup WxLeaf(<<"tools", "3", "name">>, "b")}}
=============================================================================
