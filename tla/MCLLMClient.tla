---------------------------- MODULE MCLLMClient ----------------------------
(***************************************************************************)
(* The LLM client on a small instance.                                     *)
(***************************************************************************)
EXTENDS LLMClient

(* Two models of one provider whose state is bound to the model, and two   *)
(* providers more, of which one keeps no state.                            *)
LmServer(provider, model, api) == [provider |-> provider, model |-> model, api |-> api]
LmServers ==
  {LmServer("openai", "a", "responses"), LmServer("google", "b", "interactions"),
   LmServer("google", "c", "interactions"), LmServer("anthropic", "d", "messages")}

=============================================================================
