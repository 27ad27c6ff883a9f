---- MODULE MCWire ----
(***************************************************************************)
(* Wire for TLC: one short answer from each kind of provider, and streams  *)
(* that break and are continued.                                           *)
(***************************************************************************)
EXTENDS Wire

MCCallIds == <<"a", "b">>
MCCallIndexes == 0..1
MCDecoyNames == {<<"decoy">>}

Answer(provider, left, stops) ==
  [providers |-> <<provider>>, left |-> left, stops |-> stops, mode |-> "enabled",
   echoes |-> {"none", "header"}]
Resumed(first, second, left, mode) ==
  [providers |-> <<first, second>>, left |-> left, stops |-> {"stop"}, mode |-> mode,
   echoes |-> {"none"}]

MCScenarios ==
  {Answer("anthropic", 5, {"end_turn", "tool_use", "refusal",
                              "model_context_window_exceeded"}),
   Answer("openai", 5, {"stop", "tool_calls", "length", "content_filter"}),
   Answer("gemini", 6, {"STOP", "MAX_TOKENS", "SAFETY"}),
   Answer("opencode", 5, {}),
   Resumed("openai", "anthropic", 5, "enabled"),
   Resumed("anthropic", "openai", 4, "content_only")}
====
