---------------------------- MODULE MCLLMGateway ----------------------------
(***************************************************************************)
(* LLMGateway with one chain, that falls back from claude to ollama, and   *)
(* an admin who may have turned claude off.                                *)
(***************************************************************************)
EXTENDS LLMGateway

CONSTANTS claude, ollama, c1, c2

FallbackChain == {<< claude, ollama >>}
ClaudeOrNone  == {{}, {claude}}
=============================================================================
