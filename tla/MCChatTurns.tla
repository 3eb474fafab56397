----------------------------- MODULE MCChatTurns -----------------------------
(* Instances of ChatTurns for TLC. *)
EXTENDS ChatTurns, TLC

(* Requests being served and provider operations have no identity of their own,  *)
(* nor have the keys of ordinary prompts, nor those of steering.                 *)
Interchangeable ==
  Permutations(Handlers) \cup Permutations(Turns)
    \cup Permutations(Keys \ (SteerKeys \cup Oversized))
    \cup Permutations(SteerKeys \ Oversized)
=============================================================================
