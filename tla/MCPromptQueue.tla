---------------------------- MODULE MCPromptQueue ----------------------------
(* Three prompts in a queue of two, so that the limit is met, with goals    *)
(* from the queue and from the user, and one crash or foreign opening.      *)
EXTENDS PromptQueue
=============================================================================
