------------------------- MODULE PromptPreparation --------------------------
(***************************************************************************)
(* What chat_completion (api.py) does with a prompt before it submits the  *)
(* request: the cached tokenizer gives its tokens, and the prefix router   *)
(* observes them.  Nothing suspends between the return of tokenize and the *)
(* end of observe, so each is one step of a handler; a prompt is observed  *)
(* whether or not its request is then admitted.                            *)
(***************************************************************************)
EXTENDS CacheManager, PrefixRouter

CONSTANT TokensOf     \* TokensOf[k]: the token ids of prompt k

ASSUME PreparationAssumption == TokensOf \in [Prompts -> Inputs]

Routed(c) == Observe(TokensOf[promptOf[c]])

\* Handlers render through the backend (api.py:424): Render is what the manager offers
\* beside them, and the router sees nothing of it.
PrepareNext ==
  \/ \E c \in Calls : (Hit(c) \/ Store(c)) /\ Routed(c)
  \/ \E c \in Calls : (Miss(c) \/ Fail(c)) /\ UNCHANGED routerVars
  \/ \E s \in Prefixes : Render(s) /\ UNCHANGED routerVars
  \/ (Clear \/ Tick) /\ UNCHANGED routerVars

PrepareInit == Init /\ RouterInit

PrepareSpec == PrepareInit /\ [][PrepareNext]_<<vars, routerVars>>

=============================================================================
