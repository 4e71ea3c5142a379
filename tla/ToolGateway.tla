----------------------------- MODULE ToolGateway -----------------------------
(***************************************************************************)
(* HandlerToolGateway with PolicyEngine: a tool call is authorized by role *)
(* and then paid from the query budget of the call, and only then handed   *)
(* to the handler, whose failures are one exception whatever they were.    *)
(***************************************************************************)
EXTENDS Naturals

Role == {"analyst", "reviewer", "operator"}
Tool == {"inspect", "diagnose", "discover", "recommend"}

\* The built-in profiles, as far as the tools of the agent's plan go.
CapabilitiesFor ==
  [analyst |-> Tool, operator |-> Tool, reviewer |-> {"inspect"}]

\* authorize: the capability first, then one query is consumed.
Authorize(role, tool, budget) == tool \in CapabilitiesFor[role] /\ budget > 0

\* A refusal for the role costs nothing; an empty budget has nothing to pay.
Paid(role, tool, budget) ==
  IF Authorize(role, tool, budget) THEN budget - 1 ELSE budget

\* What a caller needs before a result that exists is shown to it.
MaySeeResult(role) == Tool \subseteq CapabilitiesFor[role]
=============================================================================
