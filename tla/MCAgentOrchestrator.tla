------------------------- MODULE MCAgentOrchestrator -------------------------
(* Two findings with an action each, one action nothing calls for, and a    *)
(* Host whose proposals are complete, selective or beside the point, that   *)
(* leaves findings out, or that poses as another source.                    *)
EXTENDS AgentOrchestrator

MCFinding   == {"drift", "segment"}
MCAction    == {"look_at_drift", "review_segment", "review_rules"}
MCActionFor == [drift |-> "look_at_drift", segment |-> "review_segment"]

MCReport == {<<>>, <<"drift">>, <<"drift", "segment">>}

Host(actions) == [about |-> TRUE, complete |-> TRUE, actions |-> actions,
                  source |-> "external_host"]
MCHostProposal ==
  {Host({"look_at_drift"}), Host({"look_at_drift", "review_segment"}),
   Host({"review_rules"}),
   [Host({"look_at_drift"}) EXCEPT !.complete = FALSE],
   [Host({"look_at_drift"}) EXCEPT !.source = "deterministic"]}
=============================================================================
