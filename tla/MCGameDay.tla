------------------------------ MODULE MCGameDay ------------------------------
(* GameDay with three shapes of scenario: one fault, two faults that are mended
   in the other order with an override file, and a fault shared with another. *)
EXTENDS GameDay

MCServices == {"status", "nginx", "alerts"}

MCScenarios == {"killed", "config", "nowhere"}

MCInject == [killed |-> <<"status">>, config |-> <<"status", "nginx">>, nowhere |-> <<"alerts", "status">>]

MCRestore == [killed |-> <<"status">>, config |-> <<"nginx", "status">>, nowhere |-> <<"alerts", "status">>]
=============================================================================
