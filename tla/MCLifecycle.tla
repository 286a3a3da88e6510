---------------------------- MODULE MCLifecycle ----------------------------
(***************************************************************************)
(* Lifecycle with one WebSocket collection, for either transport, mode and *)
(* debounce, with a service that stops the manager or lets it be.          *)
(***************************************************************************)
EXTENDS Lifecycle

CONSTANT c1

OneCollection == {c1}

AllSetups ==
    {[transport |-> "redis", manual |-> TRUE, debounce |-> TRUE,
      uses |-> {"Stop", "SyncNow"}],
     [transport |-> "postgres", manual |-> FALSE, debounce |-> TRUE,
      uses |-> {"websocket"}],
     [transport |-> "postgres", manual |-> FALSE, debounce |-> FALSE,
      uses |-> {"websocket"}]}
=============================================================================
