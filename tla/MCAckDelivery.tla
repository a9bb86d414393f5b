--------------------------- MODULE MCAckDelivery ----------------------------
(* AckDelivery on small instances, for the ways the API is used.              *)
EXTENDS AckDelivery

\* Two threads in blocking calls, over a link of any delay.
TwoCallers == [senders |-> {"main", "mobile"}, kinds |-> {"blocking"},
               callbackThread |-> FALSE, prompt |-> FALSE]

\* The wrapper's main thread alone, over a prompt link and one of any delay.
Prompt == [senders |-> {"main"}, kinds |-> Kinds,
           callbackThread |-> FALSE, prompt |-> TRUE]
OneCaller == [Prompt EXCEPT !.kinds = {"blocking", "callback"}, !.prompt = FALSE]

\* The non-blocking API: every command has a handler, run by the callback thread.
NonBlocking == [senders |-> {"main"}, kinds |-> {"callback"},
                callbackThread |-> TRUE, prompt |-> FALSE]

AllUses == {TwoCallers, Prompt, OneCaller, NonBlocking}
=============================================================================
