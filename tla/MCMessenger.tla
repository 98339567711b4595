----------------------------- MODULE MCMessenger -----------------------------
(* A small instance of Messenger: deliveries of one event, which compete    *)
(* for the channel.                                                         *)
EXTENDS Messenger

CONSTANT e
MCEvents  == {e}
MCEventOf == [t \in Tasks |-> e]
=============================================================================
