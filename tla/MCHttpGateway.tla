---------------------------- MODULE MCHttpGateway ------------------------------
(* Model-checking instance of HttpGateway: a topic without a shard. *)
EXTENDS HttpGateway

CONSTANTS c1, c2

MCTokens == {"::", "#", "DEFAULT", "CONSUMER_INCOMING", "PRODUCER_OUTGOING", "api"}
MCTopic == NamespaceTopic(<<"api">>)
MCStreams == {producerKey(MCTopic, NoShard)}
MCReaders == 1..Routes
MCCalls == {c1, c2}
OnlyOk == {"ok"}
Hello == "hello"
MCEventTypes == {{"resp"}, {"hello"}}
=============================================================================
