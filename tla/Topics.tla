-------------------------------- MODULE Topics --------------------------------
(***************************************************************************)
(* Topic of @streamerson/core and the functions that put keys together.    *)
(*                                                                         *)
(* A string is the sequence of its tokens: names, which may themselves     *)
(* hold separators, and the separators that these functions put in.        *)
(***************************************************************************)
EXTENDS Sequences

CONSTANT Tokens    (* what strings are made of *)

ASSUME TokensAssumption ==
  {"::", "#", "DEFAULT", "CONSUMER_INCOMING", "PRODUCER_OUTGOING"} \subseteq Tokens

Names == Seq(Tokens)
TopicOptions == [bare : BOOLEAN, namespace : Names, topic : Names]

NoShard == <<>>    (* undefined and the empty string alike *)

keyGenerator(namespace, key) == namespace \o <<"::">> \o key

shardDecorator(key, shard) == IF shard = NoShard THEN key ELSE key \o <<"#">> \o shard

consumerProducerDecorator(key, consumerOrProducer) == key \o <<"::">> \o <<consumerOrProducer>>

(* new Topic(namespace), and new Topic({namespace, topic}). *)
NamespaceTopic(namespace) ==
  [bare |-> TRUE, namespace |-> namespace, topic |-> <<"DEFAULT">>]
Topic(namespace, topic) ==
  [bare |-> FALSE, namespace |-> namespace, topic |-> topic]

Decorated(t, shard, consumerOrProducer) ==
  consumerProducerDecorator(
    keyGenerator(t.namespace, shardDecorator(t.topic, shard)), consumerOrProducer)

consumerKey(t, shard) == Decorated(t, shard, "CONSUMER_INCOMING")
producerKey(t, shard) == Decorated(t, shard, "PRODUCER_OUTGOING")

(* The subtopic of a topic made from a string becomes its own namespace. *)
subtopic(t, name) ==
  LET named == t.topic \o <<"(">> \o name \o <<")">>
  IN IF t.bare THEN NamespaceTopic(named) ELSE [t EXCEPT !.topic = named]

buildStreamConfiguration(t) ==
  [incomingStream |-> consumerKey(t, NoShard), outgoingStream |-> producerKey(t, NoShard)]

-----------------------------------------------------------------------------
(* Which streams the parts of the system use. *)

(* StreamConsumer hands getReadStream() and getWriteStream() a key that     *)
(* names the shard already, and the shard, which both append once more.     *)
consumerReads(t, shard) == shardDecorator(consumerKey(t, shard), shard)
consumerWrites(t, shard) == shardDecorator(producerKey(t, shard), shard)

(* produceMessage() *)
produced(t, shard) == shardDecorator(producerKey(t, NoShard), shard)

(* dispatch() and readResponseStream() of an awaiter that a gateway made. *)
dispatched(t, shard) == shardDecorator(consumerKey(t, NoShard), shard)
awaited(t, shard) == shardDecorator(producerKey(t, NoShard), shard)

(* The key whose number counts the members of a group, and a member's id. *)
groupKey(t, shard, name) == consumerKey(t, shard) \o <<"__GROUP(">> \o name \o <<")">>
groupMemberId(t, shard, name, id) ==
  consumerKey(t, shard) \o <<"__GROUP(">> \o name \o <<"$">> \o <<id>> \o <<")">>
=============================================================================
