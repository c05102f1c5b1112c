----------------------------- MODULE MCWssGateway ------------------------------
(* Model-checking instance of WssGateway: two routes of one server. *)
EXTENDS WssGateway

MCRoutes == {"a", "b"}
=============================================================================
