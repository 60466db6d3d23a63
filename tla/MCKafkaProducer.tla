-------------------------- MODULE MCKafkaProducer --------------------------
(* Small instances of KafkaProducer for TLC. *)
EXTENDS KafkaProducer
=============================================================================
