------------------------------ MODULE MCKafka ------------------------------
(* A small instance of Kafka for TLC. *)
EXTENDS Kafka

(* All the events of one client or the others of each, or, without any     *)
(* consumer, the failures of both                                          *)
SmallConfigs ==
  [consumer : {TRUE},
   options : {ConsumerRoutines, ProducerRoutines, {"Notifications", "Successes"}}]
    \cup [consumer : {FALSE}, options : {{"ConsumerErrors", "ProducerErrors"}}]
=============================================================================
