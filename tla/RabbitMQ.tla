------------------------------ MODULE RabbitMQ ------------------------------
(***************************************************************************)
(* pkg/rabbitmq: the durable queue of deletion messages and the single      *)
(* connection the process opens at start and never reopens.  The broker     *)
(* (not part of the repository) keeps a message until it is acknowledged:   *)
(* it is ready in the queue, or delivered and unacknowledged.  No prefetch  *)
(* limit is set and a refused message is requeued, so the order in which    *)
(* messages reach the handler is left open: the queue is a bag.             *)
(***************************************************************************)
EXTENDS Integers

CONSTANT NoDelivery   \* the handler has no delivery

VARIABLES queue,      \* for each message, how many copies are ready
          held,       \* the delivery the handler is working on, or NoDelivery
          connected   \* whether the connection and its channel are open

brokerVars == <<queue, held, connected>>

(* The broker still owns the message: ready, or delivered on a live channel *)
(* and not acknowledged.                                                    *)
Pending(m) == queue[m] > 0 \/ (connected /\ held = m)

(* Publish fails once the channel is closed; otherwise the broker stores    *)
(* the message (DeliveryMode 2, durable queue).                             *)
Publish(m) ==
  /\ connected
  /\ queue' = [queue EXCEPT ![m] = @ + 1]
  /\ UNCHANGED <<held, connected>>

(* The goroutine of Consume takes the next delivery and calls the handler.  *)
Deliver(m) ==
  /\ connected
  /\ held = NoDelivery
  /\ queue[m] > 0
  /\ queue' = [queue EXCEPT ![m] = @ - 1]
  /\ held' = m
  /\ UNCHANGED connected

(* Ack, and Nack without requeue: the broker forgets the message.  On a     *)
(* closed channel both return an error the handler ignores.                 *)
Forget ==
  /\ held' = NoDelivery
  /\ UNCHANGED <<queue, connected>>

(* The ready copies once the broker has taken back what is unacknowledged.  *)
TakenBack ==
  IF connected /\ held # NoDelivery
  THEN [queue EXCEPT ![held] = @ + 1] ELSE queue

(* Nack with requeue.                                                       *)
Requeue ==
  /\ queue' = TakenBack
  /\ held' = NoDelivery
  /\ UNCHANGED connected

(* The connection breaks: the broker requeues what is unacknowledged, while *)
(* the handler finishes with the copy it was given.                         *)
Disconnect ==
  /\ connected
  /\ connected' = FALSE
  /\ queue' = TakenBack
  /\ UNCHANGED held

(* The process dies and starts again, with a new connection.                *)
Reconnect ==
  /\ queue' = TakenBack
  /\ held' = NoDelivery
  /\ connected' = TRUE
=============================================================================
