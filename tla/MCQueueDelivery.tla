-------------------------- MODULE MCQueueDelivery --------------------------
(* Model checking of QueueDelivery: values for the constants that a cfg    *)
(* cannot write.                                                           *)
EXTENDS QueueDelivery

\* Delay options on both sides of the accepted range 0..MaxDelay.
MCDelays == {-1, 0, 1, 2}
=============================================================================
