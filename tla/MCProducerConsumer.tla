------------------------- MODULE MCProducerConsumer -------------------------
(* The instances of ProducerConsumer that TLC checks.  The broker has one  *)
(* producer, its main thread; two let enqueue calls compete too.           *)
EXTENDS ProducerConsumer, TLC

CONSTANTS p1, p2, c1, c2, c3, e1, e2

TwoProducers   == {p1, p2}
OneProducer    == {p1}
TwoConsumers   == {c1, c2}
ThreeConsumers == {c1, c2, c3}
TwoElems       == {e1, e2}
=============================================================================
