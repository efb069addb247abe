----------------------------- MODULE MCSessions -----------------------------
(* The instance of Sessions that TLC checks: a publisher and a subscriber  *)
(* are started with the same pipe, a publisher and two managers with       *)
(* another.                                                                *)
EXTENDS Sessions, TLC

CONSTANTS pub1, pub2, sub1, man1, man2, pipe1, pipe2

TwoPublishers == {pub1, pub2}
OneSubscriber == {sub1}
TwoManagers   == {man1, man2}
TwoPipes      == {pipe1, pipe2}
Given == pub1 :> pipe1 @@ sub1 :> pipe1
         @@ pub2 :> pipe2 @@ man1 :> pipe2 @@ man2 :> pipe2
=============================================================================
