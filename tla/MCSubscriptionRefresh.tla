----------------------- MODULE MCSubscriptionRefresh -----------------------
(***************************************************************************)
(* SubscriptionRefresh with two scheduler workers and an API request that  *)
(* refresh the same subscription.                                          *)
(***************************************************************************)
EXTENDS SubscriptionRefresh

CONSTANTS s1, n1, n2, w1, w2, c1

MCContents == {{n1, n2}, {n2}}
=============================================================================
