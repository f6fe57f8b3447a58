-------------------------- MODULE MCMarketObserver --------------------------
(***************************************************************************)
(* The instance of MarketObserver: one supervised process that crashes, is  *)
(* cancelled and is started again.                                          *)
(***************************************************************************)
EXTENDS MarketObserver
=============================================================================
