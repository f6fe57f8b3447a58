---------------------------- MODULE MCWriterLock ----------------------------
(***************************************************************************)
(* Instances of WriterLock: two processes on one host and one on another,   *)
(* and three processes on one host.                                         *)
(***************************************************************************)
EXTENDS WriterLock, TLC

CONSTANTS p1, p2, p3, h1, h2

PairsHostOf == (p1 :> h1) @@ (p2 :> h1) @@ (p3 :> h2)
OneHostOf == (p1 :> h1) @@ (p2 :> h1) @@ (p3 :> h1)
=============================================================================
