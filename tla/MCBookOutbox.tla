---------------------------- MODULE MCBookOutbox ----------------------------
(***************************************************************************)
(* Instances of BookOutbox.  One producer, two deliverers, one receipt id   *)
(* and two kinds of evidence for it; or two producers without crashes.      *)
(***************************************************************************)
EXTENDS BookOutbox
=============================================================================
