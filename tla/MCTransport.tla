---------------------------- MODULE MCTransport ----------------------------
(***************************************************************************)
(* Small instances of Transport.                                           *)
(***************************************************************************)
EXTENDS Transport
=============================================================================
