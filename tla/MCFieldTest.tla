----------------------------- MODULE MCFieldTest -----------------------------
(* The lab with every speed and latency it offers, for TLC.                 *)
EXTENDS FieldTest
=============================================================================
