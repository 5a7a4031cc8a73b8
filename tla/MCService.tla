----------------------------- MODULE MCService -----------------------------
(* Instances of Service for TLC.                                           *)
EXTENDS Service

(* Two files, two processes and the client hold a token each; one is fresh. *)
Tokens == 1 .. 6

=============================================================================
