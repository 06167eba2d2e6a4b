---------------------------- MODULE MCCoherence ----------------------------
(* Small instances of the short-link service with the history of its races. *)
EXTENDS MCShortener, ShortenerCoherence
=============================================================================
