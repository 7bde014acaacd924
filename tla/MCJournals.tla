----------------------------- MODULE MCJournals -----------------------------
(* Instances of Journals for TLC. *)
EXTENDS Journals

MCHumans == {"author"}
MCAgents == {"writer", "researcher"}
=============================================================================
