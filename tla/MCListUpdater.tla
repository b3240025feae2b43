---------------------------- MODULE MCListUpdater ---------------------------
(* Instances of ListUpdater for TLC. *)
EXTENDS ListUpdater

CONSTANTS h1, h2

\* Version 1 is a page of text the source served in place of the list.
MCIsDat       == [v \in Versions |-> v > 1]
MCHasCategory == [v \in Versions |-> TRUE]
=============================================================================
