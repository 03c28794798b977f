---------------------------- MODULE MCFeedParser ----------------------------
(***************************************************************************)
(* An instance of FeedParser for TLC; its constants are numbers.           *)
(***************************************************************************)
EXTENDS FeedParser
=============================================================================
