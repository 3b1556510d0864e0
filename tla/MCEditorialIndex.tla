-------------------------- MODULE MCEditorialIndex --------------------------
(* Model values for EditorialIndex.  Of the texts one has a title that     *)
(* raises the title signal and one has not.  Requests are interchangeable. *)
EXTENDS EditorialIndex, TLC

CONSTANTS stay, plain

MCText == {stay, plain}
MCRivalTitle == {stay}
MCNoJobs == {}
MCNightly == {"nightly"}
MCJobs == {"nightly", "backfill"}
MCEvent == ArticleEvent
Symmetry == Permutations(Request)
=============================================================================
