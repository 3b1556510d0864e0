---------------------------- MODULE MCReviewLoop ----------------------------
(* Model values for ReviewLoop: the facets type (single-valued, a field on *)
(* the article, an "unknown" term) and format (no such term).              *)
EXTENDS ReviewLoop, TLC

CONSTANTS eat, drink, unknown, news, guide, ann, bob

TypeTerms == {eat, unknown}
AllTypeTerms == {eat, drink, unknown}
KnownTypeTerms == {eat, drink}
FormatTerms == {news, guide}

TwoReviewers == {ann, bob}
OneReviewer == {ann}

Reviewers == Permutations(Reviewer)
=============================================================================
