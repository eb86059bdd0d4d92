----------------------------- MODULE MCScopeSync -----------------------------
(* ScopeSync on a small scope: totals only, one mark or none. *)
EXTENDS ScopeSync

OnePaper == {PaperConfig("TOTAL_MARKS", <<>>, <<>>, 1)}

TotalsOnly == [TOTAL_MARKS |-> {0, 1}, ITEM_LEVEL |-> {}]
=============================================================================
