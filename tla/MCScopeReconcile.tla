-------------------------- MODULE MCScopeReconcile ---------------------------
(* ScopeReconcile on a small instance. *)
EXTENDS ScopeReconcile

Row(present, marks) == [present |-> present, marks |-> marks]

Zero         == Number(FALSE, 0, 0)
NegativeZero == Number(TRUE, 0, 0)
Ten          == Number(FALSE, 10, 0)
TenLong      == Number(FALSE, 1000, 2)
Half         == Number(FALSE, 5, 1)

\* Absent; present without a mark yet; and present with marks, some of which are
\* one number in two ways to write it.
TotalRows == {Row(FALSE, None)} \cup {Row(TRUE, m) : m \in {None, Zero, NegativeZero, Ten, TenLong, Half}}

ItemRows == {Row(FALSE, <<>>), Row(TRUE, <<>>), Row(TRUE, <<Zero, Ten>>), Row(TRUE, <<Half, TenLong>>)}

Filled == [TOTAL_MARKS |-> TotalRows, ITEM_LEVEL |-> ItemRows]
=============================================================================
