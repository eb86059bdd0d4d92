---------------------------- MODULE MCPaperScope -----------------------------
EXTENDS PaperScope, TLC

CONSTANTS s1, s2

Q(number, max, group, weights) == QuestionConfig(number, max, group, weights)

Whole == <<3333, 3333, 3334>>

\* One compulsory question and the best one of two, whose full marks exceed the
\* paper's; the best two of three.
OneOfTwo ==
  PaperConfig("ITEM_LEVEL", <<Q(1, 2, None, <<>>), Q(2, 2, "A", Whole), Q(3, 2, "A", <<>>)>>, [A |-> 1], 3)
TwoOfThree ==
  PaperConfig("ITEM_LEVEL", <<Q(1, 1, "A", <<>>), Q(2, 2, "A", <<>>), Q(3, 2, "A", <<>>)>>, [A |-> 2], 4)

\* The ways to get it wrong.
Duplicate    == [OneOfTwo EXCEPT !.questions[3] = Q(2, 2, "A", <<>>)]
UnknownGroup == [OneOfTwo EXCEPT !.questions[3] = Q(3, 2, "B", <<>>)]
PickNone     == [OneOfTwo EXCEPT !.groups.A = 0]
PickMore     == [OneOfTwo EXCEPT !.groups.A = 3]
LightTopics  == [OneOfTwo EXCEPT !.questions[2].weights = <<5000, 4998>>]

ByTotal == PaperConfig("TOTAL_MARKS", <<>>, <<>>, 2)

AllPapers == {ByTotal, OneOfTwo, TwoOfThree,
              Duplicate, UnknownGroup, PickNone, PickMore, LightTopics}

\* Answers to three questions, more than a question's maximum, less than 0,
\* none, no number (and NaN, by total); and sets with a gap, with one too many, and without any.
ItemEntries ==
  {t \in [1..3 -> 0..2] : t[1] # 1 /\ t[3] # 0}
    \cup {<<1, 3, 0>>, <<0, -1, 2>>, <<1, None, 2>>, <<1, Junk, 2>>,
          <<1, 2>>, <<1, 0, 1, 0>>, <<>>}

TotalEntries == -1..3 \cup {None, Junk, NotANumber}

AllEntries == [TOTAL_MARKS |-> TotalEntries, ITEM_LEVEL |-> ItemEntries]

\* Students are told apart by nothing but what is transcribed and entered.
Symmetry == Permutations(Students)
=============================================================================
