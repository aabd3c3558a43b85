--------------------------- MODULE MCLongFlagLine ---------------------------
EXTENDS LongFlagLine

\* Widths 6-12, and the zero and negative values the flag also accepts.
MCColumns == {-1, 0} \cup 6..12

\* Indentation of the perfect-match group: none, or one space when more
\* groups follow it.
MCIndents == {<<>>, <<" ">>}
MCNames == {<<"n">>, <<"n", "m">>}
\* No description, a short one, and one DescribeOneFlag wrapped at a space.
MCDescs == {<<>>, <<"a">>, <<"a", NL, " ", " ", " ", " ", " ", " ", "a">>}
\* A description that itself mentions " type:".
MCMarkerDescs == {<<"a", " ", "t", "y", "p", "e", ":", " ", "a">>}
MCTypeName == <<"b">>
MCDefaultText == <<"0">>
MCFileName == <<"f">>

=============================================================================
