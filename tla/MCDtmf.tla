--------------------------------- MODULE MCDtmf ---------------------------------
EXTENDS Dtmf

\* The events are of the keys 1 and 5; 2 has the row of the one and the column
\* of the other.

\* Up to two lines, right or wrong, of two keys and a character that is none.
Lines == [start : -1..Length, end : 0..Length, symbol : {"1", "5", "x"}]
UpToTwoLines == UNION {[1..n -> Lines] : n \in 0..2}

\* Three events in order.
ThreeEvents == {<<Event(a, b, "1"), Event(b, c, "5"), Event(c, d, "1")>> :
                  a, b, c, d \in 0..Length}

SomeLists == UpToTwoLines \cup ThreeEvents
================================================================================
