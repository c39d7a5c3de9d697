---------------------------- MODULE MCSaveRequest ----------------------------
\* Small instances of SaveRequest.
EXTENDS SaveRequest

CONSTANTS a, b, n1, n2, n3

Resources == {a, b, n1, n2, n3}
FreshIri == <<n1, n2, n3>>

New == [manager |-> "empty", id |-> Nil, thumbnail |-> FALSE]
NewWithPicture == [New EXCEPT !.thumbnail = TRUE]
Old(r) == [manager |-> "own", id |-> r, thumbnail |-> FALSE]
OldWithPicture(r) == [Old(r) EXCEPT !.thumbnail = TRUE]
Foreign(r) == [manager |-> "foreign", id |-> r, thumbnail |-> FALSE]

Various == {New, NewWithPicture, Old(a), OldWithPicture(a), Foreign(b), Foreign(Nil)}

\* Lists of three in which no foreign id equals an id that is looked up.
Lists == [1 .. 3 -> Various]

\* Two contacts, of which one has a new thumbnail.
PictureLists == {<<OldWithPicture(a), Old(b)>>, <<Old(b), OldWithPicture(a)>>}

=============================================================================
