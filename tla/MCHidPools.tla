----------------------------- MODULE MCHidPools -----------------------------
(***************************************************************************)
(* HidPools for TLC: the descriptors of a few kinds of devices.            *)
(***************************************************************************)
EXTENDS HidPools

Readable(cs) == [collections |-> cs, cut |-> FALSE]
Cut(cs) == [collections |-> cs, cut |-> TRUE]
Top(id, inputs) == [id |-> id, inputs |-> inputs, nested |-> FALSE]

\* A keyboard.
Keyboard == Readable(<<Top(0, <<<<"keys">>>>)>>)
\* A mouse: buttons, and the axes in one item with two usages.
Mouse == Readable(<<[id |-> 0, inputs |-> <<<<"buttons">>, <<"x", "y">>>>, nested |-> TRUE]>>)
\* Keyboard and mouse in one interface: two collections without report ids,
\* which the parser joins.
Joined == Readable(<<Top(0, <<<<"keys">>>>),
                     [id |-> 0, inputs |-> <<<<"x", "y">>>>, nested |-> TRUE]>>)
\* A keyboard and a consumer control told apart by report ids.
Numbered == Readable(<<Top(1, <<<<"keys">>>>), Top(2, <<<<"media">>>>)>>)
\* A collection without Input items.
OutputOnly == Readable(<<Top(0, <<>>)>>)
\* A vendor collection with an item of four data bytes.
Vendor == Cut(<<Top(0, <<<<"vendor">>>>)>>)

AllFields == {"keys", "buttons", "x", "y", "media", "vendor"}
AllDescriptors == {Keyboard, Mouse, Joined, Numbered, OutputOnly, Vendor}

\* A bound: nobody reads spoiled pools.  The reader changes nothing but itself, and
\* what it finds there is open.
ReadUnspoiled == ~(Reading /\ spoiled)
=============================================================================
