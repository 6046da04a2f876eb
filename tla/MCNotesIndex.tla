---------------------------- MODULE MCNotesIndex ----------------------------
EXTENDS NotesIndex
CONSTANTS a, b, untitled, p1, p2
Servers == {p1, p2}
Words == {a, b, untitled}
Body(front, title, aliases) == [front |-> front, title |-> title, aliases |-> aliases]
\* Titles that collide with one another and with each other's aliases, and one
\* that no name can be made of.
Texts == {Body(TRUE, <<a>>, << <<b>> >>), Body(TRUE, <<b>>, << <<a>> >>),
          Body(TRUE, Unusable, <<>>)}
\* Notes of the old schema: two without frontmatter, and one that takes the first
\* two names anybody else's "a" could have.
Before(state, text) ==
  [state |-> state, title |-> <<a>>, version |-> 1, indexed |-> FALSE, text |-> text]
Rows == {Before("live", Body(FALSE, <<untitled>>, <<>>)),
         Before("deleted", Body(FALSE, <<untitled>>, <<>>)),
         Before("live", Body(TRUE, <<a>>, << <<a, 2>> >>))}
=============================================================================
