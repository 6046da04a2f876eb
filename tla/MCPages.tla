------------------------------ MODULE MCPages ------------------------------
(* The tools and the document of the site for TLC: a behaviour is the life   *)
(* of one tool page, or of a document of the site.  The instances are small: *)
(* a board of nine cells, two buffers, four countries, two codes, a          *)
(* calendar of nine days; sides odd and even, small and large enough for a   *)
(* hollow.                                                                   *)
EXTENDS Tools, Site

Snake3 == <<<<1, 1>>, <<0, 1>>>>

Texts2 == << << <<"a", "b", "(", "a", ")">>, <<" ", " ", "b">>, <<"}">> >>,
             << <<"#", " ", "a">>, <<"-", " ", "a", "b">> >> >>

Country(n, f, cap, g, cs) == [name |-> n, flag |-> f, capital |-> cap, gdp |-> g, cities |-> cs]
City(n, p) == [name |-> n, population |-> p]
Countries4 == {Country("A", TRUE, "x", "1", {City("x", "5")}),
               Country("B", TRUE, "x", "1", {City("x", "5"), City("y", "6")}),
               Country("C", FALSE, "-", "2", {}),
               Country("D", FALSE, "z", "-", {City("z", "-")})}
Facts4 == {[cmd |-> c, desc |-> "does " \o c] : c \in {"dd", "u", "x", "w"}}
Ticked2 == {AllTypes, AllTypes \ {"flag"}}

VisitsFound == [f \in {"a", "any"} \X {"js", "any"} |->
                  IF f = <<"any", "any">> THEN 5 ELSE IF f = <<"a", "js">> THEN 1 ELSE 3]

Codes2 == {<<".">>, <<".", "-">>}

Part(a, b) == [star |-> FALSE, lo |-> a, hi |-> b, step |-> 0]
Every(n) == {[star |-> TRUE, lo |-> 0, hi |-> 0, step |-> n]}
Expr(f) == [macro |-> NoMacro, fields |-> f]
MonthLengths == <<3, 2, 4>>
Preset1 == {<<Every(2), AnyField, AnyField, AnyField, AnyField>>}
Sundays == <<Every(2), At(0), At(3), {Part(1, 1), Part(3, 3)}, {Part(1, 3)}>>
OddDays == <<At(0), At(1), Every(2), {Part(2, 3)}, At(3)>>
Typed == {[macro |-> "weekly", fields |-> <<>>], Expr(Sundays), Expr(OddDays),
          Expr(<<At(1), At(1), At(2), At(1), At(0), {Part(0, 1)}>>)}
Boxed == {<<5, <<{Part(1, 2)}>>>>, <<3, <<>>>>, <<2, <<At(0), At(1)>>>>}

Stamps == {[text |-> t, digits |-> 0, value |-> 0] : t \in {"", "words"}} \cup
          {[text |-> "number", digits |-> 2, value |-> 12],
           [text |-> "number", digits |-> 3, value |-> 120],
           [text |-> "number", digits |-> 2, value |-> 99]}
Offsets == [utc |-> [t \in -3..12 |-> 0],
            london |-> [t \in -3..12 |-> IF t < 6 THEN 0 ELSE 1],
            paris |-> [t \in -3..12 |-> 2]]
ZonesFirst == <<"london", "utc">>
RelativeUnits == <<6, 3, 1>>
TabExprs == {[macro |-> "weekly", fields |-> <<>>], Expr(Sundays), Expr(OddDays)}

SmallSides == {3, 6, 9}
SomeBiases == {-20, 0, 13}
TwoDepths == {2, 4}
SomePixels == {5, 8, 11, 19, 20}
SomeSteps == {1, 4, 5, 16}

\* Nothing tells one pointer from another.
PointersAlike == Permutations(Pointers)

\* Every page a document of these can be opened at.
Doors == {"/", "/secret/vim", "/secret/live", "/secret/admin", "/secret/login", "/missing"}

NoSite ==
  /\ entries = Away /\ at = Away /\ fetched = Away /\ calls = Away /\ app = Away
  /\ late = Away /\ health = Away /\ board = Away /\ vim = Away

PagesInit ==
  \/ ToolsInit /\ NoSite
  \/ /\ tool = "site" /\ Init
     /\ NoSnake /\ NoMotions /\ NoQuiz /\ NoMorse /\ NoBarcode /\ NoVisits /\ NoCron
     /\ NoCopy /\ NoTime /\ NoPixels
PagesNext ==
  \/ ToolsNext /\ UNCHANGED vars
  \/ tool = "site" /\ Next /\ UNCHANGED toolVars
PagesSpec == PagesInit /\ [][PagesNext]_<<toolVars, vars>>

\* The board of a document, whatever is loading, pressed or left: its frames,
\* the clicks to be given back, its strokes (secret_canvas.ts).
BoardGoesOn ==
  tool = "site" => FramesBelongToTheBoard /\ ClicksAreGivenBack /\ HoldEndsWithTheStroke

\* The keys of a document when a game of the Vim page goes (secret_vim.ts).
KeysAreGivenBack == tool = "site" => KeysComeBack
=============================================================================
