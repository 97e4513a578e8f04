----------------------------------- MODULE MCCJson -----------------------------------
(****************************************************************************)
(* The parts of cJSON that share no state, side by side: one of them is     *)
(* chosen at the start and runs, the others stay as they begin.             *)
(****************************************************************************)
EXTENDS Naturals, Sequences, TLC

CONSTANTS
    Item, ListItem, Block, Nil,                   \* CJsonTree
    NestingLimit, MaxText, MaxParseRoom,          \* CJsonParse
    FirstSize, IntMax, MaxValue, MaxPrintRoom,    \* CJsonPrint
    MaxChunks, MaxCut,                            \* CJsonText
    MaxSize, MaxPieces                            \* CJsonCompare, CJsonMinify

VARIABLES
    component,     \* the part that runs
    heap, held, lost, leaked, text, edited, value, chunks, cut, a, b, size, pieces

--------------------------------------------------------------------------------
(* Escape sequences at the borders of UTF-8 and UTF-16: the letter a, \n, \", *)
(* \\, \x, \u0001, \u007f, \u07FF, \u0800, \uFFFF, \uD800, \uDBFF, \uDC00,    *)
(* \udfff, and \u00g1, which has a wrong digit.                               *)

Escaped(c) == <<92, c>>
UTF16(p, q, r, s) == <<92, 117, p, q, r, s>>

Chunk == {<<97>>, Escaped(110), Escaped(34), Escaped(92), Escaped(120),
          UTF16(48, 48, 48, 49), UTF16(48, 48, 55, 102), UTF16(48, 55, 70, 70),
          UTF16(48, 56, 48, 48), UTF16(70, 70, 70, 70), UTF16(68, 56, 48, 48),
          UTF16(68, 66, 70, 70), UTF16(68, 67, 48, 48), UTF16(100, 102, 102, 102),
          UTF16(48, 48, 103, 49)}

\* Blanks, comments with quotes and stars in them, strings with escaped quotes, backslashes,
\* blanks and comments in them, and comments and strings without an end.
Pieces(stays, end, texts) == {[stays |-> stays, end |-> end, text |-> t] : t \in texts}

Piece ==
    Pieces(TRUE, "closed",
        {<<"1">>, <<"quote", "\\", "quote", "quote">>, <<"quote", "\\", "\\", "quote">>,
         <<"quote", " ", "/", "/", "quote">>, <<"quote", "/", "*", "quote">>})
    \union Pieces(FALSE, "closed",
        {<<" ">>, <<"tab">>, <<"cr">>, <<"nl">>, <<"/", "/", "quote", "nl">>,
         <<"/", "*", "*", "*", "/">>, <<"/", "*", "quote", "nl", "*", "/">>})
    \union Pieces(FALSE, "line", {<<"/", "/", "*">>})
    \union Pieces(FALSE, "open", {<<"/", "*", " ", "*">>})
    \union Pieces(TRUE, "open", {<<"quote", " ">>, <<"quote", "\\", "quote">>, <<"quote", "1", "\\">>})

\* k and K differ in the case of a letter.
Lower(names) == [name \in names |-> IF name = "K" THEN "k" ELSE name]

\* Which address an item or a string gets makes no difference to the program.
Symmetry == Permutations(Item) \union Permutations(Block)

--------------------------------------------------------------------------------
\* Items of all kinds in a heap for three items and two strings.
Tree == INSTANCE CJsonTree WITH
    Name <- {"k", "K"}, lower <- Lower({"k", "K"}),
    Kind <- {"string", "array", "object"}

\* Longer lists.
Lists == INSTANCE CJsonTree WITH
    Item <- ListItem, Block <- {}, Name <- {"k"}, lower <- Lower({"k"}),
    Kind <- {"array"}

Parse == INSTANCE CJsonParse WITH MaxRoom <- MaxParseRoom
Printing == INSTANCE CJsonPrint WITH MaxRoom <- MaxPrintRoom
Text == INSTANCE CJsonText

\* Objects whose names differ, and objects with two members of one name.
Compare == INSTANCE CJsonCompare WITH
    Name <- {"k", "K", "l"}, lower <- Lower({"k", "K", "l"}), Datum <- {1}, SameNames <- FALSE
CompareTwice == INSTANCE CJsonCompare WITH
    Name <- {"k"}, lower <- Lower({"k"}), Datum <- {1, 2}, SameNames <- TRUE

Minify == INSTANCE CJsonMinify

ASSUME CJsonAssumption ==
    /\ Tree!TreeAssumption /\ Lists!TreeAssumption
    /\ Parse!ParseAssumption /\ Printing!PrintAssumption /\ Text!TextAssumption
    /\ Compare!CompareAssumption /\ CompareTwice!CompareAssumption /\ Minify!MinifyAssumption

--------------------------------------------------------------------------------
treeVars == <<heap, held, lost, leaked>>
textVars == <<text, edited, chunks, cut, pieces>>
compareVars == <<a, b, size>>
vars == <<component, treeVars, textVars, value, compareVars>>

Runs(name) == component = name

Init ==
    /\ component \in {"tree", "lists", "parse", "print", "text", "compare", "compare twice", "minify"}
    /\ Tree!Init
    /\ Parse!Init /\ Text!Init /\ Minify!Init
    /\ Printing!Init /\ (Runs("print") \/ value = CHOOSE v \in Printing!Leaves : TRUE)
    /\ IF Runs("compare twice") THEN CompareTwice!Init
       ELSE Compare!Init /\ (Runs("compare") \/ \A v \in {a, b} : v = CHOOSE w \in Compare!Values : TRUE)

TreeStep ==
    /\ \/ Runs("tree") /\ Tree!Next
       \/ Runs("lists") /\ Lists!Next
    /\ UNCHANGED <<component, textVars, value, compareVars>>
ParseStep ==
    Runs("parse") /\ Parse!Next /\ UNCHANGED <<component, treeVars, chunks, cut, pieces, value, compareVars>>
PrintStep ==
    Runs("print") /\ Printing!Next /\ UNCHANGED <<component, treeVars, textVars, compareVars>>
TextStep ==
    Runs("text") /\ Text!Next /\ UNCHANGED <<component, treeVars, text, edited, pieces, value, compareVars>>
CompareStep ==
    /\ \/ Runs("compare") /\ Compare!Next
       \/ Runs("compare twice") /\ CompareTwice!Next
    /\ UNCHANGED <<component, treeVars, textVars, value>>
MinifyStep ==
    Runs("minify") /\ Minify!Next /\ UNCHANGED <<component, treeVars, text, edited, chunks, cut, value, compareVars>>

Next == TreeStep \/ ParseStep \/ PrintStep \/ TextStep \/ CompareStep \/ MinifyStep

Spec == Init /\ [][Next]_vars

--------------------------------------------------------------------------------
\* The lists of items, none while another part runs.
AsSequences == INSTANCE ItemLists WITH
    Item <- ListItem, list <- IF Runs("lists") THEN Lists!Sequences ELSE [n \in ListItem |-> <<>>]

(* In every order of the calls that make, change, share, copy and delete items, and
   whatever fails for want of memory, lists are linked in both directions, nothing is
   freed twice or left dangling, and the lists are the sequences of ItemLists; only a
   reference whose name cannot be allocated is lost, and only an item whose name could
   not be has a literal freed as its name or is a member without one. *)
ItemsAreWhole ==
    /\ [](/\ Runs("tree") => /\ Tree!TypeOK /\ Tree!ListsLinked /\ Tree!NothingLeaks
                             /\ Tree!FreesAreFounded /\ Tree!NothingDangles
          /\ Runs("lists") => Lists!ListsLinked)
    /\ AsSequences!Spec

(* A text is parsed as the value that the grammar gives it, a string as its code points,
   where a \u escape with a wrong digit is the code point 0, and nothing else is accepted;
   a parse that fails leaves nothing allocated, and cJSON_Minify takes away blanks and
   comments only, and reads beyond the text only if a comment or a string has no end. *)
TextsAreRead ==
    /\ Runs("parse") =>
        Parse!AcceptsTheGrammar /\ Parse!ReadsAPrefix /\ Parse!FailsCleanly
    /\ Runs("text") =>
        Text!ReadsTheString /\ Text!RefusesOthers /\ Text!OutputFits /\ Text!PrintedIsRead
    /\ Runs("minify") => Minify!KeepsTheRest

(* Whatever buffer a value is printed into and whichever allocation fails, its text comes
   out whole or nothing stays allocated, but for the text that cJSON_Print loses when its
   last reallocation fails with the default hooks; and no function writes beyond its room. *)
ValuesArePrinted ==
    Runs("print") =>
        Printing!NothingOverruns /\ Printing!PrintsTheText /\ Printing!FiveMoreAreEnough /\ Printing!PrintsOrFrees

(* cJSON_Compare tells values by what they mean, where no object has a name twice, and
   never depends on which of the two comes first. *)
ValuesAreCompared ==
    /\ Runs("compare") => Compare!ComparesMeanings
    /\ Runs("compare twice") => CompareTwice!IsSymmetric
================================================================================
