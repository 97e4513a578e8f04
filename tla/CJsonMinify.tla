---------------------------------- MODULE CJsonMinify ----------------------------------
(* cJSON_Minify: blanks and comments are taken out of a text, strings are left alone.
   The text is one of symbols, and is rewritten in place.  Behind a comment or a string
   without its end the reading goes on beyond the NUL: what follows is undefined. *)
EXTENDS Naturals, Sequences, SequencesExt, FiniteSetsExt

CONSTANTS
    Piece,         \* what a text is put together from, with whether it is to stay, and whether
                   \* it is "closed", a comment up to the end of the "line", or has no end, "open"
    MaxPieces      \* bound: the pieces of a text

MinifyAssumption == MaxPieces \in Nat /\ \A p \in Piece : p.end \in {"closed", "line", "open"}

Overrun == <<"overrun">>

Blank == {" ", "tab", "cr", "nl"}

VARIABLE pieces

Text == FlattenSeq([k \in DOMAIN pieces |-> pieces[k].text])

--------------------------------------------------------------------------------

At(s, k) == IF k <= Len(s) THEN s[k] ELSE "NUL"
FirstOf(s, from, Holds(_)) == Min({k \in from .. Len(s) : Holds(k)} \union {Len(s) + 1})

\* The quote that ends a string; a backslash takes the next symbol with it.
StringEnd(s, k) ==
    FirstOf(s, k, LAMBDA l :
        s[l] = "quote" /\ LET run == Max({n \in 0 .. l - k : \A j \in 1 .. n : s[l - j] = "\\"}) IN run % 2 = 0)

RECURSIVE Minified(_, _)
Minified(s, k) ==
    LET line == FirstOf(s, k, LAMBDA l : s[l] = "nl")
        comment == FirstOf(s, k, LAMBDA l : s[l] = "*" /\ At(s, l + 1) = "/")
        end == StringEnd(s, k + 1)
    IN CASE k > Len(s) -> <<>>
         [] s[k] \in Blank -> Minified(s, k + 1)
         [] s[k] = "/" /\ At(s, k + 1) = "/" -> Minified(s, line)
         [] s[k] = "/" /\ At(s, k + 1) = "*" ->
                IF comment > Len(s) THEN Overrun ELSE Minified(s, comment + 2)
         [] s[k] = "quote" ->
                IF end > Len(s) THEN SubSeq(s, k, Len(s)) \o Overrun
                ELSE SubSeq(s, k, end) \o Minified(s, end + 1)
         [] OTHER -> <<s[k]>> \o Minified(s, k + 1)

cJSON_Minify(s) == Minified(s, 1)

--------------------------------------------------------------------------------

Init == pieces = <<>>
IsComplete == \A k \in DOMAIN pieces : pieces[k].end = "closed"
Next == Len(pieces) < MaxPieces /\ IsComplete /\ \E p \in Piece : pieces' = Append(pieces, p)
Spec == Init /\ [][Next]_pieces

\* What is neither a blank nor in a comment stays, in its order: what looks like a blank or
\* a comment in a string is not one, nor is what looks like a string in a comment.  The
\* reading leaves the text only behind a comment or a string that has no end.
KeepsTheRest ==
    cJSON_Minify(Text) =
        FlattenSeq([k \in DOMAIN pieces |-> IF pieces[k].stays THEN pieces[k].text ELSE <<>>])
        \o (IF ~IsComplete /\ Last(pieces).end = "open" THEN Overrun ELSE <<>>)
================================================================================
