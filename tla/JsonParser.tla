----------------------------- MODULE JsonParser -----------------------------
(***************************************************************************)
(* The JSON parser of basic/jsontest (Jsontask.cpp).  Every view that parse *)
(* is called for is a tail of the text it was first called for, so it is    *)
(* given by its first position.  Numbers are runs of digits with a sign:    *)
(* fractions and exponents, which only make the run longer, are left out.   *)
(* A character read past the end is the null that ends a literal.           *)
(*                                                                          *)
(* A value is written as its characters: those of the text, with strings    *)
(* unescaped, lists without commas, and a dictionary in the order of the    *)
(* last assignment to its keys.                                             *)
(***************************************************************************)
EXTENDS SequencesExt, Naturals

CONSTANTS
  Document  \* texts and, for each, the value it denotes: [text |-> .., value |-> ..]

VARIABLES
  doc,    \* the document parsed
  result  \* what parse returns for it

vars == <<doc, result>>

None == [value |-> << >>, eaten |-> 0]

Init == doc \in Document /\ result = None

-----------------------------------------------------------------------------
Digit == {"0", "1", "2", "3", "4", "5", "6", "7", "8", "9"}
Sign == {"+", "-"}
Space == {" ", "\n", "\r", "\t", "\f"}

\* The escapes that can be written here.
unescaped_char(c) == CASE c = "n" -> "\n" [] c = "r" -> "\r" [] c = "t" -> "\t"
                       [] c = "f" -> "\f" [] OTHER -> c

\* First position from i on that is in a set of positions, or one past the text.
FirstOf(text, i, S) == Min({j \in i..Len(text) : j \in S} \cup {Len(text) + 1})

At(text, j, c) == j <= Len(text) /\ text[j] = c

\* What is read from i on and the number of characters that was.
Parsed(value, i, next) == [value |-> value, eaten |-> next - i]
Nothing == [value |-> <<"null">>, eaten |-> 0]

\* regex_search finds a number anywhere; from_chars refuses one with a plus.
ParseNumber(text, i) ==
  LET s == FirstOf(text, i, {j \in DOMAIN text :
             \/ text[j] \in Digit
             \/ text[j] \in Sign /\ j < Len(text) /\ text[j + 1] \in Digit})
      e == FirstOf(text, s + 1, {j \in DOMAIN text : text[j] \notin Digit})
  IN IF s > Len(text) \/ text[s] = "+" THEN Nothing
     ELSE Parsed(SubSeq(text, s, e - 1), i, i + (e - s))

\* A character is escaped if a backslash precedes it that is not.
ParseString(text, i) ==
  LET Escaped[j \in Nat] == j > i + 1 /\ text[j - 1] = "\\" /\ ~Escaped[j - 1]
      close == FirstOf(text, i + 1, {j \in DOMAIN text : text[j] = "\"" /\ ~Escaped[j]})
      Char(j) == IF Escaped[j] THEN <<unescaped_char(text[j])>>
                 ELSE IF text[j] = "\\" THEN << >> ELSE <<text[j]>>
  IN Parsed(<<"\"">> \o FlattenSeq([k \in 1..close - 1 - i |-> Char(i + k)]) \o <<"\"">>,
            i, Min({close, Len(text)}) + 1)

\* Mutant of InsertOrAssign: the first assignment to a key stays.
InsertOnly(e, entries) == <<e>> \o SelectSeq(entries, LAMBDA f : f.key # e.key)

\* The entries with one more in front, unless its key is assigned again.
InsertOrAssign(e, entries) ==
  IF \E k \in DOMAIN entries : entries[k].key = e.key THEN entries ELSE <<e>> \o entries

\* parse, the loop for a list and the loop for a dictionary.  A loop yields its
\* items or entries and the position it ends at, 0 for a dictionary given up.
parse(text) ==
  LET n == Len(text)
      After(j) == IF At(text, j, ",") THEN j + 1 ELSE j
      P[what \in {"value", "list", "dict"}, i \in Nat] ==
        IF what = "value" THEN
          LET off == FirstOf(text, i, {j \in DOMAIN text : text[j] \notin Space}) IN
            IF i > n THEN Nothing
            ELSE IF i < off /\ off <= n
            THEN Parsed(P["value", off].value, i, off + P["value", off].eaten)
            ELSE CASE text[i] \in Digit \cup Sign -> ParseNumber(text, i)
                   [] text[i] = "\"" -> ParseString(text, i)
                   [] text[i] = "[" ->
                        LET r == P["list", i + 1] IN
                          Parsed(<<"[">> \o FlattenSeq(r.items) \o <<"]">>, i, r.next)
                   [] text[i] = "{" ->
                        LET r == P["dict", i + 1]
                            pairs == [k \in DOMAIN r.items |->
                                        r.items[k].key \o <<":">> \o r.items[k].val] IN
                          Parsed(<<"{">> \o FlattenSeq(pairs) \o <<"}">>,
                                 i, IF r.next = 0 THEN i ELSE r.next)
                   [] OTHER -> Nothing
        ELSE IF i > n THEN [items |-> << >>, next |-> i]
        ELSE IF what = "list" THEN
          LET r == P["value", i]
              rest == P["list", After(i + r.eaten)] IN
            IF text[i] = "]" THEN [items |-> << >>, next |-> i + 1]
            ELSE IF r.eaten = 0 THEN [items |-> << >>, next |-> i]
            ELSE [items |-> <<r.value>> \o rest.items, next |-> rest.next]
        ELSE
          LET key == P["value", i]
              colon == i + key.eaten
              from == IF At(text, colon, ":") THEN colon + 1 ELSE colon
              val == P["value", from]
              rest == P["dict", After(from + val.eaten)] IN
            IF text[i] = "}" THEN [items |-> << >>, next |-> i + 1]
            ELSE IF key.eaten = 0 \/ key.value[1] # "\"" \/ val.eaten = 0
            THEN [items |-> << >>, next |-> 0]
            ELSE [items |-> InsertOrAssign([key |-> key.value, val |-> val.value], rest.items),
                  next |-> rest.next]
  IN P["value", 1]

Parse == /\ result = None
         /\ result' = parse(doc.text)
         /\ UNCHANGED doc

Next == Parse

Spec == Init /\ [][Next]_vars

-----------------------------------------------------------------------------
\* A document is parsed to its end and to the value it denotes, however lists
\* and dictionaries are nested and with spaces where a value starts
\* (Jsontask.cpp:99, 171, 191, 208).
ParsesDocument ==
  result # None => result = [value |-> doc.value, eaten |-> Len(doc.text)]
=============================================================================
