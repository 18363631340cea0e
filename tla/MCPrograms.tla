----------------------------- MODULE MCPrograms -----------------------------
\* Values for the constants of Programs.
EXTENDS Programs

CONSTANTS
  t1, t2,      \* threads that log
  BeforeClose  \* spaces to put before closing brackets and commas of a document

-----------------------------------------------------------------------------
\* Documents of lists and dictionaries within each other, with spaces before
\* values and, where BeforeClose says so, before a bracket or a comma.
Doc(text, value) == [text |-> text, value |-> value]

Keys == {Doc(<<"\"", "a", "\"">>, <<"\"", "a", "\"">>),
         Doc(<<" ", "\"", "\\", "n", "\"">>, <<"\"", "\n", "\"">>)}
Atoms == Keys \cup {Doc(<<"1">>, <<"1">>), Doc(<<" ", "-", "1", "2">>, <<"-", "1", "2">>),
                    Doc(<<"\"", "\\", "\"", "]", "\"">>, <<"\"", "\"", "]", "\"">>),
                    Doc(<<"[", "]">>, <<"[", "]">>), Doc(<<"\n", "{", "}">>, <<"{", "}">>)}

Lists(D, E) ==
  {Doc(<<"[">> \o d.text \o s \o <<"]">>, <<"[">> \o d.value \o <<"]">>) :
     d \in D, s \in BeforeClose} \cup
  {Doc(<<"[">> \o d.text \o s \o <<",">> \o e.text \o <<"]">>,
       <<"[">> \o d.value \o e.value \o <<"]">>) : d \in D, e \in E, s \in BeforeClose}

Entry(k, d) == Doc(k.text \o <<":">> \o d.text, k.value \o <<":">> \o d.value)

Dicts(D, E) ==
  {Doc(<<"{">> \o Entry(k, d).text \o s \o <<"}">>, <<"{">> \o Entry(k, d).value \o <<"}">>) :
     k \in Keys, d \in D, s \in BeforeClose} \cup
  {Doc(<<"{">> \o Entry(k, d).text \o <<",">> \o Entry(l, e).text \o <<"}">>,
       <<"{">> \o (IF k.value = l.value THEN << >> ELSE Entry(k, d).value)
         \o Entry(l, e).value \o <<"}">>) : k \in Keys, l \in Keys, d \in D, e \in E}

Nested == Lists(Atoms, Atoms) \cup Dicts(Atoms, Atoms)
Documents == Atoms \cup Nested \cup Lists(Nested, Keys) \cup Dicts(Nested, Keys)

NoSpaces == {<< >>}
Spaces == {<< >>, <<" ">>}

-----------------------------------------------------------------------------
Threads == {t1, t2}

-----------------------------------------------------------------------------
\* One neuron below a layer of two, three layers above the input: the factor is
\* four at the bottom.  Two samples with one output.
Arch == <<1, 1, 2, 1>>
Samples == << <<1, 0>>, <<2, 1>> >>
Parameters == {-1, 2}

\* An activation of five values, whose derivative a * (1 - a) is not constant.
Activation(x) == ((x + 2) % 5) - 2
=============================================================================
