----------------------------- MODULE LogFormat -----------------------------
(***************************************************************************)
(* formatMessage of the logger of basic/final1 (log.h): the placeholders of *)
(* a format are replaced by the arguments from left to right; a placeholder *)
(* without an argument stays, an argument without a placeholder is appended *)
(* at the end.  A format is a sequence of tokens, each a placeholder or a   *)
(* piece of text; the loop's position is that of the first token it has not *)
(* copied.                                                                  *)
(***************************************************************************)
EXTENDS SequencesExt, FiniteSetsExt, Naturals

CONSTANTS
  Text,          \* pieces of text without a placeholder in them
  Placeholder,   \* "{}"
  Argument,      \* what an argument prints as; it may look like a placeholder
  MaxTokens, MaxArgs  \* bounds on the format and the arguments

LogFormatAssumption == MaxTokens \in Nat /\ MaxArgs \in Nat

VARIABLES
  format,       \* the tokens of the format
  arg_strings,  \* the arguments
  arg_index,    \* how many of them have been used
  pos,          \* tokens before pos have been copied
  oss,          \* the output
  at            \* "loop", "args" or "done"

vars == <<format, arg_strings, arg_index, pos, oss, at>>

Init == /\ format \in BoundedSeq(Text \cup {Placeholder}, MaxTokens)
        /\ arg_strings \in BoundedSeq(Argument, MaxArgs)
        /\ arg_index = 0
        /\ pos = 1
        /\ oss = << >>
        /\ at = "loop"

\* The places of the placeholders find can still see.
Ahead == {i \in pos..Len(format) : format[i] = Placeholder}

\* The text before a placeholder.
Before(i) == SubSeq(format, pos, i - 1)

\* if (arg_index < arg_strings.size())
ArgLeft == arg_index < Len(arg_strings)

\* The loop goes on behind the placeholder, which an argument put there cannot
\* change.
Behind(i) == i + 1

\* A turn of the loop for the next placeholder with an argument left ...
Replace ==
  /\ at = "loop" /\ Ahead # {}
  /\ ArgLeft
  /\ LET i == Min(Ahead) IN
       /\ oss' = oss \o Before(i) \o <<arg_strings[arg_index + 1]>>
       /\ pos' = Behind(i)
  /\ arg_index' = arg_index + 1
  /\ UNCHANGED <<format, arg_strings, at>>

\* ... and with none.
Keep ==
  /\ at = "loop" /\ Ahead # {}
  /\ ~ArgLeft
  /\ LET i == Min(Ahead) IN
       /\ oss' = oss \o Before(i) \o <<Placeholder>>
       /\ pos' = Behind(i)
  /\ UNCHANGED <<format, arg_strings, arg_index, at>>

\* find has returned npos: the tail of the format.
CopyRest ==
  /\ at = "loop" /\ Ahead = {}
  /\ oss' = oss \o SubSeq(format, pos, Len(format))
  /\ at' = "args"
  /\ UNCHANGED <<format, arg_strings, arg_index, pos>>

\* Mutant of AppendArg: no such loop.
DropArgs ==
  /\ at = "args" /\ ArgLeft
  /\ at' = "done"
  /\ UNCHANGED <<format, arg_strings, arg_index, pos, oss>>

\* while (arg_index < arg_strings.size())
AppendArg ==
  /\ at = "args" /\ ArgLeft
  /\ oss' = Append(oss, arg_strings[arg_index + 1])
  /\ arg_index' = arg_index + 1
  /\ UNCHANGED <<format, arg_strings, pos, at>>

Return ==
  /\ at = "args" /\ ~ArgLeft
  /\ at' = "done"
  /\ UNCHANGED <<format, arg_strings, arg_index, pos, oss>>

Next == Replace \/ Keep \/ CopyRest \/ AppendArg \/ Return

Spec == Init /\ [][Next]_vars

-----------------------------------------------------------------------------
\* The number of the placeholder at place i.
Nth(i) == Cardinality({j \in 1..i : format[j] = Placeholder})
Placeholders == Nth(Len(format))

\* What the call should print: token by token, then the arguments left over.
Expected ==
  [i \in 1..Len(format) |->
     IF format[i] = Placeholder /\ Nth(i) <= Len(arg_strings)
       THEN arg_strings[Nth(i)] ELSE format[i]]
  \o SubSeq(arg_strings, Placeholders + 1, Len(arg_strings))

\* formatMessage prints what it should, for every format and list of arguments,
\* also with more of the one than of the other, adjacent placeholders, and
\* arguments that look like placeholders.
PrintsExpected == at = "done" => oss = Expected
=============================================================================
