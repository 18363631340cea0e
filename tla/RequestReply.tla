---------------------------- MODULE RequestReply ----------------------------
(***************************************************************************)
(* What asio/Async promises the client of Jsonclient.cpp: a client asks, is *)
(* answered, and asks again; the j-th answer it gets is the one to its j-th *)
(* request, never another client's and never the same one twice.            *)
(***************************************************************************)
EXTENDS Sequences, Naturals

CONSTANTS Client, Rounds

VARIABLES
  asked,   \* asked[c]: requests c has made
  answers  \* answers[c]: the requests whose answers c has read, in that order

vars == <<asked, answers>>

Init == /\ asked = [c \in Client |-> 0]
        /\ answers = [c \in Client |-> << >>]

Ask(c) == /\ Len(answers[c]) = asked[c]
          /\ asked[c] < Rounds
          /\ asked' = [asked EXCEPT ![c] = @ + 1]
          /\ UNCHANGED answers

Answer(c) == /\ Len(answers[c]) < asked[c]
             /\ answers' = [answers EXCEPT ![c] = Append(@, [s |-> c, k |-> asked[c]])]
             /\ UNCHANGED asked

Next == \E c \in Client : Ask(c) \/ Answer(c)

Spec == Init /\ [][Next]_vars
=============================================================================
