------------------------------- MODULE Programs -------------------------------
(***************************************************************************)
(* The programs of src/basic and src/tsoding, which nothing connects: one   *)
(* of them is chosen at the start and runs.                                 *)
(***************************************************************************)
EXTENDS Integers, Sequences

CONSTANTS
  Content, MaxTasks, MaxId,                          \* TaskManager
  Document,                                          \* JsonParser
  Thread, MaxLogs,                                   \* Logger
  Text, Placeholder, Argument, MaxTokens, MaxArgs,   \* LogFormat
  arch, td, sigmoidf(_), Random, MaxParam,           \* NeuralNet
  WIDTH, HEIGHT, BIAS, MaxAdjust                     \* Perceptron

VARIABLES
  runs,                                              \* the one that runs
  tasks, nextId, file, pc, stale,                    \* TaskManager
  doc, result,                                       \* JsonParser
  queue_, is_shutdown_, worker, msg,
  log_file_, is_open, dtor, logged,                  \* Logger
  format, arg_strings, arg_index, pos, oss, at,      \* LogFormat
  ws, bs, gws, gbs, graded,                          \* NeuralNet
  weights, added, subtracted, sample, area           \* Perceptron

manager == <<tasks, nextId, file, pc, stale>>
json == <<doc, result>>
logger == <<queue_, is_shutdown_, worker, msg, log_file_, is_open, dtor, logged>>
log == <<format, arg_strings, arg_index, pos, oss, at>>
net == <<ws, bs, gws, gbs, graded>>
perceptron == <<weights, added, subtracted, sample, area>>
vars == <<runs, manager, json, logger, log, net, perceptron>>

T == INSTANCE TaskManager
J == INSTANCE JsonParser
G == INSTANCE Logger
L == INSTANCE LogFormat
N == INSTANCE NeuralNet
P == INSTANCE Perceptron

ASSUME ProgramsAssumption == /\ T!TaskManagerAssumption /\ G!LoggerAssumption
                             /\ L!LogFormatAssumption
                             /\ N!NeuralNetAssumption /\ P!PerceptronAssumption

\* What does not run rests: the network without layers.
NoDocument == doc = [text |-> << >>, value |-> << >>] /\ result = J!None
NoFormat == /\ format = << >> /\ arg_strings = << >> /\ arg_index = 0
            /\ pos = 1 /\ oss = << >> /\ at = "loop"
NoNetwork == /\ ws = << >> /\ bs = << >> /\ gws = << >> /\ gbs = << >>
             /\ graded = FALSE

Init == /\ runs \in {"manager", "json", "logger", "log", "net", "perceptron"}
        /\ T!Init /\ G!Init /\ P!Init
        /\ IF runs = "json" THEN J!Init ELSE NoDocument
        /\ IF runs = "log" THEN L!Init ELSE NoFormat
        /\ IF runs = "net" THEN N!Init ELSE NoNetwork

Next == /\ \/ runs = "manager" /\ T!Next /\ UNCHANGED <<json, logger, log, net, perceptron>>
           \/ runs = "json" /\ J!Next /\ UNCHANGED <<manager, logger, log, net, perceptron>>
           \/ runs = "logger" /\ G!Next /\ UNCHANGED <<manager, json, log, net, perceptron>>
           \/ runs = "log" /\ L!Next /\ UNCHANGED <<manager, json, logger, net, perceptron>>
           \/ runs = "net" /\ N!Next /\ UNCHANGED <<manager, json, logger, log, perceptron>>
           \/ runs = "perceptron" /\ P!Next /\ UNCHANGED <<manager, json, logger, log, net>>
        /\ UNCHANGED runs

Spec == /\ Init /\ [][Next]_vars
        /\ runs = "logger" => G!Fairness

-----------------------------------------------------------------------------
\* Unique ids below the next one, and a file that is the memory or its prefix.
TaskManagerSafe == T!TaskManagerSafe

\* A document is parsed to its end and to its value.
ParsesDocument == J!ParsesDocument

\* What is logged is written once and in order to a file that is closed last.
LoggerSafe == G!Safe

\* The destructor of the logger returns.
LoggerDestructorReturns == G!DestructorReturns

\* The logger is a mailbox.
LoggerMailboxSpec == G!MailboxSpec

\* formatMessage prints what it should.
PrintsExpected == L!PrintsExpected

\* back_prop is the gradient, doubled in each layer below the last.
GradientDoubledDown == N!GradientDoubledDown

\* Samples fit the layer, and the weights are bounded by the corrections.
PerceptronSafe == runs = "perceptron" => P!Safe
=============================================================================
