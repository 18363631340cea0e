SPECIFICATION Spec
CONSTANTS
  BeforeClose <- Spaces
  Document <- Documents
  \* Three tasks at a time: one in the middle that can be removed, and five ids.
  Content = {x, y}
  MaxTasks = 3
  MaxId = 5
  \* Two threads that log three lines each.
  t1 = t1
  t2 = t2
  Thread <- Threads
  MaxLogs = 3
  \* Formats of up to four tokens with up to three arguments, one of which prints
  \* as a placeholder.
  Text = {text}
  Placeholder = placeholder
  Argument = {one, placeholder}
  MaxTokens = 4
  MaxArgs = 3
  arch <- Arch
  td <- Samples
  sigmoidf <- Activation
  Random <- Parameters
  MaxParam = 30
  \* Six columns and rows: circles of radius one and, in the middle, two; a bias
  \* below what a circle that has been added scores, so that rectangles are
  \* subtracted too.
  WIDTH = 6
  HEIGHT = 6
  BIAS = 2
  MaxAdjust = 2
INVARIANT
  ParsesDocument
CHECK_DEADLOCK FALSE
