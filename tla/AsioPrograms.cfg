SPECIFICATION Spec
CONSTANTS
  \* Three messages of one to three bytes: a partial transfer of the first can be
  \* shorter than, as long as or longer than the second.
  MaxLen = 3
  MaxMsgs = 3
  RECVSIZE = 2
  MaxRecv = 2
  \* The sizes of the source: "hello asio" and seven bytes.
  SendSize = 10
  MESSAGE_SIZE = 7
  \* Frames of four bytes through buffers of three: no frame fits in one piece.
  HEAD_LENGTH = 2
  Body = 2
  Buffer = 3
  MAX_LENGTH = 2
  MaxFrames = 3
  \* Two connections: one may fail, or end the process, while the other is served.
  Connection = {c1, c2}
  Message = {x, y}
  Junk = junk
INVARIANTS
  ApiSessionSafe
  SyncSocketSafe
  RepliesAreBodies
  CoServerSafe
  WsServerSafe
PROPERTIES
  AllAnswered
  ConnectionEnds
CHECK_DEADLOCK FALSE
