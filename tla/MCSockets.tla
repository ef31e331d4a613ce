------------------------------ MODULE MCSockets ------------------------------
EXTENDS Sockets
CONSTANTS main, reader, writer
MCGreenlet == {main, reader, writer}
MCFd == 1 .. 2

(* Socket 1 is the writer's and socket 2 the reader's.  The main greenlet  *)
(* writes to socket 1 as well, and both may happen to wait for it.         *)
MCCalls(g) ==
  CASE g = main   -> {Send(1, 1), RecvInto(1, 1)}
    [] g = reader -> {Recv(2), RecvFrom(2, 1)}
    [] g = writer -> {SendAll(1, 2), SendTo(1, 1, 1)}
MCSelects(g) == CASE g = main -> {} [] g = reader -> {2} [] g = writer -> {2}
MCShuts(g) == IF g = writer THEN {2} ELSE {}
=============================================================================
