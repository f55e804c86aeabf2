-------------------------- MODULE MCTcpConnection --------------------------
EXTENDS TcpConnection

CONSTANTS m1, m2

PlainUse == [calls |-> Writing, messages |-> {m1, m2}, server_dies |-> FALSE, max_queue |-> 2]
OneMessage == [PlainUse EXCEPT !.messages = {m1}, !.max_queue = 1]
ServerUse == [OneMessage EXCEPT !.server_dies = TRUE]
AnyUse == [ServerUse EXCEPT !.calls = @ \cup {"start_read", "stop_read"}]

Safety == {PlainUse, AnyUse}
Liveness == {OneMessage}
ServerDestroyed == {ServerUse}
=============================================================================
