----------------------------- MODULE MCTcpServer -----------------------------
EXTENDS TcpServer

CONSTANTS w1, w2
SingleOrTwo == {<<>>, <<w1, w2>>}
==============================================================================
