----------------------------- MODULE MCPollCycle -----------------------------
EXTENDS PollCycle, TLC

SocketSymmetry == Permutations(Sockets)
==============================================================================
