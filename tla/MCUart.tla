------------------------------- MODULE MCUart -------------------------------
EXTENDS Uart

\* Both copies of the code, one of them with flow control.
MCLines == {[port |-> "com1", hwFlow |-> FALSE], [port |-> "com2", hwFlow |-> TRUE]}

\* Odd parity that is not enabled changes nothing; seven bits with even parity do.
MCSettings ==
  {[baud |-> 9600, CSIZE |-> 8, PARENB |-> FALSE, PARODD |-> TRUE, CSTOPB |-> FALSE],
   [baud |-> 9600, CSIZE |-> 7, PARENB |-> TRUE, PARODD |-> FALSE, CSTOPB |-> FALSE]}
=============================================================================
