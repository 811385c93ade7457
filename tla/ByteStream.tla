------------------------------ MODULE ByteStream ------------------------------
(***************************************************************************)
(* What a connection promises of the bytes it is given to send: the kernel *)
(* gets a prefix of what was accepted, and never something else than more  *)
(* of it; the stream is half-closed when all that was accepted has been    *)
(* delivered, and behind the half-close nothing is accepted; when the      *)
(* connection is over, nothing is delivered and nothing half-closed.       *)
(***************************************************************************)
EXTENDS SequencesExt

VARIABLES
  accepted,    \* bytes the connection took charge of
  delivered,   \* bytes the kernel took from it
  halfClosed,  \* the write side was shut
  over         \* the connection was closed or destroyed

svars == <<accepted, delivered, halfClosed, over>>

Init ==
  /\ accepted = << >> /\ delivered = << >>
  /\ halfClosed = FALSE /\ over = FALSE

\* More is accepted, more is delivered, or both.
Transfer ==
  /\ ~over /\ ~halfClosed
  /\ IsPrefix(accepted, accepted') /\ IsPrefix(delivered, delivered')
  /\ IsPrefix(delivered', accepted')
  /\ UNCHANGED <<halfClosed, over>>

\* The end of the stream, with the last bytes or behind them.
HalfClose ==
  /\ ~over /\ ~halfClosed
  /\ IsPrefix(delivered, accepted)
  /\ delivered' = accepted /\ halfClosed' = TRUE
  /\ UNCHANGED <<accepted, over>>

End ==
  /\ over' = TRUE
  /\ UNCHANGED <<accepted, delivered, halfClosed>>

\* What is accepted when it is too late goes nowhere.
AcceptInVain ==
  /\ over
  /\ IsPrefix(accepted, accepted')
  /\ UNCHANGED <<delivered, halfClosed, over>>

Next == Transfer \/ HalfClose \/ End \/ AcceptInVain

Spec == Init /\ [][Next]_svars
==============================================================================
