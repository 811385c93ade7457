--------------------------- MODULE ConnectionEvents ---------------------------
(***************************************************************************)
(* What a TcpServer promises the user's connection callback, with no       *)
(* threads, no queues and no sockets: each connection is reported up once, *)
(* then down at most once, and nothing is reported once the server has     *)
(* been destroyed.  TcpServer is shown to implement it.                    *)
(***************************************************************************)
EXTENDS Sequences

CONSTANT Connections

VARIABLES
  told,   \* told[c]: what the callback has been told of connection c
  over    \* the destructor of the server has returned

cevars == <<told, over>>

Init ==
  /\ told = [c \in Connections |-> << >>]
  /\ over = FALSE

Up(c) ==
  /\ ~over
  /\ told[c] = << >>
  /\ told' = [told EXCEPT ![c] = <<"up">>]
  /\ UNCHANGED over

Down(c) ==
  /\ ~over
  /\ told[c] = <<"up">>
  /\ told' = [told EXCEPT ![c] = <<"up", "down">>]
  /\ UNCHANGED over

End ==
  /\ over' = TRUE
  /\ UNCHANGED told

Next == (\E c \in Connections : Up(c) \/ Down(c)) \/ End

Spec == Init /\ [][Next]_cevars
==============================================================================
