------------------------------ MODULE TxPhases ------------------------------
(***************************************************************************)
(* What the MOX controller promises those who listen to its signals, and   *)
(* know nothing else of it: the announcements tell one story.  Nobody      *)
(* hears that the transmitter is ready who has heard of an un-key since    *)
(* the key, nor that the transmission is over after a new key; between two *)
(* announcements there may be silence or a rejection, and the same request *)
(* is never announced twice.                                               *)
(***************************************************************************)

VARIABLES
  phase,  \* what was announced last
  heard   \* what the last step announced, in order

vars == <<phase, heard>>

Init == phase = "Receive" /\ heard = <<>>

Announce(from, signals, to) ==
  /\ phase \in from
  /\ phase' = to
  /\ heard' = signals

Silence == phase' = phase /\ heard' \in {<<>>, <<"moxRejected">>}

\* A key may come over an un-key that is still on its way to receive, and an
\* un-key over a key that is not on the air yet.
Key ==
  Announce({"Receive", "Draining", "Drained"},
           <<"moxChanging", "txAboutToBegin", "hardwareFlippedTx">>, "Keying")

Unkey ==
  Announce({"Keying", "OnAir"},
           <<"moxChanging", "txAboutToEnd", "hardwareFlippedRx">>, "Draining")

TxReady  == Announce({"Keying"}, <<"txReady", "moxStateOn">>, "OnAir")
Flushed  == Announce({"Draining"}, <<"txaFlushed">>, "Drained")
RxReady  == Announce({"Drained"}, <<"rxReady", "moxStateOff">>, "Receive")

Next == Silence \/ Key \/ Unkey \/ TxReady \/ Flushed \/ RxReady

Spec == Init /\ [][Next]_vars
=============================================================================
