--------------------------- MODULE MCSqsConsumer ---------------------------
(***************************************************************************)
(* Small instances of SqsConsumer.  The messages are strings, the goroutines  *)
(* model values.                                                              *)
(***************************************************************************)
EXTENDS SqsConsumer, MCProcessWager

SqsProviders == {"sqs"}

\* A message whose body names amount units * 10^-places.
Message(wager, units, places) ==
  [valid |-> TRUE, wager |-> [wager EXCEPT !.provider = "sqs"],
   amount |-> [units |-> units, places |-> places]]

\* A bet of three cents; its key with another amount, one cent beyond the word;
\* a bet of another player; half a cent; a bet on a wallet that is not there.
MCMessages == {"m1", "m2", "m3", "m4", "m5"}
MCBody ==
  "m1" :> Message(Wager("k1", "e1", "BET", 0, NoRef), 3, 2) @@
  "m2" :> Message(Wager("k1", "e2", "BET", 0, NoRef), 201, 2) @@
  "m3" :> Message([Wager("k2", "e3", "BET", 0, NoRef) EXCEPT !.player = "bob"], 1, 1) @@
  "m4" :> Message(Wager("k3", "e4", "BET", 0, NoRef), 5, 3) @@
  "m5" :> Message([Wager("k4", "e5", "BET", 0, NoRef) EXCEPT !.wallet = "w9"], 2, 2)

MCInputs == {Input(m) : m \in {n \in MCMessages : BodyParses(n)}}

Sent == {m \in Messages : queue[m] # "absent"}

\* What has been sent: a message beside which callers send the same key, two of one
\* key, and those that end in no wager.
FewInit == ConsumerInit /\ Sent \in {{"m1"}, {"m1", "m2"}, {"m3"}, {"m4", "m5"}}
FewNext ==
  \/ ServiceNext
  \/ /\ Sent = {"m1"}
     /\ \E p \in Processes : CallerStep(p) /\ req'[p] \in {Null, Input("m1"), Input("m2")}
FewSpec == FewInit /\ [][FewNext]_serviceVars /\ ConsumerFairness

\* A message that one goroutine may receive again.
OneMessage == {"m1"}
=============================================================================
