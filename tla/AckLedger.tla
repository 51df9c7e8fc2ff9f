------------------------------ MODULE AckLedger ------------------------------
(***************************************************************************)
(* What flow control promises, without the machinery that keeps it: every  *)
(* message a source driver has accepted is owed a number of                *)
(* acknowledgements, one by each part of the log path still responsible    *)
(* for it, and the driver gets its unit of window back at the very step    *)
(* at which the last of them is given.  LogPath implements this            *)
(* specification with stacks of acknowledgement blocks.                    *)
(***************************************************************************)
EXTENDS Integers, FiniteSets

CONSTANTS
  Msg,      \* the messages in memory
  Driver,   \* the source drivers, each with one window
  Window,   \* the initial window of each driver
  Nobody    \* the owner of a message that is not in flight

VARIABLES
  owed,     \* acknowledgements still owed for each message
  owner,    \* the driver that accepted it
  credit    \* the window of each driver

vars == <<owed, owner, credit>>

Init ==
  /\ owed = [m \in Msg |-> 0]
  /\ owner = [m \in Msg |-> Nobody]
  /\ credit = Window

\* A driver accepts a message and spends one unit of its window.
Accept(m, d) ==
  /\ owed[m] = 0
  /\ owed' = [owed EXCEPT ![m] = 1]
  /\ owner' = [owner EXCEPT ![m] = d]
  /\ credit' = [credit EXCEPT ![d] = @ - 1]

\* One more part of the log path takes responsibility for the message.
Claim(m) ==
  /\ owed[m] > 0
  /\ owed' = [owed EXCEPT ![m] = @ + 1]
  /\ UNCHANGED <<owner, credit>>

\* A part of the log path acknowledges it, and is not the last to do so.
Settle(m) ==
  /\ owed[m] > 1
  /\ owed' = [owed EXCEPT ![m] = @ - 1]
  /\ UNCHANGED <<owner, credit>>

\* The last acknowledgement returns the unit of window.
Return(m) ==
  /\ owed[m] = 1
  /\ owed' = [owed EXCEPT ![m] = 0]
  /\ owner' = [owner EXCEPT ![m] = Nobody]
  /\ credit' = [credit EXCEPT ![owner[m]] = @ + 1]

Next ==
  \E m \in Msg :
    \/ \E d \in Driver : Accept(m, d)
    \/ Claim(m)
    \/ Settle(m)
    \/ Return(m)

Spec == Init /\ [][Next]_vars
=============================================================================
