------------------------------ MODULE Session ------------------------------
(***************************************************************************)
(* What bot/discord/client.py promises to the loops of the scheduler: one  *)
(* Discord page, used by one loop at a time, in the order in which the     *)
(* loops asked for it; whatever reaches Discord while a loop has the page  *)
(* is a text of that loop, whole.                                          *)
(*                                                                         *)
(* Commands.tla is the detailed specification that implements this one.    *)
(***************************************************************************)
EXTENDS Sequences, Naturals

CONSTANTS
  Tasks,   \* the loops of bot/scheduler that use the page
  None     \* nobody has the page (no task)

VARIABLES
  holder,  \* the loop that has the page, or None
  line,    \* the loops waiting for it, first come first served
  said     \* the text Discord last received from the holder: [by, text], or None

sessionVars == <<holder, line, said>>

\* A text is marked with its author. A plain message may arrive twice in one text
\* (client.py:148-162 inserts it again when it cannot read the input box back).
WholeTexts(t) == {<<t>>, <<t>> \o <<t>>}

Waiting(t) == \E i \in 1 .. Len(line) : line[i] = t

Init ==
  /\ holder = None
  /\ line = <<>>
  /\ said = None

Arrive(t) ==
  /\ holder # t
  /\ ~Waiting(t)
  /\ line' = Append(line, t)
  /\ UNCHANGED <<holder, said>>

Admit(t) ==
  /\ holder = None
  /\ line # <<>>
  /\ Head(line) = t
  /\ holder' = t
  /\ line' = Tail(line)
  /\ UNCHANGED said

Say(t) ==
  /\ holder = t
  /\ \E text \in WholeTexts(t) : said' = [by |-> t, text |-> text]
  /\ UNCHANGED <<holder, line>>

Depart(t) ==
  /\ holder = t
  /\ holder' = None
  /\ said' = None
  /\ UNCHANGED line

\* The program closes: nobody is served any more.
Close ==
  /\ line' = <<>>
  /\ \/ UNCHANGED <<holder, said>>
     \/ holder' = None /\ said' = None

Next == Close \/ \E t \in Tasks : Arrive(t) \/ Admit(t) \/ Say(t) \/ Depart(t)

SessionSpec == Init /\ [][Next]_sessionVars
============================================================================
