---------------------------- MODULE Conversation ----------------------------
(***************************************************************************)
(* What agent-runtime promises about the message rows of a session.  The   *)
(* rows of a turn are written twice at most: the user's message when the   *)
(* turn is accepted, and the whole of the rest, atomically, when it ends   *)
(* well.  A turn that is dropped keeps what it had written.                *)
(***************************************************************************)
EXTENDS Naturals, Sequences

CONSTANT Turns

VARIABLES
  phase,  \* new, asked (user's message persisted), settled or dropped
  log     \* the rows of each turn

vars == <<phase, log>>

Question == [kind |-> "user"]

\* One question, then tool calls each with its own result, then at most one
\* answer, which is last.
Whole(s) ==
  LET K(i) == s[i].kind
  IN  /\ s # <<>>
      /\ s[1] = Question
      /\ \A i \in 2..Len(s) :
           /\ K(i) # "user"
           /\ K(i) = "tool_call" =>
                i < Len(s) /\ K(i + 1) = "tool_result" /\ s[i + 1].n = s[i].n
           /\ K(i) = "tool_result" => K(i - 1) = "tool_call"
           /\ K(i) \notin {"tool_call", "tool_result"} => i = Len(s)

Init ==
  /\ phase = [t \in Turns |-> "new"]
  /\ log = [t \in Turns |-> <<>>]

Ask(t) ==
  /\ phase[t] = "new"
  /\ phase' = [phase EXCEPT ![t] = "asked"]
  /\ log' = [log EXCEPT ![t] = <<Question>>]

Settle(t) ==
  /\ phase[t] = "asked"
  /\ phase' = [phase EXCEPT ![t] = "settled"]
  /\ log' = [log EXCEPT ![t] = log'[t]]
  /\ Whole(log'[t])

Drop(t) ==
  /\ phase[t] \in {"new", "asked"}
  /\ phase' = [phase EXCEPT ![t] = "dropped"]
  /\ UNCHANGED log

Next == \E t \in Turns : Ask(t) \/ Settle(t) \/ Drop(t)

Spec == Init /\ [][Next]_vars

=============================================================================
