------------------------------ MODULE EventFeed ------------------------------
(***************************************************************************)
(* What a subscriber of a job is promised, whatever connections break and   *)
(* whatever server serves it: the journal only grows, and each client gets  *)
(* the first line of it whose sequence is above the last one it got.        *)
(***************************************************************************)
EXTENDS Naturals, Sequences

CONSTANT Subscribers

VARIABLES
  log,  \* the lines of the journal
  got   \* what each client has got

feedVars == <<log, got>>

Lines == [sequence : Nat, terminal : BOOLEAN]

Last(s) == IF got[s] = <<>> THEN 0 ELSE got[s][Len(got[s])].sequence

Init ==
  /\ log \in Seq(Lines)
  /\ Len(log) = 1
  /\ got = [s \in Subscribers |-> <<>>]

Publish ==
  /\ Len(log') = Len(log) + 1
  /\ log'[Len(log')] \in Lines
  /\ log' = Append(log, log'[Len(log')])
  /\ UNCHANGED got

Deliver(s) ==
  /\ \E i \in 1 .. Len(log) :
       /\ log[i].sequence > Last(s)
       /\ \A k \in 1 .. i - 1 : log[k].sequence <= Last(s)
       /\ got' = [got EXCEPT ![s] = Append(@, log[i])]
  /\ UNCHANGED log

Next == Publish \/ \E s \in Subscribers : Deliver(s)

Spec == Init /\ [][Next]_feedVars
=============================================================================
