------------------------------ MODULE EventFile ------------------------------
(***************************************************************************)
(* What a job's files are to those who read them: the journal of its        *)
(* events, and how far the snapshot has followed it.  JobJournal implements *)
(* this specification, whatever dies or fails; EventStream serves its       *)
(* subscribers from it.                                                     *)
(***************************************************************************)
EXTENDS Naturals, Sequences

VARIABLES
  journal,   \* lines of events.jsonl: sequence and whether it is terminal
  sequence,  \* the sequence of the last line
  saved,     \* the sequence in snapshot.json, 0 without a snapshot
  terminal   \* the last line is terminal

fileVars == <<journal, sequence, saved, terminal>>

Line(n, t) == [sequence |-> n, terminal |-> t]

Init ==
  /\ journal = <<>>
  /\ sequence = 0
  /\ saved = 0
  /\ terminal = FALSE

Put(n, t) ==
  /\ journal' = Append(journal, Line(n, t))
  /\ sequence' = n
  /\ terminal' = t
  /\ UNCHANGED saved

\* The next event of a job that is not over; numbers of lines that were never
\* written are left out.
Write(n, t) == ~ terminal /\ n > sequence /\ Put(n, t)

\* The snapshot follows the whole journal.
Save == saved' = sequence /\ UNCHANGED <<journal, sequence, terminal>>

\* The snapshot shows how the job ended.
Settled == terminal /\ saved = sequence

\* A restarted server ends a job that its snapshot shows active, although the
\* journal may have gone further, or may even have ended.
Settle == saved > 0 /\ ~ Settled /\ Put(saved + 1, TRUE)

Next == (\E t \in BOOLEAN : Write(sequence', t)) \/ Save \/ Settle

Spec == Init /\ [][Next]_fileVars
=============================================================================
