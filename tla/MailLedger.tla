----------------------------- MODULE MailLedger -----------------------------
(* What the import of mails promises, without saying how: the status shown *)
(* for a mail against what has happened because of it.                     *)
EXTENDS FiniteSets

CONSTANT Messages

VARIABLES
  status,   \* status[m]: what the imports page says of a mail
  done      \* the mails all of whose instructions have been carried out

vars == <<status, done>>

Init == status = [m \in Messages |-> "NONE"] /\ done = {}

Becomes(m, to) == status' = [status EXCEPT ![m] = to] /\ UNCHANGED done

(* An attempt begins: the first, or the retry of a failed one. *)
Begin(m) == status[m] \in {"NONE", "FAILED"} /\ Becomes(m, "PROCESSING")

(* The last of a mail's instructions takes effect, during an attempt. *)
CarryOut(m) == /\ status[m] = "PROCESSING"
               /\ done' = done \cup {m}
               /\ UNCHANGED status

Complete(m) ==
  status[m] = "PROCESSING" /\ m \in done /\ Becomes(m, "PROCESSED")

(* Not meant for us, already imported, or nothing to apply it to. *)
SetAside(m) == status[m] \in {"NONE", "PROCESSING"} /\ Becomes(m, "IGNORED")

(* A failed attempt, or an outcome that could not be finished. *)
Fail(m) == status[m] \in {"PROCESSING", "PROCESSED", "IGNORED"} /\ Becomes(m, "FAILED")

Next == \E m \in Messages : Begin(m) \/ CarryOut(m) \/ Complete(m) \/ SetAside(m)
                            \/ Fail(m)

Spec == Init /\ [][Next]_vars
=============================================================================
