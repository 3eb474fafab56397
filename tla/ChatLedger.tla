----------------------------- MODULE ChatLedger -----------------------------
(***************************************************************************)
(* What a direct chat promises about the prompts it accepts, without the   *)
(* tables, tasks and flags that keep the promise: a prompt is admitted at  *)
(* most once, either straight into the transcript or into the waiting      *)
(* line; steering joins the line behind earlier steering and ahead of every*)
(* follow-up; only the head of the line ever moves to the transcript; and  *)
(* nothing that was admitted disappears or changes place.                  *)
(***************************************************************************)
EXTENDS Integers, Sequences

CONSTANTS Keys, SteerKeys

VARIABLES line,        (* admitted prompts that have not run, in running order *)
          transcript   (* prompts that entered the durable history             *)

ledger_vars == <<line, transcript>>

Waiting == {line[i] : i \in DOMAIN line}

LedgerInit ==
  /\ line = <<>>
  /\ transcript = {}

Say(k) ==
  /\ k \notin Waiting \cup transcript
  /\ transcript' = transcript \cup {k}
  /\ UNCHANGED line

(* The line with k behind its first `ahead` prompts. *)
LineWith(k, ahead) ==
  [i \in 1 .. Len(line) + 1 |-> IF i <= ahead THEN line[i]
                                ELSE IF i = ahead + 1 THEN k
                                ELSE line[i - 1]]

(* A follow-up has everyone ahead of it, a steering prompt only the steering. *)
Join(k) ==
  /\ k \notin Waiting \cup transcript
  /\ \E ahead \in 0 .. Len(line) :
       /\ \A i \in DOMAIN line :
            i <= ahead <=> line[i] \in SteerKeys \/ k \notin SteerKeys
       /\ line' = LineWith(k, ahead)
  /\ UNCHANGED transcript

Promote ==
  /\ line # <<>>
  /\ transcript' = transcript \cup {Head(line)}
  /\ line' = Tail(line)

LedgerNext ==
  \/ \E k \in Keys : Say(k) \/ Join(k)
  \/ Promote

LedgerSpec == LedgerInit /\ [][LedgerNext]_ledger_vars
=============================================================================
