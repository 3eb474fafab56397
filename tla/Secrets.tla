------------------------------ MODULE Secrets ------------------------------
(***************************************************************************)
(* Secret references and the operating system's credential store: a row of *)
(* metadata and a value under the same locator, written by requests that   *)
(* are neither one transaction nor serialised.                             *)
(***************************************************************************)
EXTENDS Naturals

CONSTANTS Ids,          \* secrets; the idempotency key of the create is the id
          Labels, NoLabel,
          Requests,     \* HTTP handlers
          NoId

VARIABLES rows,         \* id -> label of its row, NoLabel when there is none
          vault,        \* ids whose value the credential store holds
          step,         \* what each handler does next
          id, label,    \* what it was asked
          relabel,      \* an update that also changes the label
          disturbed     \* handlers met on a secret, the process stopped with
                        \* one at work, or the store refused an undo

vars == <<rows, vault, step, id, label, relabel, disturbed>>
durable == <<rows, vault>>

Steps == {"idle", "put", "insert", "undo", "replace", "rename", "erase", "forget"}

TypeOK ==
  /\ rows \in [Ids -> Labels \cup {NoLabel}]
  /\ vault \subseteq Ids
  /\ step \in [Requests -> Steps]
  /\ id \in [Requests -> Ids \cup {NoId}]
  /\ label \in [Requests -> Labels \cup {NoLabel}]
  /\ relabel \in [Requests -> BOOLEAN]
  /\ disturbed \in BOOLEAN

Init ==
  /\ rows = [i \in Ids |-> NoLabel]
  /\ vault = {}
  /\ step = [r \in Requests |-> "idle"]
  /\ id = [r \in Requests |-> NoId]
  /\ label = [r \in Requests |-> NoLabel]
  /\ relabel = [r \in Requests |-> FALSE]
  /\ disturbed = FALSE

Stored(i) == rows[i] # NoLabel
Taken(l, i) == \E j \in Ids \ {i} : rows[j] = l

Begin(r, i, l, first, renames) ==
  /\ step[r] = "idle"
  /\ step' = [step EXCEPT ![r] = first]
  /\ id' = [id EXCEPT ![r] = i]
  /\ label' = [label EXCEPT ![r] = l]
  /\ relabel' = [relabel EXCEPT ![r] = renames]
  /\ disturbed' = (disturbed \/ \E q \in Requests : step[q] # "idle" /\ id[q] = i)
  /\ UNCHANGED durable

Continue(r, from, to) ==
  /\ step[r] = from
  /\ step' = [step EXCEPT ![r] = to]
  /\ id' = [id EXCEPT ![r] = IF to = "idle" THEN NoId ELSE @]
  /\ label' = [label EXCEPT ![r] = IF to = "idle" THEN NoLabel ELSE @]
  /\ relabel' = [relabel EXCEPT ![r] = to # "idle" /\ @]

Proceed(r, from, to) == Continue(r, from, to) /\ UNCHANGED disturbed

\* The credential store is locked or unavailable: the handler answers so.
StoreRefuses(r) ==
  /\ \E from \in {"put", "replace", "erase", "undo"} : Continue(r, from, "idle")
  /\ disturbed' = (disturbed \/ step[r] = "undo")
  /\ UNCHANGED durable

-----------------------------------------------------------------------------
(* Create.  A repeat of a stored key is answered without touching anything *)

CreateBegin(r, i, l) == ~Stored(i) /\ Begin(r, i, l, "put", FALSE)

CreatePut(r) ==
  /\ Proceed(r, "put", "insert")
  /\ vault' = vault \cup {id[r]}
  /\ UNCHANGED rows

\* The id is a key of the table, and labels are unique.
CreateInsert(r) ==
  LET free == ~Stored(id[r]) /\ ~Taken(label[r], id[r])
  IN  /\ Proceed(r, "insert", IF free THEN "idle" ELSE "undo")
      /\ rows' = IF free THEN [rows EXCEPT ![id[r]] = label[r]] ELSE rows
      /\ UNCHANGED vault

\* Faulty variant: the value of a create that failed stays behind.
CreateForget(r) == Proceed(r, "undo", "idle") /\ UNCHANGED durable

CreateUndo(r) ==
  /\ Proceed(r, "undo", "idle")
  /\ vault' = vault \ {id[r]}
  /\ UNCHANGED rows

-----------------------------------------------------------------------------
(* Update and delete.                                                      *)

UpdateBegin(r, i, l, value, renames) ==
  /\ Stored(i) /\ (value \/ renames)
  /\ Begin(r, i, l, IF value THEN "replace" ELSE "rename", renames)

Replace(r) ==
  /\ Proceed(r, "replace", IF relabel[r] THEN "rename" ELSE "idle")
  /\ vault' = vault \cup {id[r]}
  /\ UNCHANGED rows

Rename(r) ==
  /\ Proceed(r, "rename", "idle")
  /\ rows' = IF Stored(id[r]) /\ ~Taken(label[r], id[r])
             THEN [rows EXCEPT ![id[r]] = label[r]] ELSE rows
  /\ UNCHANGED vault

DeleteBegin(r, i) == Stored(i) /\ Begin(r, i, NoLabel, "erase", FALSE)

Erase(r) ==
  /\ Proceed(r, "erase", "forget")
  /\ vault' = vault \ {id[r]}
  /\ UNCHANGED rows

Forget(r) ==
  /\ Proceed(r, "forget", "idle")
  /\ rows' = [rows EXCEPT ![id[r]] = NoLabel]
  /\ UNCHANGED vault

Restart ==
  /\ \E r \in Requests : step[r] # "idle"
  /\ step' = [r \in Requests |-> "idle"]
  /\ id' = [r \in Requests |-> NoId]
  /\ label' = [r \in Requests |-> NoLabel]
  /\ relabel' = [r \in Requests |-> FALSE]
  /\ disturbed' = TRUE
  /\ UNCHANGED durable

Next ==
  \/ \E r \in Requests :
        \/ \E i \in Ids, l \in Labels :
              \/ CreateBegin(r, i, l)
              \/ \E value, renames \in BOOLEAN : UpdateBegin(r, i, l, value, renames)
        \/ \E i \in Ids : DeleteBegin(r, i)
        \/ StoreRefuses(r)
        \/ CreatePut(r) \/ CreateInsert(r) \/ CreateUndo(r)
        \/ Replace(r) \/ Rename(r) \/ Erase(r) \/ Forget(r)
  \/ Restart

Spec == Init /\ [][Next]_vars

-----------------------------------------------------------------------------
AtRest == \A r \in Requests : step[r] = "idle"

(* Handlers that did not overlap on a secret leave exactly the values the  *)
(* rows speak of, whatever the labels of the other secrets did to them     *)
(* (secrets.rs create, update, delete).                                    *)
ValuesMatchRows ==
  AtRest /\ ~disturbed => vault = {i \in Ids : Stored(i)}

(* The invariant behind it: of an undisturbed secret each handler's step says what has   *)
(* been done, and nobody is at work on one whose row and value do not agree.             *)
Works(r, i) == step[r] # "idle" /\ id[r] = i
Kept(i) == i \in vault <=> Stored(i)

StepAgrees(r) ==
  LET i == id[r]
  IN /\ step[r] \in {"put", "insert", "undo"} => ~Stored(i)
     /\ step[r] \in {"replace", "rename", "erase", "forget"} => Stored(i)
     /\ step[r] \in {"put", "forget"} => i \notin vault
     /\ step[r] \in {"insert", "undo", "replace", "rename", "erase"} => i \in vault

StepsTyped ==
  /\ \A r \in Requests : step[r] # "idle" => id[r] \in Ids
  /\ \A r \in Requests : step[r] \in {"put", "insert", "undo", "replace", "rename"} => label[r] \in Labels

ValuesInv ==
  /\ TypeOK /\ StepsTyped
  /\ ~disturbed =>
       /\ \A r, q \in Requests : step[r] # "idle" /\ step[q] # "idle" /\ id[r] = id[q] => r = q
       /\ \A r \in Requests : StepAgrees(r)
       /\ \A i \in Ids : (\A r \in Requests : ~Works(r, i)) => Kept(i)

(* "Repeating the create idempotency UUID returns the existing reference"  *)
(* (docs/secrets.md, Lifecycle): no create takes away the value of a       *)
(* secret that is stored.                                                  *)
RepeatKeepsValue ==
  [][\A r \in Requests :
        step[r] = "undo" /\ step'[r] = "idle" /\ Stored(id[r]) =>
           (id[r] \in vault => id[r] \in vault')]_vars
=============================================================================
