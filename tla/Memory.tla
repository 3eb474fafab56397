------------------------------- MODULE Memory -------------------------------
(***************************************************************************)
(* The built-in Holographic memory of one Bot: the fact_store and          *)
(* fact_feedback tools (homebot-server/src/plugins.rs) over the            *)
(* holographic_* tables (homebot-storage).  A fact is known by the id the  *)
(* tools return; several turns call the tools at once, and each call reads *)
(* and writes in separate transactions.  Trust is counted in twentieths.   *)
(***************************************************************************)
EXTENDS Integers, FiniteSets, FiniteSetsExt

CONSTANTS Contents,    \* texts a fact may have
          Entities,    \* what extract_holographic_entities may find in them
          Calls,       \* tool calls under way
          NoCall,      \* what a call that does nothing holds
          MaxIds, MaxWork  \* bounds: facts stored and calls made

Trust == 0..20
StartTrust == 10
Clamp(t) == IF t < 0 THEN 0 ELSE IF t > 20 THEN 20 ELSE t

VARIABLES facts,       \* holographic_facts by fact_id
          links,       \* holographic_fact_entities
          index,       \* holographic_facts_fts
          last_id,     \* sqlite_sequence
          mentions,    \* the entities each text names
          call,        \* what each call has read
          births,      \* history: facts stored so far
          work

vars == <<facts, links, index, last_id, mentions, call, births, work>>

Ids == 1..MaxIds
Stored == DOMAIN facts
Fact == [content : Contents, trust : Trust, retrieved : Nat, helpful : Nat, birth : Nat]

CallRow == [kind : {"rate", "update"}, id : Ids, fact : Fact]
           \cup [kind : {"found", "rows"}, ids : SUBSET Ids]

TypeOK ==
  /\ Stored \subseteq Ids /\ \A id \in Stored : facts[id] \in Fact
  /\ links \subseteq Ids \X Entities
  /\ index \subseteq Ids \X Contents
  /\ last_id \in 0..MaxIds
  /\ mentions \in [Contents -> SUBSET Entities]
  /\ call \in [Calls -> {NoCall} \cup CallRow]
  /\ births \in 0..MaxIds /\ work \in 0..MaxWork

Init ==
  /\ facts = <<>> /\ links = {} /\ index = {}
  /\ last_id = 0
  /\ mentions \in [Contents -> SUBSET Entities]
  /\ call = [c \in Calls |-> NoCall]
  /\ births = 0 /\ work = 0

Idle(c) == call[c] = NoCall /\ work < MaxWork
Goes(c, to) == call' = [call EXCEPT ![c] = to]
With(id, fact) == [i \in Stored \cup {id} |-> IF i = id THEN fact ELSE facts[i]]
Without(id) == [i \in Stored \ {id} |-> facts[i]]
(* UNIQUE(owner_id, bot_id, content) *)
Taken(content, id) == \E i \in Stored \ {id} : facts[i].content = content

-----------------------------------------------------------------------------
(* add *)

(* faulty: a rowid, which SQLite gives out again after its row is gone. *)
NextRowid == IF Stored = {} THEN 1 ELSE Max(Stored) + 1

(* AUTOINCREMENT *)
NextId == last_id + 1

(* link_holographic_entities *)
Linked(id, content) == {<<id, e>> : e \in mentions[content]}
Unlinked(id) == {l \in links : l[1] # id}
Indexed(id, content) == {i \in index : i[1] # id} \cup {<<id, content>>}

Add(c, content) ==
  /\ Idle(c)
  /\ work' = work + 1
  /\ IF Taken(content, 0)
       THEN UNCHANGED <<facts, links, index, last_id, births>>
       ELSE /\ NextId \in Ids /\ births < MaxIds
            /\ facts' = With(NextId, [content |-> content, trust |-> StartTrust,
                                      retrieved |-> 0, helpful |-> 0,
                                      birth |-> births + 1])
            /\ links' = links \cup Linked(NextId, content)
            /\ index' = index \cup {<<NextId, content>>}
            /\ last_id' = IF NextId > last_id THEN NextId ELSE last_id
            /\ births' = births + 1
  /\ UNCHANGED <<mentions, call>>

-----------------------------------------------------------------------------
(* search, and the recall of a turn: the ids, their counts, then the rows *)

Search(c, content) ==
  /\ Idle(c)
  /\ work' = work + 1
  /\ Goes(c, [kind |-> "found",
              ids |-> {i[1] : i \in {j \in index : j[2] = content
                                                  /\ facts[j[1]].trust >= 6}}])
  /\ UNCHANGED <<facts, links, index, last_id, mentions, births>>

CountRetrievals(c) ==
  /\ call[c] # NoCall /\ call[c].kind = "found"
  /\ facts' = [i \in Stored |-> IF i \in call[c].ids
                                  THEN [facts[i] EXCEPT !.retrieved = @ + 1] ELSE facts[i]]
  /\ Goes(c, [kind |-> "rows", ids |-> call[c].ids])
  /\ UNCHANGED <<links, index, last_id, mentions, births, work>>

(* probe, related, list and reason *)
Probe(e) == {id \in Stored : <<id, e>> \in links}
Related(e) == {id \in Stored : \E s \in Probe(e), f \in Entities :
                                 <<s, f>> \in links /\ <<id, f>> \in links}
List(minimum) == {id \in Stored : facts[id].trust >= minimum}
Reason(es) == {id \in List(0) : \A e \in es : <<id, e>> \in links}

Look(c) ==
  /\ Idle(c)
  /\ work' = work + 1
  /\ \E e \in Entities : \E ids \in {Probe(e), Related(e), List(6), Reason({e})} :
       Goes(c, [kind |-> "rows", ids |-> ids])
  /\ UNCHANGED <<facts, links, index, last_id, mentions, births>>

(* holographic_facts_by_ids: the answer, or an error when one has gone. *)
ReadRows(c) ==
  /\ call[c] # NoCall /\ call[c].kind = "rows"
  /\ Goes(c, NoCall)
  /\ UNCHANGED <<facts, links, index, last_id, mentions, births, work>>

-----------------------------------------------------------------------------
(* update, remove, fact_feedback: the fact is read, and written later by id *)

ReadFact(c, id, kind) ==
  /\ Idle(c) /\ id \in Stored
  /\ work' = work + 1
  /\ Goes(c, [kind |-> kind, id |-> id, fact |-> facts[id]])
  /\ UNCHANGED <<facts, links, index, last_id, mentions, births>>

(* An update that finds no row, or a text that another fact has, does nothing. *)
Update(c, content, delta) ==
  /\ call[c] # NoCall /\ call[c].kind = "update"
  /\ LET id == call[c].id IN
       IF id \in Stored /\ ~Taken(content, id)
         THEN /\ facts' = With(id, [facts[id] EXCEPT
                                      !.content = content,
                                      !.trust = Clamp(call[c].fact.trust + delta)])
              /\ links' = Unlinked(id) \cup Linked(id, content)
              /\ index' = Indexed(id, content)
         ELSE UNCHANGED <<facts, links, index>>
  /\ Goes(c, NoCall)
  /\ UNCHANGED <<last_id, mentions, births, work>>

Rate(c, helpful) ==
  /\ call[c] # NoCall /\ call[c].kind = "rate"
  /\ LET id == call[c].id
         read == call[c].fact
     IN facts' = IF id \in Stored
                   THEN With(id, [facts[id] EXCEPT
                          !.trust = Clamp(read.trust + (IF helpful THEN 1 ELSE -2)),
                          !.helpful = read.helpful + (IF helpful THEN 1 ELSE 0)])
                   ELSE facts
  /\ Goes(c, NoCall)
  /\ UNCHANGED <<links, index, last_id, mentions, births, work>>

Remove(c, id) ==
  /\ Idle(c) /\ id \in Stored
  /\ work' = work + 1
  /\ facts' = Without(id)
  /\ links' = Unlinked(id)
  /\ index' = {i \in index : i[1] # id}
  /\ UNCHANGED <<last_id, mentions, call, births>>

Next ==
  \E c \in Calls :
    \/ \E content \in Contents :
         \/ Add(c, content) \/ Search(c, content)
         \/ \E delta \in {-4, 0, 4} : Update(c, content, delta)
    \/ CountRetrievals(c) \/ Look(c) \/ ReadRows(c)
    \/ \E id \in Ids : Remove(c, id) \/ \E k \in {"rate", "update"} : ReadFact(c, id, k)
    \/ \E helpful \in BOOLEAN : Rate(c, helpful)

Spec == Init /\ [][Next]_vars

-----------------------------------------------------------------------------
(* An id that a call still holds means the fact it read or no fact at all, *)
(* so that feedback or an update that comes late never lands on a fact     *)
(* stored after the one it was about had been removed, and search and      *)
(* probe find each fact under the text and the entities it has now.        *)
IdsMeanOneFact ==
  /\ \A c \in Calls : call[c] # NoCall /\ call[c].kind \in {"rate", "update"}
       /\ call[c].id \in Stored =>
       facts[call[c].id].birth = call[c].fact.birth
  /\ index = {<<id, facts[id].content>> : id \in Stored}
  /\ \A e \in Entities : Probe(e) = {id \in Stored : e \in mentions[facts[id].content]}

(* The invariant behind it: an id is never given out again, and no link is *)
(* left of a fact that is gone.                                            *)
Acts(c) == call[c] # NoCall /\ call[c].kind \in {"rate", "update"}

IdsAreNew ==
  /\ \A id \in Stored : id <= last_id
  /\ \A c \in Calls : Acts(c) => call[c].id <= last_id

LinksAgree ==
  \A id \in Ids, e \in Entities :
    <<id, e>> \in links <=> id \in Stored /\ e \in mentions[facts[id].content]

IdsInv == TypeOK /\ IdsAreNew /\ LinksAgree /\ IdsMeanOneFact
=============================================================================
