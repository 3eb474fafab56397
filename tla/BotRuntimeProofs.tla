------------------------- MODULE BotRuntimeProofs --------------------------
(***************************************************************************)
(* Theorems about what a Bot keeps between its turns: its memory, its      *)
(* working context, its routines, their jobs and their triggers. Each part *)
(* proves the inductive invariant of one component for every value of its  *)
(* constants; the variables of the component are the slots of the          *)
(* composition, in the order of its INSTANCE.                              *)
(***************************************************************************)
EXTENDS MCBotRuntime, TLAPS, Sequences, FiniteSetTheorems, WellFoundedInduction

-----------------------------------------------------------------------------
(* Memory. Slots: v1 facts, v2 links, v3 index, v4 last_id, v5 mentions, v6 call, *)
(* v7 births, v8 work.                                                            *)

(* A clamped trust is within its bounds. *)
LEMMA TrustClamped == \A t \in Int : M!Clamp(t) \in M!Trust
BY DEF M!Clamp, M!Trust

(* A fact that was retrieved once more means what it meant. *)
LEMMA CountedUp ==
  ASSUME NEW f \in M!Fact
  PROVE  /\ [f EXCEPT !.retrieved = @ + 1] \in M!Fact
         /\ [f EXCEPT !.retrieved = @ + 1].content = f.content
         /\ [f EXCEPT !.retrieved = @ + 1].birth = f.birth
BY DEF M!Fact

(* A fact that was rated means what it meant. *)
LEMMA RatedFact ==
  ASSUME NEW f \in M!Fact, NEW trust \in M!Trust, NEW helpful \in Nat
  PROVE  /\ [[f EXCEPT !.trust = trust] EXCEPT !.helpful = helpful] \in M!Fact
         /\ [[f EXCEPT !.trust = trust] EXCEPT !.helpful = helpful].content = f.content
         /\ [[f EXCEPT !.trust = trust] EXCEPT !.helpful = helpful].birth = f.birth
<1>1. [f EXCEPT !.trust = trust] \in M!Fact
  BY DEF M!Fact
<1>2. [[f EXCEPT !.trust = trust] EXCEPT !.helpful = helpful] \in M!Fact
  BY <1>1 DEF M!Fact
<1>3. QED
  BY <1>2 DEF M!Fact

(* A row that is written leaves the others as they are. *)
LEMMA WithFacts ==
  ASSUME NEW id, NEW fact, v1' = M!With(id, fact)
  PROVE  /\ DOMAIN v1' = DOMAIN v1 \cup {id}
         /\ v1'[id] = fact
         /\ \A i \in DOMAIN v1 \ {id} : v1'[i] = v1[i]
BY DEF M!With, M!Stored

(* A row that is deleted leaves the others as they are. *)
LEMMA WithoutFacts ==
  ASSUME NEW id, v1' = M!Without(id)
  PROVE  DOMAIN v1' = DOMAIN v1 \ {id} /\ \A i \in DOMAIN v1 \ {id} : v1'[i] = v1[i]
BY DEF M!Without, M!Stored

(* What the calls know, spelled out. *)
LEMMA CallsKnow ==
  ASSUME M!IdsInv, NEW c \in FactCalls, M!Acts(c)
  PROVE  v6[c].id \in M!Ids /\ v6[c].fact \in M!Fact /\ v6[c].id <= v4
         /\ (v6[c].id \in DOMAIN v1 => v1[v6[c].id].birth = v6[c].fact.birth)
<1>1. v6[c] \in M!CallRow
  BY DEF M!IdsInv, M!TypeOK, M!Acts
<1>2. v6[c].id \in M!Ids /\ v6[c].fact \in M!Fact
  BY <1>1 DEF M!CallRow, M!Acts
<1>3. QED
  BY <1>2 DEF M!IdsInv, M!IdsAreNew, M!IdsMeanOneFact, M!Acts, M!Stored

(* Probe answers from the links. *)
LEMMA ProbesFollow ==
  M!LinksAgree /\ M!TypeOK
    => \A e \in Named : M!Probe(e) = {id \in DOMAIN v1 : e \in v5[v1[id].content]}
BY DEF M!LinksAgree, M!TypeOK, M!Probe, M!Stored

(* The same after a step. *)
LEMMA ProbesFollow2 ==
  M!LinksAgree' /\ M!TypeOK'
    => \A e \in Named : M!Probe(e)' = {id \in DOMAIN v1' : e \in v5'[v1'[id].content]}
BY DEF M!LinksAgree, M!TypeOK, M!Probe, M!Stored

(* The invariant of the memory holds at first. *)
LEMMA MemoryInit == M!Init => M!IdsInv
<1> SUFFICES ASSUME M!Init PROVE M!IdsInv
  OBVIOUS
<1>1. DOMAIN v1 = {}
  BY DEF M!Init
<1>2. M!TypeOK
  BY <1>1, RuntimeAssumption DEF M!Init, M!TypeOK, M!Stored
<1>3. M!IdsAreNew /\ M!LinksAgree
  BY <1>1 DEF M!Init, M!IdsAreNew, M!LinksAgree, M!Stored, M!Acts
<1>4. M!IdsMeanOneFact
  BY <1>1, <1>2, <1>3, ProbesFollow DEF M!Init, M!IdsMeanOneFact, M!Stored
<1>5. QED
  BY <1>2, <1>3, <1>4 DEF M!IdsInv


(* No step gives an id another meaning: a row that is there afterwards is the row that   *)
(* was there, or its id is new.                                                          *)
LEMMA MeaningsKept ==
  ASSUME M!IdsInv, M!TypeOK', M!LinksAgree', v4 <= v4', v5' = v5,
         v3' = {<<id, v1'[id].content>> : id \in DOMAIN v1'},
         \A id \in DOMAIN v1' : id <= v4',
         \A id \in DOMAIN v1' : (id \in DOMAIN v1 /\ v1'[id].birth = v1[id].birth) \/ v4 < id,
         \A c \in FactCalls : M!Acts(c)' =>
           \/ M!Acts(c) /\ v6'[c] = v6[c]
           \/ v6'[c].id \in DOMAIN v1' /\ v6'[c].fact = v1'[v6'[c].id]
  PROVE  M!IdsInv'
<1>1. v4 \in Nat /\ v4' \in Nat /\ M!Ids \subseteq Nat
  BY RuntimeAssumption DEF M!IdsInv, M!TypeOK, M!Ids
<1>2. ASSUME NEW c \in FactCalls, M!Acts(c)'
      PROVE v6'[c].id <= v4' /\ (v6'[c].id \in DOMAIN v1' => v1'[v6'[c].id].birth = v6'[c].fact.birth)
  <2>1. CASE M!Acts(c) /\ v6'[c] = v6[c]
    <3>1. /\ v6[c].id \in Nat /\ v6[c].id <= v4
          /\ v6[c].id \in DOMAIN v1 => v1[v6[c].id].birth = v6[c].fact.birth
      BY <1>1, <2>1, CallsKnow
    <3>2. v6[c].id <= v4'
      BY <1>1, <3>1
    <3>3. QED
      BY <1>1, <2>1, <3>1, <3>2
  <2>2. CASE v6'[c].id \in DOMAIN v1' /\ v6'[c].fact = v1'[v6'[c].id]
    BY <2>2
  <2>3. QED
    BY <1>2, <2>1, <2>2
<1>3. M!IdsAreNew'
  BY <1>2 DEF M!IdsAreNew, M!Stored
<1>4. M!IdsMeanOneFact'
  BY <1>2, ProbesFollow2 DEF M!IdsMeanOneFact, M!Stored, M!Acts
<1>5. QED
  BY <1>3, <1>4 DEF M!IdsInv

(* Every step keeps the invariant of the memory. *)
LEMMA MemoryStep == M!IdsInv /\ [M!Next]_M!vars => M!IdsInv'
<1> SUFFICES ASSUME M!IdsInv, [M!Next]_M!vars PROVE M!IdsInv'
  OBVIOUS
<1>0. M!TypeOK /\ M!LinksAgree /\ M!IdsAreNew /\ M!IdsMeanOneFact /\ v4 \in Nat
  BY RuntimeAssumption DEF M!IdsInv, M!TypeOK
<1>1. v3 = {<<id, v1[id].content>> : id \in DOMAIN v1} /\ \A id \in DOMAIN v1 : id <= v4 /\ v1[id] \in M!Fact
  BY <1>0 DEF M!IdsMeanOneFact, M!IdsAreNew, M!Stored, M!TypeOK
<1>2. ASSUME NEW c \in FactCalls, NEW row \in {None} \cup M!CallRow, M!Goes(c, row)
      PROVE v6' \in [FactCalls -> {None} \cup M!CallRow] /\ v6'[c] = row /\ \A d \in FactCalls \ {c} : v6'[d] = v6[d]
  BY <1>0, <1>2 DEF M!Goes, M!TypeOK
<1>3. ASSUME UNCHANGED <<v1, v2, v3, v4, v5>>, v7' \in 0..MaxFacts, v8' \in 0..MaxFactCalls,
             v6' \in [FactCalls -> {None} \cup M!CallRow],
             \A c \in FactCalls : M!Acts(c)' =>
               \/ M!Acts(c) /\ v6'[c] = v6[c]
               \/ v6'[c].id \in DOMAIN v1 /\ v6'[c].fact = v1[v6'[c].id]
      PROVE M!IdsInv'
  <2>1. M!TypeOK' /\ M!LinksAgree'
    BY <1>0, <1>3 DEF M!TypeOK, M!LinksAgree, M!Stored
  <2>2. QED
    BY <1>0, <1>1, <1>3, <2>1, MeaningsKept
<1>4. CASE UNCHANGED M!vars
  BY <1>0, <1>3, <1>4 DEF M!vars, M!Acts, M!TypeOK
<1>5. ASSUME M!Next PROVE M!IdsInv'
  <2>1. ASSUME NEW c \in FactCalls, NEW content \in Texts, M!Add(c, content) PROVE M!IdsInv'
    <3>1. v8' \in 0..MaxFactCalls /\ v5' = v5 /\ v6' = v6
      BY <1>0, <2>1, RuntimeAssumption DEF M!Add, M!Idle, M!TypeOK
    <3>2. CASE M!Taken(content, 0)
      BY <1>0, <1>3, <2>1, <3>1, <3>2 DEF M!Add, M!Acts, M!TypeOK
    <3>3. CASE ~M!Taken(content, 0)
      <4> DEFINE n == v4 + 1
                 fact == [content |-> content, trust |-> 10, retrieved |-> 0, helpful |-> 0, birth |-> v7 + 1]
      <4>1. /\ n \in M!Ids /\ v7 < MaxFacts /\ v1' = M!With(n, fact) /\ v2' = v2 \cup M!Linked(n, content)
            /\ v3' = v3 \cup {<<n, content>>} /\ v4' = n /\ v7' = v7 + 1
        BY <1>0, <2>1, <3>3 DEF M!Add, M!NextId, M!StartTrust
      <4>2. v7' \in 0..MaxFacts /\ v4' \in 0..MaxFacts /\ v4 < n
        BY <1>0, <4>1, RuntimeAssumption DEF M!TypeOK, M!Ids
      <4>3. fact \in M!Fact
        BY <1>0, RuntimeAssumption DEF M!Fact, M!Trust, M!TypeOK
      <4> HIDE DEF n, fact
      <4>4. /\ DOMAIN v1' = DOMAIN v1 \cup {n} /\ v1'[n] = fact
            /\ \A i \in DOMAIN v1 \ {n} : v1'[i] = v1[i]
        BY <4>1, WithFacts
      <4>5. n \notin DOMAIN v1
        BY <1>0, <1>1, <4>2 DEF n
      <4>6. fact.content = content
        BY DEF fact
      <4>7. M!TypeOK'
        BY <1>0, <3>1, <4>1, <4>2, <4>3, <4>4 DEF M!TypeOK, M!Stored, M!Linked
      <4>8. M!LinksAgree'
        <5>1. ASSUME NEW i \in M!Ids, NEW e \in Named PROVE (<<i, e>> \in v2')
                <=> IF i = n THEN e \in v5[content] \/ <<i, e>> \in v2 ELSE <<i, e>> \in v2
          BY <4>1 DEF M!Linked
        <5>2. \A e \in Named : <<n, e>> \notin v2
          BY <1>0, <4>1, <4>5 DEF M!LinksAgree, M!Stored
        <5>3. QED
          BY <1>0, <3>1, <4>4, <4>6, <5>1, <5>2 DEF M!LinksAgree, M!Stored
      <4>9. v3' = {<<id, v1'[id].content>> : id \in DOMAIN v1'}
        BY <1>1, <4>1, <4>4, <4>5, <4>6
      <4>10. \A id \in DOMAIN v1' : id <= v4'
        BY <1>0, <1>1, <4>1, <4>2, <4>4 DEF M!TypeOK, M!Stored, M!Ids, n
      <4>11. \A id \in DOMAIN v1' : (id \in DOMAIN v1 /\ v1'[id].birth = v1[id].birth) \/ v4 < id
        BY <4>2, <4>4
      <4>12. v4 <= v4'
        BY <1>0, <4>1, <4>2 DEF n
      <4>13. QED
        BY <3>1, <4>7, <4>8, <4>9, <4>10, <4>11, <4>12, MeaningsKept DEF M!Acts
    <3>4. QED
      BY <3>2, <3>3
  <2>2. ASSUME NEW c \in FactCalls, NEW content \in Texts, M!Search(c, content) PROVE M!IdsInv'
    <3> DEFINE ids == {i[1] : i \in {j \in v3 : j[2] = content /\ v1[j[1]].trust >= 6}}
    <3>1. [kind |-> "found", ids |-> ids] \in M!CallRow
      BY <1>0 DEF M!CallRow, M!TypeOK
    <3>2. M!Goes(c, [kind |-> "found", ids |-> ids])
      BY <2>2 DEF M!Search
    <3>3. v8' \in 0..MaxFactCalls
      BY <1>0, <2>2, RuntimeAssumption DEF M!Search, M!Idle, M!TypeOK
    <3> HIDE DEF ids
    <3>4. QED
      BY <1>0, <1>2, <1>3, <2>2, <3>1, <3>2, <3>3 DEF M!Search, M!TypeOK, M!Acts
  <2>3. ASSUME NEW c \in FactCalls, M!CountRetrievals(c) PROVE M!IdsInv'
    <3>1. v6[c] \in M!CallRow /\ v6[c].ids \in SUBSET M!Ids
      BY <1>0, <2>3 DEF M!CountRetrievals, M!TypeOK, M!CallRow
    <3>2. [kind |-> "rows", ids |-> v6[c].ids] \in M!CallRow
      BY <3>1 DEF M!CallRow
    <3>3. /\ DOMAIN v1' = DOMAIN v1
          /\ \A id \in DOMAIN v1 : v1'[id] \in M!Fact /\ v1'[id].content = v1[id].content /\ v1'[id].birth = v1[id].birth
      <4>1. v1' = [i \in DOMAIN v1 |-> IF i \in v6[c].ids THEN [v1[i] EXCEPT !.retrieved = @ + 1] ELSE v1[i]]
        BY <2>3 DEF M!CountRetrievals, M!Stored
      <4>2. QED
        BY <1>1, <4>1 DEF M!Fact
    <3>4. /\ v6' \in [FactCalls -> {None} \cup M!CallRow] /\ \A d \in FactCalls : M!Acts(d)' => M!Acts(d) /\ v6'[d] = v6[d]
          /\ UNCHANGED <<v2, v3, v4, v5, v7, v8>>
      BY <1>2, <2>3, <3>2 DEF M!CountRetrievals, M!Acts
    <3>5. M!TypeOK' /\ M!LinksAgree'
      BY <1>0, <3>3, <3>4 DEF M!TypeOK, M!LinksAgree, M!Stored
    <3>6. v3' = {<<id, v1'[id].content>> : id \in DOMAIN v1'}
      BY <1>1, <3>3, <3>4
    <3>7. QED
      BY <1>0, <1>1, <3>3, <3>4, <3>5, <3>6, MeaningsKept
  <2>4. ASSUME NEW c \in FactCalls, M!Look(c) PROVE M!IdsInv'
    <3>1. PICK e \in Named : \E ids \in {M!Probe(e), M!Related(e), M!List(6), M!Reason({e})} :
                               M!Goes(c, [kind |-> "rows", ids |-> ids])
      BY <2>4 DEF M!Look
    <3>2. PICK ids \in {M!Probe(e), M!Related(e), M!List(6), M!Reason({e})} :
             M!Goes(c, [kind |-> "rows", ids |-> ids])
      BY <3>1
    <3>3. ids \subseteq M!Ids
      BY <1>0, <3>2 DEF M!Probe, M!Related, M!List, M!Reason, M!TypeOK
    <3>4. [kind |-> "rows", ids |-> ids] \in M!CallRow
      BY <3>3 DEF M!CallRow
    <3>5. v8' \in 0..MaxFactCalls
      BY <1>0, <2>4, RuntimeAssumption DEF M!Look, M!Idle, M!TypeOK
    <3>6. QED
      BY <1>0, <1>2, <1>3, <2>4, <3>2, <3>4, <3>5 DEF M!Look, M!TypeOK, M!Acts
  <2>5. ASSUME NEW c \in FactCalls, M!ReadRows(c) PROVE M!IdsInv'
    BY <1>0, <1>2, <1>3, <2>5 DEF M!ReadRows, M!TypeOK, M!Acts
  <2>6. ASSUME NEW c \in FactCalls, NEW id \in M!Ids, NEW k \in {"rate", "update"}, M!ReadFact(c, id, k) PROVE M!IdsInv'
    <3>1. id \in DOMAIN v1 /\ M!Goes(c, [kind |-> k, id |-> id, fact |-> v1[id]])
      BY <2>6 DEF M!ReadFact, M!Stored
    <3>2. [kind |-> k, id |-> id, fact |-> v1[id]] \in M!CallRow
      BY <1>1, <3>1 DEF M!CallRow
    <3>3. v8' \in 0..MaxFactCalls
      BY <1>0, <2>6, RuntimeAssumption DEF M!ReadFact, M!Idle, M!TypeOK
    <3>4. QED
      BY <1>0, <1>2, <1>3, <2>6, <3>1, <3>2, <3>3 DEF M!ReadFact, M!TypeOK, M!Acts
  <2>7. ASSUME NEW c \in FactCalls, NEW content \in Texts, NEW delta \in {-4, 0, 4}, M!Update(c, content, delta) PROVE M!IdsInv'
    <3> DEFINE id == v6[c].id
    <3>1. M!Acts(c) /\ M!Goes(c, None) /\ UNCHANGED <<v4, v5, v7, v8>>
      BY <2>7 DEF M!Update, M!Acts
    <3>2. id \in M!Ids /\ v6[c].fact \in M!Fact
      BY <3>1, CallsKnow
    <3>3. v6' \in [FactCalls -> {None} \cup M!CallRow] /\ \A d \in FactCalls : M!Acts(d)' => M!Acts(d) /\ v6'[d] = v6[d]
      BY <1>2, <3>1 DEF M!Acts
    <3>4. CASE UNCHANGED <<v1, v2, v3>>
      BY <1>0, <1>3, <3>1, <3>3, <3>4 DEF M!TypeOK
    <3>5. CASE ~UNCHANGED <<v1, v2, v3>>
      <4>1. PICK trust \in M!Trust :
              /\ id \in DOMAIN v1
              /\ v1' = M!With(id, [[v1[id] EXCEPT !.content = content] EXCEPT !.trust = trust])
              /\ v2' = M!Unlinked(id) \cup M!Linked(id, content)
              /\ v3' = M!Indexed(id, content)
        <5>1. M!Clamp(v6[c].fact.trust + delta) \in M!Trust
          BY <3>2, TrustClamped DEF M!Fact, M!Trust
        <5>2. QED
          BY <2>7, <3>5, <5>1 DEF M!Update, M!Stored
      <4>2. v1[id] \in M!Fact
        BY <1>1, <4>1
      <4>a. ASSUME NEW f \in M!Fact
            PROVE  LET g == [[f EXCEPT !.content = content] EXCEPT !.trust = trust]
                   IN g \in M!Fact /\ g.content = content /\ g.birth = f.birth
        <5>1. [f EXCEPT !.content = content] \in M!Fact
          BY DEF M!Fact
        <5>2. [[f EXCEPT !.content = content] EXCEPT !.trust = trust] \in M!Fact
          BY <5>1 DEF M!Fact
        <5>3. QED
          BY <5>2 DEF M!Fact
      <4> DEFINE fact == [[v1[id] EXCEPT !.content = content] EXCEPT !.trust = trust]
      <4>3. fact \in M!Fact /\ fact.content = content /\ fact.birth = v1[id].birth
        BY <4>2, <4>a
      <4>4. v1' = M!With(id, fact)
        BY <4>1
      <4> HIDE DEF fact, id
      <4>5. /\ DOMAIN v1' = DOMAIN v1 /\ v1'[id] = fact /\ \A i \in DOMAIN v1 \ {id} : v1'[i] = v1[i]
        <5>1. id \in DOMAIN v1
          BY <4>1
        <5>2. QED
          BY <4>4, <5>1, WithFacts
      <4>6. M!TypeOK'
        BY <1>0, <3>1, <3>2, <3>3, <4>1, <4>3, <4>5 DEF M!TypeOK, M!Stored, M!Linked, M!Unlinked, M!Indexed
      <4>7. M!LinksAgree'
        <5>1. ASSUME NEW i \in M!Ids, NEW e \in Named PROVE (<<i, e>> \in v2')
                <=> IF i = id THEN e \in v5[content] ELSE <<i, e>> \in v2
          BY <4>1 DEF M!Linked, M!Unlinked
        <5>2. QED
          BY <1>0, <3>1, <4>1, <4>3, <4>5, <5>1 DEF M!LinksAgree, M!Stored
      <4>8. v3' = {<<i, v1'[i].content>> : i \in DOMAIN v1'}
        BY <1>1, <4>1, <4>3, <4>5 DEF M!Indexed
      <4>9. QED
        BY <1>0, <1>1, <3>1, <3>3, <4>3, <4>5, <4>6, <4>7, <4>8, MeaningsKept
    <3>6. QED
      BY <3>4, <3>5
  <2>8. ASSUME NEW c \in FactCalls, NEW helpful \in BOOLEAN, M!Rate(c, helpful) PROVE M!IdsInv'
    <3> DEFINE id == v6[c].id
    <3>1. M!Acts(c) /\ M!Goes(c, None) /\ UNCHANGED <<v2, v3, v4, v5, v7, v8>>
      BY <2>8 DEF M!Rate, M!Acts
    <3>2. id \in M!Ids /\ v6[c].fact \in M!Fact
      BY <3>1, CallsKnow
    <3>3. v6' \in [FactCalls -> {None} \cup M!CallRow] /\ \A d \in FactCalls : M!Acts(d)' => M!Acts(d) /\ v6'[d] = v6[d]
      BY <1>2, <3>1 DEF M!Acts
    <3>4. CASE id \notin DOMAIN v1
      BY <1>0, <1>3, <2>8, <3>1, <3>3, <3>4 DEF M!TypeOK, M!Rate, M!Stored
    <3>5. CASE id \in DOMAIN v1
      <4>1. PICK trust \in M!Trust, n \in Nat : v1' = M!With(id, [[v1[id] EXCEPT !.trust = trust] EXCEPT !.helpful = n])
        <5>1. /\ M!Clamp(v6[c].fact.trust + (IF helpful THEN 1 ELSE -2)) \in M!Trust
              /\ v6[c].fact.helpful + (IF helpful THEN 1 ELSE 0) \in Nat
          BY <3>2, TrustClamped DEF M!Fact, M!Trust
        <5>2. QED
          BY <2>8, <3>5, <5>1 DEF M!Rate, M!Stored
      <4>2. v1[id] \in M!Fact
        BY <1>1, <3>5
      <4> DEFINE fact == [[v1[id] EXCEPT !.trust = trust] EXCEPT !.helpful = n]
      <4>3. fact \in M!Fact /\ fact.content = v1[id].content /\ fact.birth = v1[id].birth
        <5>1. \A g \in M!Fact : [[g EXCEPT !.trust = trust] EXCEPT !.helpful = n] \in M!Fact
                /\ [[g EXCEPT !.trust = trust] EXCEPT !.helpful = n].content = g.content
                /\ [[g EXCEPT !.trust = trust] EXCEPT !.helpful = n].birth = g.birth
          BY RatedFact, Zenon
        <5>2. QED
          BY <4>2, <5>1
      <4>4. v1' = M!With(id, fact)
        BY <4>1
      <4> HIDE DEF fact, id
      <4>5. /\ DOMAIN v1' = DOMAIN v1 /\ v1'[id] = fact /\ \A i \in DOMAIN v1 \ {id} : v1'[i] = v1[i]
        BY <3>5, <4>4, WithFacts
      <4>6. M!TypeOK' /\ M!LinksAgree'
        BY <1>0, <3>1, <3>3, <4>3, <4>5 DEF M!TypeOK, M!Stored, M!LinksAgree
      <4>7. v3' = {<<i, v1'[i].content>> : i \in DOMAIN v1'}
        BY <1>1, <3>1, <4>3, <4>5
      <4>8. QED
        BY <1>0, <1>1, <3>1, <3>3, <4>3, <4>5, <4>6, <4>7, MeaningsKept
    <3>6. QED
      BY <3>4, <3>5
  <2>9. ASSUME NEW c \in FactCalls, NEW id \in M!Ids, M!Remove(c, id) PROVE M!IdsInv'
    <3>1. /\ v1' = M!Without(id) /\ v2' = M!Unlinked(id) /\ v3' = {i \in v3 : i[1] # id} /\ UNCHANGED <<v4, v5, v6, v7>>
      BY <2>9 DEF M!Remove
    <3>2. v8' \in 0..MaxFactCalls
      BY <1>0, <2>9, RuntimeAssumption DEF M!Remove, M!Idle, M!TypeOK
    <3>3. DOMAIN v1' = DOMAIN v1 \ {id} /\ \A i \in DOMAIN v1 \ {id} : v1'[i] = v1[i]
      BY <3>1, WithoutFacts
    <3>4. M!TypeOK'
      BY <1>0, <3>1, <3>2, <3>3 DEF M!TypeOK, M!Stored, M!Unlinked
    <3>5. M!LinksAgree'
      BY <1>0, <3>1, <3>3 DEF M!LinksAgree, M!Stored, M!Unlinked
    <3>6. v3' = {<<i, v1'[i].content>> : i \in DOMAIN v1'}
      BY <1>1, <3>1, <3>3
    <3>7. QED
      BY <1>0, <1>1, <3>1, <3>3, <3>4, <3>5, <3>6, MeaningsKept DEF M!Acts
  <2>10. QED
    BY <1>5, <2>1, <2>2, <2>3, <2>4, <2>5, <2>6, <2>7, <2>8, <2>9 DEF M!Next
<1>6. QED
  BY <1>4, <1>5

(* The invariant of a behaviour of Memory in the composition. *)
MemoryInvHere == component = "memory" => M!IdsInv

(* It holds in every state of a behaviour. *)
LEMMA MemoryHolds == RuntimeSpec => []MemoryInvHere
<1>1. RuntimeInit => MemoryInvHere
  BY MemoryInit DEF RuntimeInit, MemoryInvHere
<1>2. MemoryInvHere /\ [RuntimeNext]_all => MemoryInvHere'
  <2> SUFFICES ASSUME MemoryInvHere, [RuntimeNext]_all, component' = "memory" PROVE M!IdsInv'
    BY DEF MemoryInvHere
  <2>1. component = "memory" /\ [M!Next]_M!vars
    BY DEF RuntimeNext, all, M!vars
  <2>2. QED
    BY <2>1, MemoryStep DEF MemoryInvHere
<1>3. QED
  BY <1>1, <1>2, PTL DEF RuntimeSpec

(* An id that a tool call still holds means the fact it read or none, and the      *)
(* indexes hold what the facts say, for every number of texts, entities, calls and *)
(* facts (AUTOINCREMENT and the cascades of the schema).                           *)
THEOREM IdsMeanOneFactAlways == RuntimeSpec => []IdsMeanOneFact
<1>1. MemoryInvHere => IdsMeanOneFact
  BY DEF MemoryInvHere, IdsMeanOneFact, M!IdsInv
<1>2. QED
  BY <1>1, MemoryHolds, PTL

-----------------------------------------------------------------------------
(* Routines. Slots: v1 routine, v2 taken, v3 recording, v4 editor, v5 jobs, v6 run, *)
(* v7 ran, v8 drafts, v9 restarts.                                                  *)

(* The rows that the actions on a routine write have their type. *)
LEMMA RoutineRows ==
  /\ R!Live = "live" /\ R!Steps = 2
  /\ R!NoRun \in R!RunRow /\ R!NoRun.at = "idle" /\ R!NoRun.definition = 0 /\ R!NoRun.version = 0
  /\ \A at \in {"idle", "updating", "enabling", "appending", "converting", "closing"}, seen \in 0..RoutineVersions :
       [at |-> at, seen |-> seen] \in R!EditorRow
  /\ \A enabled, draft \in BOOLEAN : [state |-> R!Live, enabled |-> enabled, draft |-> draft, version |-> 1] \in R!RoutineRow
  /\ [state |-> "none", enabled |-> FALSE, draft |-> FALSE, version |-> 0] \in R!RoutineRow
  /\ [state |-> "deleted", enabled |-> FALSE, draft |-> FALSE, version |-> 0] \in R!RoutineRow
<1> USE RuntimeAssumption
<1>1. R!Live = "live" /\ R!Steps = 2
  BY DEF R!Live, R!Steps
<1>2. R!NoRun \in R!RunRow /\ R!NoRun.at = "idle" /\ R!NoRun.definition = 0 /\ R!NoRun.version = 0
  BY DEF R!NoRun, R!RunRow, R!Steps
<1>3. QED
  BY <1>1, <1>2 DEF R!EditorRow, R!RoutineRow, R!Live

(* The invariant of the drafts holds at first. *)
LEMMA RoutineInit == R!Init => R!DraftInv
<1> SUFFICES ASSUME R!Init PROVE R!DraftInv
  OBVIOUS
<1>1. R!TypeOK
  BY RoutineRows, RuntimeAssumption DEF R!Init, R!TypeOK, R!RecordingRow
<1>2. R!RowsAgree /\ R!PublishedRuns /\ R!EditorsTyped
  BY RoutineRows DEF R!Init, R!RowsAgree, R!PublishedRuns, R!EditorsTyped, R!Replays, R!At
<1>3. QED
  BY <1>1, <1>2 DEF R!DraftInv

(* What an editing request that reads or ends leaves of the requests. *)
LEMMA EditorMoves ==
  ASSUME R!DraftInv, NEW e \in RoutineEditors,
         \/ R!Done(e)
         \/ \E at \in {"updating", "enabling", "appending", "converting"}, seen \in 0..RoutineVersions :
              /\ R!Reads(e, at, seen) /\ (at = "updating" => seen < RoutineVersions) /\ (at = "appending" => seen < 2)
         \/ v4' = [v4 EXCEPT ![e].at = "closing"]
         \/ v4' = v4
  PROVE  v4' \in [RoutineEditors -> R!EditorRow] /\ R!EditorsTyped'
<1>1. v4 \in [RoutineEditors -> R!EditorRow] /\ R!EditorsTyped
  BY DEF R!DraftInv, R!TypeOK
<1>2. CASE R!Done(e)
  <2>1. [at |-> "idle", seen |-> 0] \in R!EditorRow
    BY RoutineRows, RuntimeAssumption
  <2>2. QED
    BY <1>1, <1>2, <2>1 DEF R!Done, R!EditorsTyped, R!At
<1>3. ASSUME NEW at \in {"updating", "enabling", "appending", "converting"}, NEW seen \in 0..RoutineVersions,
             R!Reads(e, at, seen), at = "updating" => seen < RoutineVersions, at = "appending" => seen < 2
      PROVE v4' \in [RoutineEditors -> R!EditorRow] /\ R!EditorsTyped'
  <2>1. [at |-> at, seen |-> seen] \in R!EditorRow
    BY RoutineRows
  <2>2. QED
    BY <1>1, <1>3, <2>1 DEF R!Reads, R!EditorsTyped, R!At
<1>4. CASE v4' = [v4 EXCEPT ![e].at = "closing"]
  <2>1. [v4[e] EXCEPT !.at = "closing"] \in R!EditorRow /\ [v4[e] EXCEPT !.at = "closing"].at = "closing"
    BY <1>1 DEF R!EditorRow
  <2>2. QED
    BY <1>1, <1>4, <2>1 DEF R!EditorsTyped, R!At
<1>5. CASE v4' = v4
  BY <1>1, <1>5 DEF R!EditorsTyped, R!At
<1>6. QED
  BY <1>2, <1>3, <1>4, <1>5

(* An edit of the requests or of the demonstration alone. *)
LEMMA EditsAside ==
  ASSUME R!DraftInv, UNCHANGED <<v1, v2, v5, v6, v7, v8, v9>>, v3' \in R!RecordingRow,
         v4' \in [RoutineEditors -> R!EditorRow] /\ R!EditorsTyped'
  PROVE  R!DraftInv'
<1>1. R!TypeOK'
  BY DEF R!DraftInv, R!TypeOK
<1>2. R!RowsAgree' /\ R!PublishedRuns'
  BY DEF R!DraftInv, R!RowsAgree, R!PublishedRuns, R!Published, R!Replays
<1>3. QED
  BY <1>1, <1>2 DEF R!DraftInv

(* An insert finds nothing of an earlier routine. *)
LEMMA InsertKeeps ==
  ASSUME R!DraftInv, NEW enabled \in BOOLEAN, NEW draft \in BOOLEAN, v1.state = "none", R!InsertRoutine(enabled, draft),
         UNCHANGED <<v3, v5, v6, v7, v9>>, v4' \in [RoutineEditors -> R!EditorRow] /\ R!EditorsTyped'
  PROVE  R!DraftInv'
<1>1. v8 = {} /\ v5 = {} /\ v7 = {} /\ v6 = R!NoRun
  BY DEF R!DraftInv, R!RowsAgree
<1>2. /\ v1' \in R!RoutineRow /\ v1'.state = "live" /\ v1'.draft = draft /\ v1'.version = 1 /\ v2' = 1
      /\ v8' \subseteq {1} /\ (draft <=> 1 \in v8')
  BY RoutineRows DEF R!InsertRoutine
<1>3. R!TypeOK'
  BY <1>2, RuntimeAssumption DEF R!DraftInv, R!TypeOK
<1>4. R!RowsAgree'
  BY <1>2, RoutineRows DEF R!RowsAgree
<1>5. R!PublishedRuns'
  BY <1>1, RoutineRows DEF R!PublishedRuns, R!Replays
<1>6. QED
  BY <1>3, <1>4, <1>5 DEF R!DraftInv

(* What the rows say of runs is kept when the runs are not touched, the drafts grow by   *)
(* the next number at most, and no version goes while the routine lives.                 *)
LEMMA UpdateKeeps ==
  ASSUME R!DraftInv, NEW e \in RoutineEditors, NEW draft \in BOOLEAN, R!UpdateRoutine(e, draft)
  PROVE  R!DraftInv'
<1>1. /\ R!Done(e) /\ UNCHANGED <<v3, v5, v6, v7, v9>>
      /\ v4' \in [RoutineEditors -> R!EditorRow] /\ R!EditorsTyped'
  BY EditorMoves DEF R!UpdateRoutine, R!running
<1>2. CASE UNCHANGED <<v1, v2, v8>>
  <2>1. v3' \in R!RecordingRow
    BY <1>1 DEF R!DraftInv, R!TypeOK
  <2>2. QED
    BY <1>1, <1>2, <2>1, EditsAside
<1>3. CASE ~UNCHANGED <<v1, v2, v8>>
  <2> DEFINE next == v4[e].seen + 1
  <2>1. /\ v1.state = "live" /\ next > v2 /\ v2' = next /\ v4[e].at = "updating"
        /\ v1' = [[v1 EXCEPT !.version = next] EXCEPT !.draft = draft]
        /\ v8' = IF draft THEN v8 \cup {next} ELSE v8
    BY <1>3, RoutineRows DEF R!UpdateRoutine, R!rows, R!At
  <2>2. next \in 1..RoutineVersions /\ v2 \in Nat /\ v2 > 0 /\ v8 \subseteq 1..v2
    <3>1. v4[e] \in R!EditorRow /\ v4[e].seen < RoutineVersions
      BY <2>1 DEF R!DraftInv, R!TypeOK, R!EditorsTyped, R!At
    <3>2. QED
      BY <2>1, <3>1, RoutineRows, RuntimeAssumption DEF R!EditorRow, R!DraftInv, R!TypeOK, R!RowsAgree
  <2> HIDE DEF next
  <2>3. v1' \in R!RoutineRow /\ v1'.state = "live" /\ v1'.version = next /\ (v1'.draft <=> draft)
    <3>1. v1 \in R!RoutineRow
      BY DEF R!DraftInv, R!TypeOK
    <3>2. [v1 EXCEPT !.version = next] \in R!RoutineRow /\ [v1 EXCEPT !.version = next].state = v1.state
      BY <2>2, <3>1, RuntimeAssumption DEF R!RoutineRow
    <3>3. QED
      BY <2>1, <2>2, <3>1, <3>2 DEF R!RoutineRow
  <2>4. next \notin v8 /\ v8' \subseteq 1..next /\ (draft <=> next \in v8')
    BY <2>1, <2>2
  <2>5. R!TypeOK'
    BY <1>1, <2>1, <2>2, <2>3, RuntimeAssumption DEF R!DraftInv, R!TypeOK
  <2>6. R!RowsAgree'
    BY <2>1, <2>2, <2>3, <2>4, RoutineRows DEF R!RowsAgree
  <2>7. ASSUME NEW version, R!Published(version) PROVE R!Published(version)'
    BY <2>1, <2>2, <2>3, <2>7, RoutineRows DEF R!Published
  <2>8. R!PublishedRuns'
    BY <1>1, <2>7 DEF R!DraftInv, R!PublishedRuns, R!Replays
  <2>9. QED
    BY <1>1, <2>5, <2>6, <2>8 DEF R!DraftInv
<1>4. QED
  BY <1>2, <1>3

(* Enabling or disabling a routine keeps the invariant of the drafts. *)
LEMMA FlagKeeps ==
  ASSUME R!DraftInv, NEW enabled \in BOOLEAN, v1' = [v1 EXCEPT !.enabled = enabled], enabled => v1.state = "live",
         UNCHANGED <<v2, v3, v5, v6, v7, v8, v9>>, v4' \in [RoutineEditors -> R!EditorRow] /\ R!EditorsTyped'
  PROVE  R!DraftInv'
<1>1. v1 \in R!RoutineRow
  BY DEF R!DraftInv, R!TypeOK
<1>2. v1' \in R!RoutineRow /\ v1'.state = v1.state /\ v1'.version = v1.version /\ v1'.draft = v1.draft
      /\ (v1'.enabled => v1.state = "live")
  BY <1>1 DEF R!RoutineRow
<1>3. R!TypeOK'
  BY <1>2 DEF R!DraftInv, R!TypeOK
<1>4. R!RowsAgree'
  BY <1>2, RoutineRows DEF R!DraftInv, R!RowsAgree
<1>5. R!PublishedRuns'
  BY <1>2 DEF R!DraftInv, R!PublishedRuns, R!Replays, R!Published
<1>6. QED
  BY <1>3, <1>4, <1>5 DEF R!DraftInv

(* A step of the run alone. *)
LEMMA RunKeeps ==
  ASSUME R!DraftInv, UNCHANGED <<v1, v2, v3, v4, v5, v7, v8, v9>>, v6' \in R!RunRow, v1.state # "none",
         v6'.at \in {"idle", "starting"} => v6'.definition = 0,
         v6'.at = "starting" => R!Published(v6'.version),
         R!Replays' => v6'.definition > 0 /\ R!Published(v6'.definition)
  PROVE  R!DraftInv'
<1>1. R!TypeOK' /\ R!RowsAgree' /\ R!EditorsTyped'
  BY DEF R!DraftInv, R!TypeOK, R!RowsAgree, R!EditorsTyped, R!At
<1>2. R!PublishedRuns'
  BY DEF R!DraftInv, R!PublishedRuns, R!Published
<1>3. QED
  BY <1>1, <1>2 DEF R!DraftInv

(* A run that goes on or stops keeps the invariant of the drafts. *)
LEMMA RunGoesOn ==
  ASSUME R!DraftInv, R!Replays, UNCHANGED <<v1, v2, v3, v4, v5, v7, v8, v9>>,
         \/ \E status \in {"failed", "waiting_approval"} : R!Stops(status)
         \/ R!StepDone
         \/ \E at \in {"approving", "executing"} : v6' = [v6 EXCEPT !.at = at]
  PROVE  R!DraftInv'
<1>1. v6 \in R!RunRow /\ v6.definition > 0 /\ R!Published(v6.definition) /\ v1.state # "none"
  BY RoutineRows DEF R!DraftInv, R!TypeOK, R!PublishedRuns, R!RowsAgree, R!Replays
<1>2. ASSUME NEW status \in {"failed", "waiting_approval", "succeeded", "dry_run_succeeded"}, R!Stops(status)
      PROVE v6' \in R!RunRow /\ v6'.at = "storing" /\ v6'.definition = v6.definition
  <2>1. [v6 EXCEPT !.at = "storing"] \in R!RunRow
    BY <1>1 DEF R!RunRow
  <2>2. QED
    BY <1>1, <1>2, <2>1 DEF R!Stops, R!RunRow
<1>3. ASSUME NEW at \in {"approving", "executing"}, v6' = [v6 EXCEPT !.at = at]
      PROVE v6' \in R!RunRow /\ v6'.at = at /\ v6'.definition = v6.definition
  BY <1>1, <1>3 DEF R!RunRow
<1>4. ASSUME v6.left > 1, v6' = [v6 EXCEPT !.at = "validating", !.left = @ - 1]
      PROVE v6' \in R!RunRow /\ v6'.at = "validating" /\ v6'.definition = v6.definition
  <2>1. v6.left - 1 \in 0..2
    BY <1>1, <1>4, RoutineRows DEF R!RunRow
  <2>2. [v6 EXCEPT !.at = "validating"] \in R!RunRow
    BY <1>1 DEF R!RunRow
  <2>3. QED
    BY <1>1, <1>4, <2>1, <2>2, RoutineRows DEF R!RunRow
<1>5. v6' \in R!RunRow /\ v6'.at \in {"storing", "approving", "executing", "validating"} /\ v6'.definition = v6.definition
  BY <1>2, <1>3, <1>4 DEF R!StepDone
<1>6. QED
  BY <1>1, <1>5, RunKeeps DEF R!Published

(* Every step keeps the invariant of the drafts. *)
LEMMA RoutineStep == R!DraftInv /\ [R!Next]_R!vars => R!DraftInv'
<1> SUFFICES ASSUME R!DraftInv, [R!Next]_R!vars PROVE R!DraftInv'
  OBVIOUS
<1> USE DEF R!rows, R!running
<1>0. /\ R!TypeOK /\ R!RowsAgree /\ R!PublishedRuns /\ R!EditorsTyped
      /\ v3 \in R!RecordingRow /\ v4 \in [RoutineEditors -> R!EditorRow] /\ v6 \in R!RunRow /\ v1 \in R!RoutineRow
  BY DEF R!DraftInv, R!TypeOK
<1>a. v4' = v4 => v4' \in [RoutineEditors -> R!EditorRow] /\ R!EditorsTyped'
  BY <1>0 DEF R!EditorsTyped, R!At
<1>b. ASSUME NEW status \in {"recording", "finished", "cancelled"} PROVE [v3 EXCEPT !.status = status] \in R!RecordingRow
  BY <1>0 DEF R!RecordingRow
<1>1. ASSUME NEW draft \in BOOLEAN, R!CreateRoutine(draft) PROVE R!DraftInv'
  <2>1. (\E enabled \in BOOLEAN : R!InsertRoutine(enabled, draft)) /\ v1.state = "none" /\ UNCHANGED <<v3, v4, v5, v6, v7, v9>>
    <3>1. CASE draft = TRUE
      BY <1>1, <3>1 DEF R!CreateRoutine
    <3>2. CASE draft = FALSE
      BY <1>1, <3>2 DEF R!CreateRoutine
    <3>3. QED
      BY <3>1, <3>2
  <2>2. QED
    BY <1>a, <2>1, InsertKeeps
<1>2. ASSUME NEW e \in RoutineEditors, R!UpdateReads(e) \/ R!EnableReads(e) \/ R!AppendReads(e) \/ R!FinishReads(e)
      PROVE R!DraftInv'
  <2>1. \E at \in {"updating", "enabling", "appending", "converting"}, seen \in 0..RoutineVersions :
              /\ R!Reads(e, at, seen) /\ (at = "updating" => seen < RoutineVersions) /\ (at = "appending" => seen < 2)
    BY <1>0, <1>2, RuntimeAssumption DEF R!UpdateReads, R!EnableReads, R!AppendReads, R!FinishReads, R!RoutineRow,
       R!RecordingRow
  <2>2. UNCHANGED <<v1, v2, v3, v5, v6, v7, v8, v9>>
    BY <1>2 DEF R!UpdateReads, R!EnableReads, R!AppendReads, R!FinishReads
  <2>3. v4' \in [RoutineEditors -> R!EditorRow] /\ R!EditorsTyped'
    BY <2>1, EditorMoves
  <2>4. QED
    BY <1>0, <2>2, <2>3, EditsAside
<1>3. ASSUME NEW e \in RoutineEditors, R!SetRoutineEnabled(e) PROVE R!DraftInv'
  <2>1. v4' \in [RoutineEditors -> R!EditorRow] /\ R!EditorsTyped'
    BY <1>3, EditorMoves DEF R!SetRoutineEnabled
  <2>2. CASE v1.state = "live"
    BY <1>3, <2>1, <2>2, RoutineRows, FlagKeeps DEF R!SetRoutineEnabled
  <2>3. CASE v1.state # "live"
    BY <1>3, <2>1, <2>3, RoutineRows, FlagKeeps DEF R!SetRoutineEnabled
  <2>4. QED
    BY <2>2, <2>3
<1>4. CASE R!Disable
  BY <1>a, <1>4, FlagKeeps DEF R!Disable
<1>5. CASE R!DeleteRoutine
  <2>1. /\ v1' \in R!RoutineRow /\ v1'.state = "deleted" /\ v1'.enabled = FALSE /\ v2' = 0 /\ v5' = {} /\ v7' = {}
        /\ UNCHANGED <<v3, v4, v6, v8, v9>>
    BY <1>5, RoutineRows DEF R!DeleteRoutine
  <2>2. R!TypeOK'
    BY <1>0, <2>1, RuntimeAssumption DEF R!TypeOK
  <2>3. R!RowsAgree' /\ R!EditorsTyped'
    BY <1>a, <2>1, RoutineRows DEF R!RowsAgree
  <2>4. R!PublishedRuns'
    BY <1>0, <2>1, RoutineRows DEF R!PublishedRuns, R!Published, R!Replays
  <2>5. QED
    BY <2>2, <2>3, <2>4 DEF R!DraftInv
<1>6. CASE R!StartRecording
  BY <1>a, <1>b, <1>6, EditsAside DEF R!StartRecording
<1>7. ASSUME NEW e \in RoutineEditors, R!AppendAction(e) PROVE R!DraftInv'
  <2>1. v4' \in [RoutineEditors -> R!EditorRow] /\ R!EditorsTyped'
    BY <1>7, EditorMoves DEF R!AppendAction
  <2>2. v4[e] \in R!EditorRow /\ v4[e].seen + 1 \in 0..2
    BY <1>0, <1>7, RuntimeAssumption DEF R!AppendAction, R!EditorsTyped, R!EditorRow, R!At
  <2>3. [v3 EXCEPT !.actions = v4[e].seen + 1] \in R!RecordingRow
    BY <1>0, <2>2 DEF R!RecordingRow
  <2>4. v3' \in R!RecordingRow
    BY <1>0, <1>7, <2>3 DEF R!AppendAction
  <2>5. QED
    BY <1>7, <2>1, <2>4, EditsAside DEF R!AppendAction
<1>8. ASSUME NEW e \in RoutineEditors, R!FinishCreates(e) PROVE R!DraftInv'
  <2>1. v4' \in [RoutineEditors -> R!EditorRow] /\ R!EditorsTyped'
    BY <1>8, EditorMoves DEF R!FinishCreates
  <2>2. CASE v1.state = "none"
    BY <1>8, <2>1, <2>2, InsertKeeps DEF R!FinishCreates
  <2>3. CASE v1.state # "none"
    BY <1>0, <1>8, <2>1, <2>3, EditsAside DEF R!FinishCreates
  <2>4. QED
    BY <2>2, <2>3
<1>9. ASSUME NEW e \in RoutineEditors, NEW status \in {"finished", "cancelled"}, R!CloseRecording(e, status)
      PROVE R!DraftInv'
  <2>1. v4' \in [RoutineEditors -> R!EditorRow] /\ R!EditorsTyped'
    BY <1>9, EditorMoves DEF R!CloseRecording
  <2>2. QED
    BY <1>b, <1>9, <2>1, EditsAside DEF R!CloseRecording
<1>10. CASE R!Enqueue
  <2>1. /\ v1.state = "live" /\ v1.version = v2 /\ v2 \in 1..RoutineVersions /\ v2 \notin v8
        /\ v5' = v5 \cup {v2} /\ UNCHANGED <<v1, v2, v3, v4, v6, v7, v8, v9>>
    BY <1>0, <1>10, RoutineRows, RuntimeAssumption DEF R!Enqueue, R!RowsAgree, R!TypeOK
  <2>2. R!Published(v2)
    BY <2>1 DEF R!Published
  <2>3. R!TypeOK' /\ R!EditorsTyped'
    BY <1>0, <1>a, <2>1 DEF R!TypeOK
  <2>4. R!RowsAgree'
    BY <1>0, <2>1, RoutineRows DEF R!RowsAgree
  <2>5. R!PublishedRuns'
    BY <1>0, <2>1, <2>2 DEF R!PublishedRuns, R!Published, R!Replays
  <2>6. QED
    BY <2>3, <2>4, <2>5 DEF R!DraftInv
<1>11. ASSUME NEW version \in v5, R!JobStarts(version) PROVE R!DraftInv'
  <2>1. version \in 0..RoutineVersions /\ v1.state = "live" /\ R!Published(version)
    BY <1>0, <1>11, RoutineRows, RuntimeAssumption DEF R!JobStarts, R!TypeOK, R!RowsAgree, R!PublishedRuns
  <2>2. v6' = [at |-> "starting", version |-> version, definition |-> 0, left |-> 2, dry |-> FALSE, status |-> "none"]
    BY <1>11 DEF R!JobStarts, R!NoRun, R!Steps
  <2>3. v6' \in R!RunRow /\ v6'.at = "starting" /\ v6'.version = version /\ v6'.definition = 0
    BY <2>1, <2>2, RuntimeAssumption DEF R!RunRow, R!Steps
  <2>4. QED
    BY <1>11, <2>1, <2>3, RunKeeps DEF R!JobStarts, R!Replays
<1>12. CASE R!RoutineVersion
  <2>1. v6.at = "starting" /\ R!Published(v6.version) /\ v1.state # "none" /\ UNCHANGED <<v1, v2, v3, v4, v5, v7, v8, v9>>
    BY <1>0, <1>12, RoutineRows DEF R!RoutineVersion, R!PublishedRuns, R!RowsAgree
  <2>2. CASE v6' = R!NoRun
    BY <2>1, <2>2, RoutineRows, RunKeeps DEF R!Replays
  <2>3. CASE v6' # R!NoRun
    <3>1. v6.version \in 1..v2 /\ v6' = [[v6 EXCEPT !.at = "validating"] EXCEPT !.definition = v6.version]
      BY <1>12, <2>3 DEF R!RoutineVersion
    <3>2. v6.version > 0 /\ v6.version \in 0..RoutineVersions
      BY <1>0, <3>1, RuntimeAssumption DEF R!RunRow, R!TypeOK
    <3>3. [v6 EXCEPT !.at = "validating"] \in R!RunRow
      BY <1>0 DEF R!RunRow
    <3>4. v6' \in R!RunRow /\ v6'.at = "validating" /\ v6'.definition = v6.version
      BY <3>1, <3>2, <3>3 DEF R!RunRow
    <3>5. QED
      BY <2>1, <3>2, <3>4, RunKeeps DEF R!Published
  <2>4. QED
    BY <2>2, <2>3
<1>13. ASSUME NEW dry \in BOOLEAN, R!Execute(dry) PROVE R!DraftInv'
  <2>1. /\ v1.state = "live" /\ v1.version = v2 /\ v2 \in 1..RoutineVersions /\ v2 \notin v8
        /\ UNCHANGED <<v1, v2, v3, v4, v5, v7, v8, v9>>
    BY <1>0, <1>13, RoutineRows, RuntimeAssumption DEF R!Execute, R!RowsAgree, R!TypeOK
  <2>2. v6' = [at |-> "validating", version |-> v2, definition |-> v2, left |-> 2, dry |-> dry, status |-> "none"]
    BY <1>13, <2>1 DEF R!Execute, R!NoRun, R!Steps
  <2>3. v6' \in R!RunRow /\ v6'.at = "validating" /\ v6'.definition = v2
    BY <2>1, <2>2, RuntimeAssumption DEF R!RunRow, R!Steps
  <2>4. QED
    BY <2>1, <2>3, RunKeeps DEF R!Published
<1>14. CASE R!ValidateStep \/ R!ApprovalRequired \/ R!ExecuteStep
  <2>1. R!Replays /\ UNCHANGED <<v1, v2, v3, v4, v5, v7, v8, v9>>
    BY <1>14 DEF R!ValidateStep, R!ApprovalRequired, R!ExecuteStep, R!Replays
  <2>2. \/ \E status \in {"failed", "waiting_approval"} : R!Stops(status)
        \/ R!StepDone
        \/ \E at \in {"approving", "executing"} : v6' = [v6 EXCEPT !.at = at]
    BY <1>14 DEF R!ValidateStep, R!ApprovalRequired, R!ExecuteStep
  <2>3. QED
    BY <2>1, <2>2, RunGoesOn
<1>15. CASE R!CreateRoutineRun
  <2> DEFINE row == [version |-> v6.version, definition |-> v6.definition]
  <2>1. /\ v6.at = "storing" /\ v6.definition > 0 /\ R!Published(v6.definition) /\ v6' = R!NoRun
        /\ v7' \in {v7, IF v6.version \in 1..v2 THEN v7 \cup {row} ELSE v7}
        /\ UNCHANGED <<v1, v2, v3, v4, v5, v8, v9>>
    BY <1>0, <1>15 DEF R!CreateRoutineRun, R!PublishedRuns, R!Replays
  <2>2. v6.version \in 1..v2 => row \in [version : 1..RoutineVersions, definition : 1..RoutineVersions]
    BY <1>0, <2>1, RuntimeAssumption DEF R!RunRow, R!TypeOK
  <2>3. \A r \in v7' : R!Published(r.definition) /\ r \in [version : 1..RoutineVersions, definition : 1..RoutineVersions]
    BY <1>0, <2>1, <2>2 DEF R!PublishedRuns, R!TypeOK
  <2>4. R!TypeOK' /\ R!EditorsTyped'
    BY <1>0, <1>a, <2>1, <2>3, RoutineRows DEF R!TypeOK
  <2>5. v1.state # "none"
    BY <1>0, <2>1, RoutineRows DEF R!RowsAgree
  <2>6. R!RowsAgree'
    BY <1>0, <2>1, <2>5 DEF R!RowsAgree
  <2>7. R!PublishedRuns'
    BY <1>0, <2>1, <2>3, RoutineRows DEF R!PublishedRuns, R!Published, R!Replays
  <2>8. QED
    BY <2>4, <2>6, <2>7 DEF R!DraftInv
<1>16. CASE R!Restart
  <2>1. /\ v9' \in 0..RoutineRestarts /\ v6' = R!NoRun /\ UNCHANGED <<v1, v2, v3, v5, v7, v8>>
        /\ v4' = [e \in RoutineEditors |-> [at |-> "idle", seen |-> 0]]
    BY <1>0, <1>16, RuntimeAssumption DEF R!Restart, R!TypeOK
  <2>2. v4' \in [RoutineEditors -> R!EditorRow]
    BY <2>1, RoutineRows, RuntimeAssumption
  <2>3. R!EditorsTyped'
    BY <2>1 DEF R!EditorsTyped, R!At
  <2>4. R!TypeOK'
    BY <1>0, <2>1, <2>2, RoutineRows DEF R!TypeOK
  <2>5. R!RowsAgree' /\ R!PublishedRuns'
    BY <1>0, <2>1, RoutineRows DEF R!RowsAgree, R!PublishedRuns, R!Published, R!Replays
  <2>6. QED
    BY <2>3, <2>4, <2>5 DEF R!DraftInv
<1>17. CASE UNCHANGED R!vars
  BY <1>0, <1>a, <1>17, EditsAside DEF R!vars
<1>18. QED
  BY <1>1, <1>2, <1>3, <1>4, <1>5, <1>6, <1>7, <1>8, <1>9, <1>10, <1>11, <1>12, <1>13, <1>14, <1>15, <1>16, <1>17,
     UpdateKeeps DEF R!Next

(* The invariant of the drafts gives DraftsNeverRun. *)
LEMMA DraftInvSuffices == R!DraftInv => R!DraftsNeverRun
<1> SUFFICES ASSUME R!DraftInv PROVE R!DraftsNeverRun
  OBVIOUS
<1>1. R!TypeOK /\ R!PublishedRuns /\ 0 \notin v8 /\ v6 \in R!RunRow
  BY RuntimeAssumption DEF R!DraftInv, R!TypeOK
<1>2. v6.definition \notin v8
  BY <1>1 DEF R!PublishedRuns, R!Published, R!Replays, R!RunRow
<1>3. \A r \in v7 : r.definition \notin v8
  BY <1>1 DEF R!PublishedRuns, R!Published
<1>4. QED
  BY <1>2, <1>3 DEF R!DraftsNeverRun

(* The invariant of a behaviour of Routines in the composition. *)
DraftInvHere == component = "routines" => R!DraftInv

(* It holds in every state of a behaviour. *)
LEMMA RoutinesHold == RuntimeSpec => []DraftInvHere
<1>1. RuntimeInit => DraftInvHere
  BY RoutineInit DEF RuntimeInit, DraftInvHere
<1>2. DraftInvHere /\ [RuntimeNext]_all => DraftInvHere'
  <2> SUFFICES ASSUME DraftInvHere, [RuntimeNext]_all, component' = "routines" PROVE R!DraftInv'
    BY DEF DraftInvHere
  <2>1. component = "routines" /\ [R!Next]_R!vars
    BY DEF RuntimeNext, all, R!vars
  <2>2. QED
    BY <2>1, RoutineStep DEF DraftInvHere
<1>3. QED
  BY <1>1, <1>2, PTL DEF RuntimeSpec

(* No version that was saved as a draft is ever replayed, for every number of *)
(* editors, versions and restarts, whatever edits, conversions and runs cross *)
(* (execute_job, update_routine).                                             *)
THEOREM DraftsNeverRunAlways == RuntimeSpec => []DraftsNeverRun
<1>1. DraftInvHere => DraftsNeverRun
  BY DraftInvSuffices DEF DraftInvHere, DraftsNeverRun
<1>2. QED
  BY <1>1, RoutinesHold, PTL

-----------------------------------------------------------------------------
(* WorkingContext. Slots: v1 profile, v2 row, v3 conversation, v4 turn, v5 request, *)
(* v6 turns, v7 faults, v8 undone.                                                  *)

(* The instance counts as the library does. *)
LEMMA ContextCounts == \A X : W!Cardinality(X) = Cardinality(X)
BY DEF W!Cardinality, Cardinality

(* The requests, turns and rows that the context starts from have their types. *)
LEMMA ContextNames ==
  /\ W!NewRequest \in W!RequestRow /\ W!NewRequest.at = "new" /\ W!IdleTurn \in W!TurnRow
  /\ W!IdleTurn.at = "idle" /\ W!NoRow \in W!ContextRow
  /\ W!NoRow.status = "idle" /\ W!NoRow.generation = 0
  /\ \A p \in ContextProfiles : W!Fresh(p) \in W!ContextRow /\ W!Fresh(p).profile = p
                                /\ W!Fresh(p).status = "idle" /\ W!Fresh(p).generation = 0
  /\ IsFiniteSet(ContextRequests) /\ Cardinality(ContextRequests) \in Nat
<1>1. IsFiniteSet(ContextRequests) /\ Cardinality(ContextRequests) \in Nat
  BY FS_CardinalityType, RuntimeAssumption
<1>2. W!NewRequest \in W!RequestRow /\ W!NewRequest.at = "new" /\ W!IdleTurn \in W!TurnRow /\ W!IdleTurn.at = "idle"
  BY RuntimeAssumption DEF W!NewRequest, W!RequestRow, W!IdleTurn, W!TurnRow
<1>3. W!ContextRow = [profile : ContextProfiles \cup {"none"}, mode : {"default", "plan"},
                      status : {"idle", "running", "completed", "failed"},
                      generation : 0..Cardinality(ContextRequests), used : BOOLEAN]
  BY ContextCounts DEF W!ContextRow
<1>4. W!NoRow \in W!ContextRow /\ W!NoRow.status = "idle" /\ W!NoRow.generation = 0
  BY <1>1, <1>3 DEF W!NoRow
<1>5. ASSUME NEW p \in ContextProfiles
      PROVE  W!Fresh(p) \in W!ContextRow /\ W!Fresh(p).profile = p
             /\ W!Fresh(p).status = "idle" /\ W!Fresh(p).generation = 0
  <2>1. W!Fresh(p) = [W!NoRow EXCEPT !.profile = p]
    BY DEF W!Fresh
  <2>2. QED
    BY <1>3, <1>4, <2>1
<1>6. QED
  BY <1>1, <1>2, <1>4, <1>5

(* The row that working_context answers with. *)
LEMMA RowLoaded ==
  ASSUME W!BusyInv
  PROVE  /\ W!Loaded \in W!ContextRow /\ W!Loaded.profile = v1
         /\ W!Loaded.generation <= Cardinality(W!Finished)
         /\ v8 \/ (W!Loaded.status = "running" <=> v2.status = "running")
         /\ v8 \/ (W!Loaded.status = "running" <=> W!Operating # {})
<1>1. v2 \in W!ContextRow /\ v1 \in ContextProfiles /\ v2.generation \in 0..Cardinality(ContextRequests)
  BY ContextCounts DEF W!BusyInv, W!TypeOK, W!ContextRow
<1>2. IsFiniteSet(W!Finished) /\ Cardinality(W!Finished) \in Nat
  BY ContextNames, FS_Subset, FS_CardinalityType DEF W!Finished
<1>3. CASE v2.profile = v1
  BY <1>1, <1>3, ContextCounts DEF W!BusyInv, W!OneBusy, W!Loaded, W!Loads
<1>4. CASE v2.profile # v1
  <2>1. W!Loaded = W!Fresh(v1)
    BY <1>4 DEF W!Loaded
  <2>2. v8 \/ W!Operating = {}
    BY <1>4 DEF W!BusyInv, W!OneBusy, W!Loads
  <2>3. W!Fresh(v1) \in W!ContextRow /\ W!Fresh(v1).profile = v1 /\ W!Fresh(v1).status = "idle"
        /\ W!Fresh(v1).generation = 0
    BY <1>1, ContextNames
  <2>4. v8 \/ v2.status # "running"
    BY <2>2 DEF W!BusyInv, W!OneBusy
  <2>5. QED
    BY <1>1, <1>2, <2>1, <2>2, <2>3, <2>4
<1>5. QED
  BY <1>3, <1>4

(* One request moves. *)
LEMMA RequestMoves ==
  ASSUME W!BusyInv, NEW r \in ContextRequests, NEW q \in W!RequestRow, v5' = [v5 EXCEPT ![r] = q]
  PROVE  /\ v5' \in [ContextRequests -> W!RequestRow]
         /\ v5'[r] = q /\ \A s \in ContextRequests \ {r} : v5'[s] = v5[s]
BY DEF W!BusyInv, W!TypeOK

(* A request that finishes is one finished request more, and no request more than *)
(* there are.                                                                     *)
LEMMA FinishedGrows ==
  ASSUME W!BusyInv, NEW r \in ContextRequests, \A s \in ContextRequests \ {r} : v5'[s] = v5[s],
         v5[r].at # "done"
  PROVE  /\ Cardinality(W!Finished) \in Nat /\ Cardinality(W!Finished') \in Nat
         /\ Cardinality(W!Finished) <= Cardinality(W!Finished')
         /\ v5'[r].at = "done" => Cardinality(W!Finished') = Cardinality(W!Finished) + 1
         /\ Cardinality(W!Finished') <= Cardinality(ContextRequests)
<1>1. IsFiniteSet(W!Finished) /\ IsFiniteSet(W!Finished') /\ W!Finished' \subseteq ContextRequests
  BY ContextNames, FS_Subset DEF W!Finished
<1>2. r \notin W!Finished /\ W!Finished \subseteq W!Finished'
  BY DEF W!Finished
<1>3. v5'[r].at = "done" => W!Finished' = W!Finished \cup {r}
  BY DEF W!Finished
<1>4. QED
  BY <1>1, <1>2, <1>3, ContextNames, FS_Subset, FS_CardinalityType, FS_AddElement

(* A step of one request that finishes no operation and works on none, or none but its own. *)
LEMMA BusyMoves ==
  ASSUME W!BusyInv, NEW r \in ContextRequests, \A s \in ContextRequests \ {r} : v5'[s] = v5[s],
         v5[r].at # "done", W!TypeOK', v2'.generation <= Cardinality(W!Finished'),
         v1' = v1, v8' = v8 \/ v8',
         v8' \/ \/ /\ v5[r].at \notin {"begun", "working", "failing"}
                   /\ v5'[r].at \notin {"begun", "working", "failing"}
                   /\ (v2'.status = "running") <=> (v2.status = "running")
                \/ /\ v5[r].at \in {"begun", "working", "failing"}
                   /\ v5'[r].at \in {"begun", "working", "failing"}
                   /\ (v2'.status = "running") <=> (v2.status = "running")
                \/ /\ v5[r].at \in {"begun", "working", "failing"}
                   /\ v5'[r].at \notin {"begun", "working", "failing"}
                   /\ v2'.status # "running"
                \/ /\ v2.status # "running" /\ v2'.status = "running"
                   /\ v5'[r].at \in {"begun", "working", "failing"},
         v8' \/ v2'.profile = v1 \/ (v2'.profile = v2.profile /\
                   (v5'[r].at \in {"summed", "begun", "working", "failing"} =>
                      v5[r].at \in {"summed", "begun", "working", "failing"}))
  PROVE  W!BusyInv'
<1> DEFINE Busy == {"begun", "working", "failing"}
<1>1. CASE v8'
  BY <1>1, ContextCounts DEF W!BusyInv, W!OneBusy
<1>2. CASE ~v8'
  <2>1. /\ \A s, t \in W!Operating : s = t
        /\ (v2.status = "running") <=> (W!Operating # {})
        /\ W!Loads # {} => v2.profile = v1
    BY <1>2 DEF W!BusyInv, W!OneBusy
  <2>2. \A s \in ContextRequests : (s \in W!Operating <=> v5[s].at \in Busy)
                                   /\ (s \in W!Operating' <=> v5'[s].at \in Busy)
    BY DEF W!Operating
  <2>3. \A s \in ContextRequests : (s \in W!Loads <=> v5[s].at \in Busy \cup {"summed"})
                                   /\ (s \in W!Loads' <=> v5'[s].at \in Busy \cup {"summed"})
    BY DEF W!Loads, W!Operating
  <2>4. W!Operating \subseteq ContextRequests /\ W!Operating' \subseteq ContextRequests
        /\ W!Loads \subseteq ContextRequests /\ W!Loads' \subseteq ContextRequests
    BY DEF W!Loads, W!Operating
  <2>5. \A s, t \in W!Operating' : s = t
    BY <1>2, <2>1, <2>2, <2>4
  <2>6. (v2'.status = "running") <=> (W!Operating' # {})
    BY <1>2, <2>1, <2>2, <2>4
  <2>7. W!Loads' # {} => v2'.profile = v1
    BY <1>2, <2>1, <2>3, <2>4
  <2>8. QED
    BY <2>5, <2>6, <2>7, ContextCounts DEF W!BusyInv, W!OneBusy
<1>3. QED
  BY <1>1, <1>2

(* A step that no request takes. *)
LEMMA BusyStays ==
  ASSUME W!BusyInv, UNCHANGED <<v1, v5, v8>>, W!TypeOK',
         v2' = v2 \/ /\ v2'.profile = v1 /\ v2'.status = W!Loaded.status
                     /\ v2'.generation = W!Loaded.generation
  PROVE  W!BusyInv'
<1>1. W!Operating' = W!Operating /\ W!Loads' = W!Loads /\ W!Finished' = W!Finished
  BY DEF W!Operating, W!Loads, W!Finished
<1>2. QED
  BY <1>1, RowLoaded, ContextCounts DEF W!BusyInv, W!OneBusy

(* The invariant of the working context holds at first. *)
LEMMA ContextInit == W!Init => W!BusyInv
<1> SUFFICES ASSUME W!Init PROVE W!BusyInv
  OBVIOUS
<1>1. W!TypeOK
  <2>1. /\ v1 \in ContextProfiles /\ v2 = W!NoRow /\ v4 = W!IdleTurn /\ v6 = 0 /\ v7 = 0 /\ v8 = FALSE
        /\ v3 = [p \in ContextProfiles |-> 0] /\ v5 = [r \in ContextRequests |-> W!NewRequest]
    BY DEF W!Init
  <2>2. 0 \in 0..ContextTurns /\ 0 \in 0..ContextFaults
    BY RuntimeAssumption
  <2>3. QED
    BY <2>1, <2>2, ContextNames DEF W!TypeOK
<1>2. W!Finished = {} /\ W!Operating = {}
  BY ContextNames DEF W!Init, W!Finished, W!Operating
<1>3. W!Loads = {}
  BY <1>2, ContextNames DEF W!Init, W!Loads
<1>4. v2.generation <= Cardinality(W!Finished) /\ v2.status # "running"
  BY <1>2, ContextNames, FS_EmptySet DEF W!Init
<1>5. QED
  BY <1>1, <1>2, <1>3, <1>4, ContextCounts DEF W!BusyInv, W!OneBusy

(* Every step keeps the invariant of the working context. *)
LEMMA ContextStep == W!BusyInv /\ [W!Next]_W!vars => W!BusyInv'
<1> SUFFICES ASSUME W!BusyInv, [W!Next]_W!vars PROVE W!BusyInv'
  OBVIOUS
<1> USE ContextNames
<1>0. /\ W!TypeOK /\ v2 \in W!ContextRow /\ v2.generation <= Cardinality(W!Finished)
      /\ W!Loaded \in W!ContextRow /\ W!Loaded.profile = v1 /\ v5 \in [ContextRequests -> W!RequestRow]
  BY RowLoaded, ContextCounts DEF W!BusyInv, W!TypeOK
<1>1. CASE W!Summary
  <2>1. v2' = W!Loaded /\ UNCHANGED <<v1, v3, v4, v5, v6, v7, v8>>
    BY <1>1 DEF W!Summary
  <2>2. W!TypeOK'
    BY <1>0, <2>1 DEF W!TypeOK
  <2>3. QED
    BY <1>0, <2>1, <2>2, BusyStays
<1>2. CASE \E p \in ContextProfiles : W!ChangeProfile(p)
  <2>1. /\ v1' \in ContextProfiles /\ v8' = TRUE /\ v7 < ContextFaults /\ v7' = v7 + 1
        /\ UNCHANGED <<v2, v3, v4, v5, v6>>
    BY <1>2 DEF W!ChangeProfile
  <2>2. W!TypeOK'
    BY <1>0, <2>1, RuntimeAssumption DEF W!TypeOK
  <2>3. W!Finished' = W!Finished
    BY <2>1 DEF W!Finished
  <2>4. QED
    BY <1>0, <2>1, <2>2, <2>3, ContextCounts DEF W!BusyInv, W!OneBusy
<1>3. CASE W!TurnReads
  <2>1. /\ v4' = [at |-> "reading", profile |-> v1, resumes |-> v3[v1], mode |-> "default"]
        /\ v6 < ContextTurns /\ v6' = v6 + 1 /\ UNCHANGED <<v1, v2, v3, v5, v7, v8>>
    BY <1>3 DEF W!TurnReads
  <2>2. v4' \in W!TurnRow
    BY <1>0, <2>1 DEF W!TurnRow, W!TypeOK
  <2>3. W!TypeOK'
    BY <1>0, <2>1, <2>2, RuntimeAssumption DEF W!TypeOK
  <2>4. QED
    BY <2>1, <2>3, BusyStays
<1>4. CASE W!TurnStarts
  <2>1. /\ v2' = W!Loaded /\ v4' = [[v4 EXCEPT !.at = "running"] EXCEPT !.mode = W!Loaded.mode]
        /\ UNCHANGED <<v1, v3, v5, v6, v7, v8>>
    BY <1>4 DEF W!TurnStarts
  <2>2. v4' \in W!TurnRow
    <3>1. v4 \in W!TurnRow /\ W!Loaded.mode \in {"default", "plan"}
      BY <1>0 DEF W!TypeOK, W!ContextRow
    <3>2. QED
      BY <2>1, <3>1 DEF W!TurnRow
  <2>3. W!TypeOK'
    BY <1>0, <2>1, <2>2 DEF W!TypeOK
  <2>4. QED
    BY <1>0, <2>1, <2>3, BusyStays
<1>5. CASE W!ConversationStarted
  <2>1. /\ \E n : n \in {v6, v4.resumes} /\ v3' = [v3 EXCEPT ![v4.profile] = n]
        /\ UNCHANGED <<v1, v2, v4, v5, v6, v7, v8>>
    BY <1>5 DEF W!ConversationStarted
  <2>2. v6 \in 0..ContextTurns /\ v4.resumes \in 0..ContextTurns
    BY <1>0 DEF W!TypeOK, W!TurnRow
  <2>3. v3' \in [ContextProfiles -> 0..ContextTurns]
    <3>1. v3 \in [ContextProfiles -> 0..ContextTurns]
      BY <1>0 DEF W!TypeOK
    <3>2. PICK n \in 0..ContextTurns : v3' = [v3 EXCEPT ![v4.profile] = n]
      BY <2>1, <2>2
    <3>3. QED
      BY <3>1, <3>2
  <2>4. W!TypeOK'
    BY <1>0, <2>1, <2>3 DEF W!TypeOK
  <2>5. QED
    BY <2>1, <2>4, BusyStays
<1>6. CASE W!Usage
  <2>1. PICK used \in BOOLEAN : v2' = [W!Loaded EXCEPT !.used = used]
    BY <1>6 DEF W!Usage
  <2>2. UNCHANGED <<v1, v3, v4, v5, v6, v7, v8>>
    BY <1>6 DEF W!Usage
  <2>3. /\ v2' \in W!ContextRow /\ v2'.profile = v1 /\ v2'.status = W!Loaded.status
        /\ v2'.generation = W!Loaded.generation
    BY <1>0, <2>1 DEF W!ContextRow
  <2>4. W!TypeOK'
    BY <1>0, <2>2, <2>3 DEF W!TypeOK
  <2>5. QED
    BY <2>2, <2>3, <2>4, BusyStays
<1>7. CASE W!TurnEnds
  <2>1. v4' = W!IdleTurn /\ UNCHANGED <<v1, v2, v3, v5, v6, v7, v8>>
    BY <1>7 DEF W!TurnEnds
  <2>2. W!TypeOK'
    BY <1>0, <2>1 DEF W!TypeOK
  <2>3. QED
    BY <2>1, <2>2, BusyStays
<1>8. ASSUME NEW r \in ContextRequests, W!CheckMode(r) PROVE W!BusyInv'
  <2>1. PICK mode \in {"default", "plan"}, at \in {"refused", "checked"} :
          v5' = [v5 EXCEPT ![r] = [at |-> at, kind |-> mode, profile |-> v1]]
    BY <1>8 DEF W!CheckMode
  <2>2. v5[r].at = "new" /\ v2' = W!Loaded /\ UNCHANGED <<v1, v3, v4, v6, v7, v8>>
    BY <1>8 DEF W!CheckMode
  <2>3. [at |-> at, kind |-> mode, profile |-> v1] \in W!RequestRow
    BY <1>0 DEF W!TypeOK, W!RequestRow
  <2>4. /\ v5' \in [ContextRequests -> W!RequestRow] /\ v5'[r].at = at
        /\ \A s \in ContextRequests \ {r} : v5'[s] = v5[s]
    BY <2>1, <2>3, RequestMoves
  <2>5. W!TypeOK'
    BY <1>0, <2>2, <2>4 DEF W!TypeOK
  <2>6. v2'.generation <= Cardinality(W!Finished')
    BY <1>0, <2>2, <2>4, FinishedGrows, RowLoaded DEF W!ContextRow
  <2>7. QED
    BY <1>0, <2>2, <2>4, <2>5, <2>6, RowLoaded, BusyMoves
<1>m. ASSUME NEW r \in ContextRequests, NEW at \in {"new", "checked", "summed", "begun", "working", "failing", "done",
                "refused", "dropped"}, W!Goto(r, at)
      PROVE  /\ v5' \in [ContextRequests -> W!RequestRow] /\ v5'[r].at = at
             /\ \A s \in ContextRequests \ {r} : v5'[s] = v5[s]
  <2>1. v5[r] \in W!RequestRow
    BY <1>0
  <2>2. [v5[r] EXCEPT !.at = at] \in W!RequestRow /\ [v5[r] EXCEPT !.at = at].at = at
    BY <2>1 DEF W!RequestRow
  <2>3. v5' = [v5 EXCEPT ![r] = [v5[r] EXCEPT !.at = at]]
    BY <1>0, <1>m DEF W!Goto
  <2>4. QED
    BY <2>2, <2>3, RequestMoves
<1>9. ASSUME NEW r \in ContextRequests, W!SetMode(r) PROVE W!BusyInv'
  <2>1. /\ v5[r].at = "checked" /\ W!Goto(r, "done") /\ UNCHANGED <<v1, v3, v4, v6, v7, v8>>
        /\ v5[r].kind \in {"default", "plan"} /\ v2' = [v2 EXCEPT !.mode = v5[r].kind]
    BY <1>9 DEF W!SetMode
  <2>2. v2' \in W!ContextRow /\ v2'.status = v2.status /\ v2'.profile = v2.profile /\ v2'.generation = v2.generation
    BY <1>0, <2>1 DEF W!ContextRow
  <2>3. W!TypeOK'
    BY <1>0, <1>m, <2>1, <2>2 DEF W!TypeOK
  <2>4. v2'.generation <= Cardinality(W!Finished')
    BY <1>0, <1>m, <2>1, <2>2, FinishedGrows DEF W!ContextRow
  <2>5. QED
    BY <1>m, <2>1, <2>2, <2>3, <2>4, BusyMoves
<1>10. ASSUME NEW r \in ContextRequests, W!CheckIdle(r) PROVE W!BusyInv'
  <2>1. PICK kind \in {"compact", "reset"}, at \in {"checked", "refused"} :
          v5' = [v5 EXCEPT ![r] = [[W!NewRequest EXCEPT !.at = at] EXCEPT !.kind = kind]]
    BY <1>10 DEF W!CheckIdle
  <2>2. v5[r].at = "new" /\ UNCHANGED <<v1, v2, v3, v4, v6, v7, v8>>
    BY <1>10 DEF W!CheckIdle
  <2>3. /\ [[W!NewRequest EXCEPT !.at = at] EXCEPT !.kind = kind] \in W!RequestRow
        /\ [[W!NewRequest EXCEPT !.at = at] EXCEPT !.kind = kind].at = at
    <3>1. W!NewRequest \in W!RequestRow
      OBVIOUS
    <3>2. QED
      BY <3>1 DEF W!RequestRow
  <2>4. /\ v5' \in [ContextRequests -> W!RequestRow] /\ v5'[r].at = at
        /\ \A s \in ContextRequests \ {r} : v5'[s] = v5[s]
    BY <2>1, <2>3, RequestMoves
  <2>5. W!TypeOK'
    BY <1>0, <2>2, <2>4 DEF W!TypeOK
  <2>6. v2'.generation <= Cardinality(W!Finished')
    BY <1>0, <2>2, <2>4, FinishedGrows DEF W!ContextRow
  <2>7. QED
    BY <2>2, <2>4, <2>5, <2>6, BusyMoves
<1>11. ASSUME NEW r \in ContextRequests, W!CheckAble(r) PROVE W!BusyInv'
  <2>1. PICK at \in {"refused", "summed"} :
          v5' = [v5 EXCEPT ![r] = [[v5[r] EXCEPT !.profile = v1] EXCEPT !.at = at]]
    BY <1>0, <1>11 DEF W!CheckAble
  <2>2. v5[r].at = "checked" /\ v2' = W!Loaded /\ UNCHANGED <<v1, v3, v4, v6, v7, v8>>
    BY <1>11 DEF W!CheckAble
  <2>3. /\ [[v5[r] EXCEPT !.profile = v1] EXCEPT !.at = at] \in W!RequestRow
        /\ [[v5[r] EXCEPT !.profile = v1] EXCEPT !.at = at].at = at
    <3>1. v5[r] \in W!RequestRow /\ v1 \in ContextProfiles
      BY <1>0 DEF W!TypeOK
    <3>2. QED
      BY <3>1 DEF W!RequestRow
  <2>4. /\ v5' \in [ContextRequests -> W!RequestRow] /\ v5'[r].at = at
        /\ \A s \in ContextRequests \ {r} : v5'[s] = v5[s]
    BY <2>1, <2>3, RequestMoves
  <2>5. W!TypeOK'
    BY <1>0, <2>2, <2>4 DEF W!TypeOK
  <2>6. v2'.generation <= Cardinality(W!Finished')
    BY <1>0, <2>2, <2>4, FinishedGrows, RowLoaded DEF W!ContextRow
  <2>7. QED
    BY <1>0, <2>2, <2>4, <2>5, <2>6, RowLoaded, BusyMoves
<1>12. ASSUME NEW r \in ContextRequests, W!Begin(r) PROVE W!BusyInv'
  <2>1. v5[r].at = "summed" /\ UNCHANGED <<v1, v3, v4, v6, v7, v8>>
    BY <1>12 DEF W!Begin
  <2>2. CASE v2.status # "running" /\ v2' = [v2 EXCEPT !.status = "running"] /\ W!Goto(r, "begun")
    <3>1. v2' \in W!ContextRow /\ v2'.status = "running" /\ v2'.profile = v2.profile /\ v2'.generation = v2.generation
      BY <1>0, <2>2 DEF W!ContextRow
    <3>2. W!TypeOK'
      BY <1>0, <1>m, <2>1, <2>2, <3>1 DEF W!TypeOK
    <3>3. v2'.generation <= Cardinality(W!Finished')
      BY <1>0, <1>m, <2>1, <2>2, <3>1, FinishedGrows DEF W!ContextRow
    <3>4. QED
      BY <1>m, <2>1, <2>2, <3>1, <3>2, <3>3, BusyMoves
  <2>3. CASE v2.status = "running" /\ W!Goto(r, "refused") /\ v2' = v2
    <3>1. W!TypeOK'
      BY <1>0, <1>m, <2>1, <2>3 DEF W!TypeOK
    <3>2. v2'.generation <= Cardinality(W!Finished')
      BY <1>0, <1>m, <2>1, <2>3, FinishedGrows DEF W!ContextRow
    <3>3. QED
      BY <1>m, <2>1, <2>3, <3>1, <3>2, BusyMoves
  <2>4. QED
    BY <1>12, <2>2, <2>3 DEF W!Begin
<1>13. ASSUME NEW r \in ContextRequests, W!Fails(r) \/ W!Work(r) PROVE W!BusyInv'
  <2>1. PICK at \in {"failing", "working"} : W!Goto(r, at)
    BY <1>13 DEF W!Fails, W!Work
  <2>2. /\ v5[r].at = "begun" /\ UNCHANGED <<v1, v2, v4, v6, v7, v8>>
        /\ (v3' = v3 \/ v3' = [v3 EXCEPT ![v5[r].profile] = 0])
    BY <1>13 DEF W!Fails, W!Work
  <2>3. W!TypeOK'
    BY <1>0, <1>m, <2>1, <2>2, RuntimeAssumption DEF W!TypeOK
  <2>4. v2'.generation <= Cardinality(W!Finished')
    BY <1>0, <1>m, <2>1, <2>2, FinishedGrows DEF W!ContextRow
  <2>5. QED
    BY <1>m, <2>1, <2>2, <2>3, <2>4, BusyMoves
<1>14. ASSUME NEW r \in ContextRequests, W!MarkFailed(r) PROVE W!BusyInv'
  <2>1. v5[r].at = "failing" /\ W!Finish(r, "failed") /\ W!Goto(r, "refused") /\ UNCHANGED <<v1, v3, v4, v6, v7, v8>>
    BY <1>14 DEF W!MarkFailed
  <2>2. v2' \in W!ContextRow /\ v2'.status = "failed" /\ v2'.profile = v2.profile /\ v2'.generation = v2.generation
    BY <1>0, <2>1 DEF W!ContextRow, W!Finish
  <2>3. W!TypeOK'
    BY <1>0, <1>m, <2>1, <2>2 DEF W!TypeOK
  <2>4. v2'.generation <= Cardinality(W!Finished')
    BY <1>0, <1>m, <2>1, <2>2, FinishedGrows DEF W!ContextRow
  <2>5. QED
    BY <1>m, <2>1, <2>2, <2>3, <2>4, BusyMoves
<1>15. ASSUME NEW r \in ContextRequests, W!MarkCompleted(r) PROVE W!BusyInv'
  <2>1. v5[r].at = "working" /\ W!Finish(r, "completed") /\ W!Goto(r, "done") /\ UNCHANGED <<v1, v3, v4, v6, v7, v8>>
    BY <1>15 DEF W!MarkCompleted
  <2>2. v2.generation + 1 <= Cardinality(W!Finished') /\ Cardinality(W!Finished') <= Cardinality(ContextRequests)
        /\ v2.generation \in Nat /\ Cardinality(W!Finished') \in Nat
    BY <1>0, <1>m, <2>1, FinishedGrows, ContextCounts DEF W!ContextRow
  <2>3. /\ v2' \in W!ContextRow /\ v2'.status = "completed" /\ v2'.profile = v2.profile
        /\ v2'.generation = v2.generation + 1
    <3>1. v2' = [[[v2 EXCEPT !.status = "completed"] EXCEPT !.generation = v2.generation + 1]
                  EXCEPT !.used = v2.used /\ FALSE]
      BY <1>0, <2>1 DEF W!Finish, W!ContextRow
    <3>2. v2.generation + 1 \in 0..W!Cardinality(ContextRequests)
      BY <2>2, ContextCounts
    <3>3. (v2.used /\ FALSE) \in BOOLEAN
      OBVIOUS
    <3>4. QED
      BY <1>0, <3>1, <3>2, <3>3 DEF W!ContextRow
  <2>4. W!TypeOK'
    BY <1>0, <1>m, <2>1, <2>3 DEF W!TypeOK
  <2>5. QED
    BY <1>m, <2>1, <2>2, <2>3, <2>4, BusyMoves
<1>16. ASSUME NEW r \in ContextRequests, W!Drop(r) PROVE W!BusyInv'
  <2>1. /\ v5[r].at # "done" /\ W!Goto(r, "dropped") /\ v7 < ContextFaults /\ v7' = v7 + 1
        /\ UNCHANGED <<v1, v2, v3, v4, v6>>
    BY <1>16 DEF W!Drop, W!Unfinished
  <2>2. v8' \in BOOLEAN /\ (v8' = v8 \/ v8') /\ (v5[r].at \in {"begun", "working", "failing"} => v8')
    BY <1>0, <1>16 DEF W!Drop, W!TypeOK
  <2>3. W!TypeOK'
    BY <1>0, <1>m, <2>1, <2>2, RuntimeAssumption DEF W!TypeOK
  <2>4. v2'.generation <= Cardinality(W!Finished')
    BY <1>0, <1>m, <2>1, FinishedGrows DEF W!ContextRow
  <2>5. QED
    BY <1>m, <2>1, <2>2, <2>3, <2>4, BusyMoves
<1>17. CASE W!Restart
  <2>1. /\ v7 < ContextFaults /\ v7' = v7 + 1 /\ v4' = W!IdleTurn /\ UNCHANGED <<v1, v3, v6, v8>>
        /\ v2' = (IF v2.status = "running" THEN [v2 EXCEPT !.status = "failed"] ELSE v2)
        /\ v5' = W!Cut
    BY <1>17 DEF W!Restart
  <2>2. \A r \in ContextRequests :
          /\ v5'[r] \in W!RequestRow /\ v5'[r].at \in {"new", "done", "refused", "dropped"}
          /\ v5'[r].at = "done" <=> v5[r].at = "done"
    <3>1. ASSUME NEW r \in ContextRequests
          PROVE  /\ v5'[r] \in W!RequestRow /\ v5'[r].at \in {"new", "done", "refused", "dropped"}
                 /\ v5'[r].at = "done" <=> v5[r].at = "done"
      <4>1. v5[r] \in W!RequestRow
        BY <1>0
      <4>2. [v5[r] EXCEPT !.at = "dropped"] \in W!RequestRow /\ [v5[r] EXCEPT !.at = "dropped"].at = "dropped"
        BY <4>1 DEF W!RequestRow
      <4>3. v5'[r] = IF W!Unfinished(r) THEN [v5[r] EXCEPT !.at = "dropped"] ELSE v5[r]
        BY <2>1 DEF W!Cut
      <4>4. QED
        BY <4>1, <4>2, <4>3 DEF W!Unfinished
    <3>2. QED
      BY <3>1
  <2>3. v2' \in W!ContextRow /\ v2'.status # "running" /\ v2'.generation = v2.generation
    BY <1>0, <2>1 DEF W!ContextRow
  <2>4. W!TypeOK'
    BY <1>0, <2>1, <2>2, <2>3, RuntimeAssumption DEF W!TypeOK, W!Cut
  <2>5. W!Finished' = W!Finished /\ W!Operating' = {} /\ W!Loads' = {}
    BY <2>2 DEF W!Finished, W!Operating, W!Loads
  <2>6. QED
    BY <1>0, <2>3, <2>4, <2>5, ContextCounts DEF W!BusyInv, W!OneBusy
<1>18. CASE UNCHANGED W!vars
  <2>1. UNCHANGED <<v1, v2, v3, v4, v5, v6, v7, v8>>
    BY <1>18 DEF W!vars
  <2>2. W!TypeOK'
    BY <1>0, <2>1 DEF W!TypeOK
  <2>3. QED
    BY <2>1, <2>2, BusyStays
<1>19. QED
  BY <1>1, <1>2, <1>3, <1>4, <1>5, <1>6, <1>7, <1>8, <1>9, <1>10, <1>11, <1>12, <1>13, <1>14, <1>15, <1>16,
     <1>17, <1>18 DEF W!Next

(* The invariant of the working context gives BusyWhileOperating. *)
LEMMA BusyInvSuffices == W!BusyInv => W!BusyWhileOperating
<1> SUFFICES ASSUME W!BusyInv, ~v8
             PROVE  Cardinality(W!Operating) <= 1 /\ ((v2.status = "running") <=> (W!Operating # {}))
  BY ContextCounts DEF W!BusyWhileOperating
<1>1. (\A r, s \in W!Operating : r = s) /\ ((v2.status = "running") <=> (W!Operating # {}))
  BY DEF W!BusyInv, W!OneBusy
<1>2. CASE W!Operating = {}
  BY <1>1, <1>2, FS_EmptySet
<1>3. CASE W!Operating # {}
  <2>1. PICK r : W!Operating = {r}
    BY <1>1, <1>3
  <2>2. Cardinality(W!Operating) = 1
    BY <2>1, FS_Singleton
  <2>3. QED
    BY <1>1, <2>2
<1>4. QED
  BY <1>2, <1>3

(* The invariant of a behaviour of WorkingContext in the composition. *)
BusyInvHere == component = "context" => W!BusyInv

(* It holds in every state of a behaviour. *)
LEMMA ContextHolds == RuntimeSpec => []BusyInvHere
<1>1. RuntimeInit => BusyInvHere
  BY ContextInit DEF RuntimeInit, BusyInvHere
<1>2. BusyInvHere /\ [RuntimeNext]_all => BusyInvHere'
  <2> SUFFICES ASSUME BusyInvHere, [RuntimeNext]_all, component' = "context" PROVE W!BusyInv'
    BY DEF BusyInvHere
  <2>1. component = "context" /\ [W!Next]_W!vars
    BY DEF RuntimeNext, all, W!vars
  <2>2. QED
    BY <2>1, ContextStep DEF BusyInvHere
<1>3. QED
  BY <1>1, <1>2, PTL DEF RuntimeSpec

(* As long as nothing disturbs the row, a chat's context is busy exactly while one *)
(* operation works on it, for every number of profiles, requests, turns and faults *)
(* (begin_working_context_compaction).                                             *)
THEOREM BusyWhileOperatingAlways == RuntimeSpec => []BusyWhileOperating
<1>1. BusyInvHere => BusyWhileOperating
  BY BusyInvSuffices DEF BusyInvHere, BusyWhileOperating
<1>2. QED
  BY <1>1, ContextHolds, PTL

-----------------------------------------------------------------------------
(* RoutineJobs. Slots: v1 deleted, v2 status, v3 attempts, v4 cancel_requested, v5 *)
(* due, v6 recovered, v7 claimed, v8 task, v9 outcome, v10 routine_cancellations,  *)
(* v11 notified, v12 cancelling, v13 restarts.                                     *)

(* Cardinality means the same in the instance. *)
LEMMA JobCardinality == \A X : J!Cardinality(X) = Cardinality(X)
BY DEF J!Cardinality, Cardinality

(* What the constants of the jobs are. *)
LEMMA JobSets ==
  /\ IsFiniteSet(JobNames) /\ None \notin JobNames
  /\ \A j \in JobNames : J!Owner(j) \in JobRoutines /\ JobTrigger[j] \in JobTriggers
                          /\ JobLimit[JobTrigger[j]] \in Nat \ {0}
  /\ J!Running \subseteq JobNames /\ J!DueJobs \subseteq JobNames
  /\ \A r \in JobRoutines : J!AtWork(r) \subseteq JobNames
  /\ J!Waiting = {"queued", "retry_wait"}
  /\ J!TerminalStatus = {"succeeded", "failed", "cancelled", "skipped", "deleted"}
  /\ J!Outcomes = {"succeeded", "approval", "failed", "cancelled"}
BY RuntimeAssumption DEF J!Owner, J!Running, J!DueJobs, J!AtWork, J!Waiting, J!TerminalStatus, J!Outcomes

(* Where no task is added, some policy allows every group of tasks as before. *)
LEMMA WorkShrinks ==
  ASSUME J!SomePolicyAllows, \A r \in JobRoutines : J!AtWork(r)' \subseteq J!AtWork(r)
  PROVE  J!SomePolicyAllows'
BY DEF J!SomePolicyAllows

(* What LeavesDue does to the order of the due jobs. *)
LEMMA DueSettles ==
  ASSUME J!TypeOK, NEW gone, J!LeavesDue(gone)
  PROVE  /\ v5' \in [JobNames -> SUBSET JobNames]
         /\ \A j \in JobNames : v5'[j] = IF j \in gone THEN {} ELSE v5[j] \ gone
BY DEF J!TypeOK, J!LeavesDue

(* Jobs that leave the order leave it an order of waiting jobs. *)
LEMMA LeavingKeepsOrder ==
  ASSUME J!TypeOK, J!DueWait, NEW gone, J!LeavesDue(gone),
         \A j \in JobNames \ gone : v2'[j] = v2[j]
  PROVE  J!DueWait'
<1>1. \A j \in JobNames : v5'[j] = IF j \in gone THEN {} ELSE v5[j] \ gone
  BY DueSettles
<1>2. \A j \in J!DueJobs' : j \in JobNames /\ j \in J!DueJobs /\ j \notin gone /\ v2'[j] = v2[j]
  BY <1>1 DEF J!DueJobs
<1>3. \A j \in J!DueJobs' : j \in v5'[j] /\ v2'[j] \in J!Waiting
  <2> TAKE j \in J!DueJobs'
  <2>1. j \in JobNames /\ j \in J!DueJobs /\ j \notin gone /\ v2'[j] = v2[j]
    BY <1>2
  <2>2. v2[j] \in J!Waiting /\ j \in v5[j]
    BY <2>1 DEF J!DueWait
  <2>3. v5'[j] = v5[j] \ gone
    BY <1>1, <2>1
  <2>4. QED
    BY <2>1, <2>2, <2>3
<1>4. \A i, j \in J!DueJobs' : i \in v5'[j] \/ j \in v5'[i]
  <2> TAKE i, j \in J!DueJobs'
  <2>1. /\ i \in JobNames /\ i \in J!DueJobs /\ i \notin gone
        /\ j \in JobNames /\ j \in J!DueJobs /\ j \notin gone
    BY <1>2
  <2>2. i \in v5[j] \/ j \in v5[i]
    BY <2>1 DEF J!DueWait
  <2>3. v5'[j] = v5[j] \ gone /\ v5'[i] = v5[i] \ gone
    BY <1>1, <2>1
  <2>4. QED
    BY <2>1, <2>2, <2>3
<1>5. QED
  BY <1>3, <1>4 DEF J!DueWait

(* A waiting job that comes due is put behind the due ones. *)
LEMMA ComingKeepsOrder ==
  ASSUME J!TypeOK, J!DueWait, NEW j \in JobNames, J!ComesDue(j), v5[j] = {},
         v2'[j] \in J!Waiting, \A i \in JobNames \ {j} : v2'[i] = v2[i]
  PROVE  /\ v5' \in [JobNames -> SUBSET JobNames]
         /\ J!DueWait'
<1>1. v5' = [v5 EXCEPT ![j] = J!DueJobs \cup {j}] /\ J!DueJobs \subseteq JobNames
  BY JobSets DEF J!ComesDue
<1>2. v5' \in [JobNames -> SUBSET JobNames] /\ v5'[j] = J!DueJobs \cup {j}
  BY <1>1 DEF J!TypeOK
<1>3. \A i \in JobNames \ {j} : v5'[i] = v5[i]
  BY <1>1 DEF J!TypeOK
<1>4. \A i \in J!DueJobs' : i = j \/ (i # j /\ i \in J!DueJobs /\ v5'[i] = v5[i] /\ v2'[i] = v2[i])
  BY <1>3 DEF J!DueJobs
<1>5. J!DueWait'
  BY <1>2, <1>4 DEF J!DueWait
<1>6. QED
  BY <1>2, <1>5

(* The invariant of the jobs holds at first. *)
LEMMA JobsInit == J!Init => J!OverlapInv
<1> SUFFICES ASSUME J!Init PROVE J!OverlapInv
  OBVIOUS
<1>1. J!TypeOK
  <2>1. 0 \in 0..JobAttempts /\ 0 \in 0..JobRestarts
    BY RuntimeAssumption
  <2>2. v3 \in [JobNames -> 0..JobAttempts] /\ v13 \in 0..JobRestarts
    BY <2>1 DEF J!Init
  <2>3. QED
    BY <2>2 DEF J!Init, J!TypeOK
<1>2. \A r \in JobRoutines : J!AtWork(r) = {}
  BY RuntimeAssumption DEF J!Init, J!AtWork
<1>3. J!DueJobs = {}
  BY DEF J!Init, J!DueJobs
<1>4. J!DueWait
  BY <1>3 DEF J!DueWait
<1>5. J!SomePolicyAllows
  <2>1. \A r \in JobRoutines : \A works \in (SUBSET J!AtWork(r)) \ {{}} : FALSE
    <3> SUFFICES ASSUME NEW r \in JobRoutines, NEW works \in (SUBSET J!AtWork(r)) \ {{}} PROVE FALSE
      OBVIOUS
    <3>1. J!AtWork(r) = {}
      BY <1>2
    <3>2. works = {}
      BY <3>1
    <3>3. QED
      BY <3>2
  <2>2. QED
    BY <2>1 DEF J!SomePolicyAllows
<1>6. QED
  BY <1>1, <1>2, <1>4, <1>5 DEF J!OverlapInv, J!WorkIsRunning, J!NothingBeforeRecovery, J!ClaimedIsIdle, J!Init

(* A job that starts while fewer rows run than its own policy allows is itself the *)
(* one whose policy allows every group of tasks it is in.                          *)
LEMMA CardinalWork ==
  ASSUME J!TypeOK, J!WorkIsRunning, J!SomePolicyAllows, NEW j \in JobNames, j \notin J!Running,
         ~J!Blocked(j),
         \A r \in JobRoutines :
           J!AtWork(r)' \subseteq J!AtWork(r) \cup (IF J!Owner(j) = r THEN {j} ELSE {})
  PROVE  J!SomePolicyAllows'
<1> SUFFICES ASSUME NEW r \in JobRoutines, NEW works \in SUBSET (J!AtWork(r)'), works # {}
             PROVE  \E i \in works : J!Cardinality(works) <= JobLimit[JobTrigger[i]]
  BY DEF J!SomePolicyAllows
<1>1. CASE works \subseteq J!AtWork(r)
  BY <1>1 DEF J!SomePolicyAllows
<1>2. CASE ~(works \subseteq J!AtWork(r))
  <2> DEFINE others == {i \in J!Running : J!Owner(i) = r}
  <2>1. J!Owner(j) = r /\ j \in works /\ works \subseteq J!AtWork(r) \cup {j}
    BY <1>2
  <2>2. J!AtWork(r) \subseteq others
    BY DEF J!WorkIsRunning, J!AtWork
  <2>3. IsFiniteSet(others) /\ Cardinality(others) \in Nat
    BY JobSets, FS_Subset, FS_CardinalityType
  <2>4. IsFiniteSet(others \cup {j}) /\ Cardinality(others \cup {j}) <= Cardinality(others) + 1
    <3> HIDE DEF others
    <3>1. IsFiniteSet(others \cup {j})
      BY <2>3, FS_AddElement
    <3>2. Cardinality(others \cup {j}) = IF j \in others THEN Cardinality(others) ELSE Cardinality(others) + 1
      BY <2>3, FS_AddElement
    <3>3. QED
      BY <2>3, <3>1, <3>2
  <2>5. Cardinality(works) <= Cardinality(others) + 1 /\ Cardinality(works) \in Nat
    <3>1. works \in SUBSET (others \cup {j})
      BY <2>1, <2>2
    <3>2. Cardinality(works) <= Cardinality(others \cup {j}) /\ Cardinality(works) \in Nat
      BY <2>4, <3>1, FS_Subset, FS_CardinalityType
    <3>3. Cardinality(others \cup {j}) \in Nat
      BY <2>4, FS_CardinalityType
    <3>4. QED
      BY <2>3, <2>4, <3>2, <3>3
  <2>6. Cardinality(others) < JobLimit[JobTrigger[j]]
    <3>1. ~(Cardinality(others) >= JobLimit[JobTrigger[j]])
      BY <2>1, JobCardinality DEF J!Blocked
    <3>2. JobLimit[JobTrigger[j]] \in Nat
      BY JobSets
    <3>3. QED
      BY <2>3, <3>1, <3>2
  <2>7. Cardinality(works) <= JobLimit[JobTrigger[j]]
    <3> HIDE DEF others
    <3>1. JobLimit[JobTrigger[j]] \in Nat
      BY JobSets
    <3>2. QED
      BY <2>3, <2>5, <2>6, <3>1
  <2>8. QED
    BY <2>1, <2>7, JobCardinality
<1>3. QED
  BY <1>1, <1>2

(* A step that changes no task and ends no running row keeps the invariant. *)
LEMMA StillAllowed ==
  ASSUME J!OverlapInv, J!TypeOK', J!DueWait', v7' = v7, v8' = v8, v6' = v6,
         \A j \in J!Running : v2'[j] = "running"
  PROVE  J!OverlapInv'
<1>1. \A r \in JobRoutines : J!AtWork(r)' = J!AtWork(r)
  BY DEF J!AtWork, J!Owner
<1>2. J!Running \subseteq J!Running'
  BY DEF J!Running
<1>3. J!SomePolicyAllows'
  BY <1>1, WorkShrinks DEF J!OverlapInv
<1>4. J!WorkIsRunning' /\ J!NothingBeforeRecovery' /\ J!ClaimedIsIdle'
  BY <1>1, <1>2 DEF J!OverlapInv, J!WorkIsRunning, J!NothingBeforeRecovery, J!ClaimedIsIdle
<1>5. QED
  BY <1>3, <1>4 DEF J!OverlapInv

(* A claim starts one job at most, one that waited and is not blocked, and touches *)
(* no row that runs.                                                               *)
LEMMA ClaimStarts ==
  ASSUME J!OverlapInv, J!ClaimNext
  PROVE  /\ v6 /\ v7 = None /\ UNCHANGED <<v1, v4, v6, v8, v9, v10, v11, v12, v13>>
         /\ J!TypeOK' /\ J!DueWait'
         /\ \A j \in J!Running : v2'[j] = "running"
         /\ \/ v7' = None
            \/ \E j \in JobNames : /\ v7' = j /\ j \notin J!Running /\ ~J!Blocked(j)
                                  /\ v2'[j] = "running"
<1> DEFINE runs == {j \in J!InWindow : J!Claimable(j) /\ \A i \in v5[j] \ {j} : ~J!Claimable(i)}
           passed == {j \in J!InWindow : \A i \in runs : j # i /\ j \in v5[i]}
           failed == {j \in passed : J!Exhausted(j)}
           skipped == {j \in passed \ failed : J!Blocked(j) /\ JobTrigger[j] \in SkippingTriggers}
           gone == failed \cup skipped \cup runs
<1>1. /\ v2' = [j \in JobNames |-> CASE j \in runs -> "running"
                                     [] j \in failed -> "failed"
                                     [] j \in skipped -> "skipped"
                                     [] OTHER -> v2[j]]
      /\ v3' = [j \in JobNames |-> IF j \in runs THEN v3[j] + 1 ELSE v3[j]]
      /\ v7' = IF runs = {} THEN None ELSE CHOOSE j \in runs : TRUE
      /\ J!LeavesDue(gone)
      /\ v6 /\ v7 = None /\ UNCHANGED <<v1, v4, v6, v8, v9, v10, v11, v12, v13>>
  BY DEF J!ClaimNext, J!tasks
<1>2. J!InWindow \subseteq J!DueJobs /\ J!DueJobs \subseteq JobNames
  BY DEF J!InWindow, J!DueJobs
<1>3. J!TypeOK /\ J!DueWait
  BY DEF J!OverlapInv
<1>4. \A j \in J!DueJobs : v2[j] \in J!Waiting /\ v2[j] # "running" /\ j \notin J!Running
  BY <1>3, JobSets DEF J!DueWait, J!Running
<1>5. \A i, j \in runs : i = j
  <2> SUFFICES ASSUME NEW i \in runs, NEW j \in runs, i # j PROVE FALSE
    OBVIOUS
  <2>1. i \in v5[j] \/ j \in v5[i]
    BY <1>2, <1>3 DEF J!DueWait
  <2>2. QED
    BY <2>1
<1>6. \A j \in runs : j \in JobNames /\ j \in J!DueJobs /\ ~J!Exhausted(j) /\ ~J!Blocked(j)
  BY <1>2 DEF J!Claimable
<1>7. gone \subseteq J!DueJobs
  BY <1>2
<1>a. \A j \in runs : j \notin failed /\ j \notin skipped
  OBVIOUS
<1> HIDE DEF gone, failed, skipped, passed, runs
<1>8. \A j \in JobNames \ gone : v2'[j] = v2[j]
  BY <1>1 DEF gone
<1>10. \A j \in J!Running : v2'[j] = "running"
  BY <1>4, <1>7, <1>8, JobSets DEF J!Running
<1>11. v2' \in [JobNames -> {"none", "running"} \cup J!Waiting \cup J!TerminalStatus]
  BY <1>1, <1>3, JobSets DEF J!TypeOK
<1>12. v3' \in [JobNames -> 0..JobAttempts]
  <2>1. \A j \in JobNames : v3[j] \in 0..JobAttempts
    BY <1>3 DEF J!TypeOK
  <2>2. \A j \in runs : v3[j] + 1 \in 0..JobAttempts
    BY <1>6, <2>1, RuntimeAssumption DEF J!Exhausted
  <2>3. QED
    BY <1>1, <2>1, <2>2
<1>13. runs # {} => v7' \in runs
  BY <1>1
<1>14. v7' \in JobNames \cup {None}
  BY <1>1, <1>6, <1>13
<1>15. J!TypeOK'
  BY <1>1, <1>3, <1>11, <1>12, <1>14, DueSettles DEF J!TypeOK
<1>16. J!DueWait'
  BY <1>1, <1>3, <1>8, LeavingKeepsOrder
<1>17. \/ v7' = None
       \/ \E j \in JobNames : /\ v7' = j /\ j \notin J!Running /\ ~J!Blocked(j)
                             /\ v2'[j] = "running"
  <2>1. CASE runs = {}
    BY <1>1, <2>1
  <2>2. CASE runs # {}
    <3>1. PICK j \in runs : v7' = j
      BY <1>13, <2>2
    <3>2. j \in JobNames /\ j \notin J!Running /\ ~J!Blocked(j)
      BY <1>4, <1>6
    <3>3. v2'[j] = "running"
      BY <1>1, <1>a, <3>2
    <3>4. QED
      BY <3>1, <3>2, <3>3
  <2>3. QED
    BY <2>1, <2>2
<1>18. QED
  BY <1>1, <1>10, <1>15, <1>16, <1>17

(* A claim keeps the invariant. *)
LEMMA ClaimKeeps ==
  ASSUME J!OverlapInv, J!ClaimNext
  PROVE  J!OverlapInv'
<1>1. /\ v6 /\ v7 = None /\ UNCHANGED <<v6, v8>>
      /\ J!TypeOK' /\ J!DueWait' /\ \A j \in J!Running : v2'[j] = "running"
  BY ClaimStarts
<1>2. J!NothingBeforeRecovery'
  BY <1>1 DEF J!NothingBeforeRecovery
<1>3. J!Running \subseteq J!Running'
  BY <1>1 DEF J!Running
<1>4. J!ClaimedIsIdle'
  <2>1. \A i \in JobNames : v8[i] # "none" => i \in J!Running
    <3> SUFFICES ASSUME NEW i \in JobNames, v8[i] # "none" PROVE i \in J!Running
      OBVIOUS
    <3>1. i \in J!AtWork(J!Owner(i)) /\ J!Owner(i) \in JobRoutines
      BY JobSets DEF J!AtWork
    <3>2. QED
      BY <3>1 DEF J!OverlapInv, J!WorkIsRunning
  <2>2. \A i \in J!Running : v7' # i
    BY ClaimStarts, JobSets
  <2>3. QED
    BY <1>1, <2>1, <2>2 DEF J!ClaimedIsIdle
<1>5. CASE v7' = None
  <2>1. \A r \in JobRoutines : J!AtWork(r)' \subseteq J!AtWork(r)
    BY <1>1, <1>5, JobSets DEF J!AtWork, J!Owner
  <2>2. J!WorkIsRunning'
    BY <1>3, <2>1 DEF J!WorkIsRunning, J!OverlapInv
  <2>3. QED
    BY <1>1, <1>2, <1>4, <2>1, <2>2, WorkShrinks DEF J!OverlapInv
<1>6. CASE v7' # None
  <2>0. PICK j \in JobNames : v7' = j /\ j \notin J!Running /\ ~J!Blocked(j) /\ v2'[j] = "running"
    BY <1>6, ClaimStarts
  <2>1. \A r \in JobRoutines : J!AtWork(r)' \subseteq J!AtWork(r) \cup (IF J!Owner(j) = r THEN {j} ELSE {})
    BY <1>1, <2>0 DEF J!AtWork, J!Owner
  <2>2. J!WorkIsRunning'
    BY <1>3, <2>0, <2>1 DEF J!WorkIsRunning, J!OverlapInv, J!Running
  <2>3. J!SomePolicyAllows'
    BY <2>0, <2>1, CardinalWork DEF J!OverlapInv
  <2>4. QED
    BY <1>1, <1>2, <1>4, <2>2, <2>3 DEF J!OverlapInv
<1>7. QED
  BY <1>5, <1>6

(* Recovery keeps the invariant: nothing is at work when it takes the running rows *)
(* back.                                                                           *)
LEMMA RecoverKeeps ==
  ASSUME J!OverlapInv, J!Recover
  PROVE  J!OverlapInv'
<1> DEFINE again == J!Running \ v4
<1>1. /\ ~v6 /\ v6' = TRUE /\ UNCHANGED <<v1, v3, v4, v7, v8, v9, v10, v11, v12, v13>>
      /\ v2' = [j \in JobNames |-> IF j \notin J!Running THEN v2[j]
                                  ELSE IF j \in v4 THEN "cancelled" ELSE "retry_wait"]
  BY DEF J!Recover, J!tasks
<1>2. PICK rank \in J!Injection(again, 1 .. J!Cardinality(again)) :
        v5' = [j \in JobNames |-> IF j \notin again THEN v5[j]
                                 ELSE J!DueJobs \cup {i \in again : rank[i] <= rank[j]}]
  BY DEF J!Recover
<1>3. again \subseteq JobNames /\ IsFiniteSet(again) /\ J!Cardinality(again) \in Nat
  BY JobSets, FS_Subset, FS_CardinalityType, JobCardinality
<1>4. \A i \in again : rank[i] \in Int
  BY <1>2, <1>3 DEF J!Injection, J!IsInjective
<1>5. J!TypeOK /\ J!DueWait
  BY DEF J!OverlapInv
<1>6. \A j \in J!DueJobs : j \in JobNames /\ j \notin again /\ v2[j] \in J!Waiting /\ j \notin J!Running
  BY <1>5, JobSets DEF J!DueWait, J!Running
<1> HIDE DEF again
<1>7. v5' \in [JobNames -> SUBSET JobNames]
  BY <1>2, <1>3, <1>5, JobSets DEF J!TypeOK
<1>8. J!TypeOK'
  BY <1>1, <1>5, <1>7, JobSets DEF J!TypeOK
<1>9. \A j \in again : v5'[j] = J!DueJobs \cup {i \in again : rank[i] <= rank[j]} /\ v2'[j] = "retry_wait"
  BY <1>1, <1>2, <1>3 DEF again
<1>b. \A j \in again : \A k \in J!DueJobs : k \in v5'[j]
  BY <1>9
<1>c. \A j, k \in again : rank[k] <= rank[j] => k \in v5'[j]
  BY <1>9
<1>10. \A j \in JobNames \ again : v5'[j] = v5[j]
  BY <1>2
<1>11. \A j \in J!DueJobs' : j \in again \/ (j \in J!DueJobs /\ v5'[j] = v5[j] /\ v2'[j] = v2[j])
  BY <1>1, <1>6, <1>10 DEF J!DueJobs
<1>12. J!DueWait'
  <2> SUFFICES ASSUME NEW i \in J!DueJobs', NEW j \in J!DueJobs'
               PROVE  v2'[j] \in J!Waiting /\ j \in v5'[j] /\ (i \in v5'[j] \/ j \in v5'[i])
    BY DEF J!DueWait
  <2>1. v2'[j] \in J!Waiting /\ j \in v5'[j]
    BY <1>4, <1>5, <1>9, <1>11, JobSets DEF J!DueWait
  <2>2. CASE i \in again /\ j \in again
    <3>1. rank[i] <= rank[j] \/ rank[j] <= rank[i]
      BY <1>4, <2>2
    <3>2. QED
      BY <1>c, <2>1, <2>2, <3>1
  <2>3. CASE i \notin again /\ j \in again
    BY <1>b, <1>11, <2>1, <2>3
  <2>4. CASE i \in again /\ j \notin again
    BY <1>b, <1>11, <2>1, <2>4
  <2>5. CASE i \notin again /\ j \notin again
    BY <1>5, <1>11, <2>5 DEF J!DueWait
  <2>6. QED
    BY <2>1, <2>2, <2>3, <2>4, <2>5
<1>13. \A r \in JobRoutines : J!AtWork(r) = {} /\ J!AtWork(r)' = J!AtWork(r)
  BY <1>1 DEF J!OverlapInv, J!NothingBeforeRecovery, J!AtWork, J!Owner
<1>14. J!SomePolicyAllows'
  BY <1>13, WorkShrinks DEF J!OverlapInv
<1>15. J!WorkIsRunning' /\ J!NothingBeforeRecovery' /\ J!ClaimedIsIdle'
  BY <1>1, <1>13 DEF J!WorkIsRunning, J!NothingBeforeRecovery, J!ClaimedIsIdle, J!OverlapInv
<1>16. QED
  BY <1>8, <1>12, <1>14, <1>15 DEF J!OverlapInv

(* A step of the tasks that writes no row and adds no task keeps the invariant. *)
LEMMA TasksKeep ==
  ASSUME J!OverlapInv, v5' = v5, v2' = v2, v6' = v6, J!TypeOK', J!ClaimedIsIdle',
         \A r \in JobRoutines : J!AtWork(r)' \subseteq J!AtWork(r)
  PROVE  J!OverlapInv'
<1>1. J!DueWait'
  BY DEF J!OverlapInv, J!DueWait, J!DueJobs
<1>2. J!Running' = J!Running
  BY DEF J!Running
<1>3. J!WorkIsRunning' /\ J!NothingBeforeRecovery'
  BY <1>2 DEF J!OverlapInv, J!WorkIsRunning, J!NothingBeforeRecovery
<1>4. QED
  BY <1>1, <1>3, WorkShrinks DEF J!OverlapInv

(* A report keeps the invariant. *)
LEMMA ReportKeeps ==
  ASSUME J!OverlapInv, NEW j \in JobNames, J!Report(j)
  PROVE  J!OverlapInv'
<1>1. J!TypeOK /\ J!DueWait
  BY DEF J!OverlapInv
<1>2. /\ v8[j] = "reporting" /\ UNCHANGED <<v1, v3, v4, v5, v6, v7, v10, v11, v12, v13>>
      /\ v8' = [v8 EXCEPT ![j] = "none"] /\ v9' = [v9 EXCEPT ![j] = "none"]
  BY DEF J!Report
<1>3. PICK s : v2' = [v2 EXCEPT ![j] = s] /\ s = CASE v2[j] # "running" -> v2[j]
                                               [] v9[j] = "approval" -> "failed"
                                               [] v9[j] = "failed" /\ ~J!Exhausted(j) -> "retry_wait"
                                               [] OTHER -> v9[j]
  BY DEF J!Report
<1>4. v2[j] = "running"
  <2>1. j \in J!AtWork(J!Owner(j)) /\ J!Owner(j) \in JobRoutines
    BY <1>2, JobSets DEF J!AtWork
  <2>2. QED
    BY <2>1 DEF J!OverlapInv, J!WorkIsRunning, J!Running
<1>5. s \in {"none"} \cup J!Waiting \cup J!TerminalStatus /\ s # "running"
  <2>1. v9[j] \in {"none"} \cup J!Outcomes
    BY <1>1 DEF J!TypeOK
  <2>2. QED
    BY <1>3, <1>4, <2>1, JobSets
<1>6. v2' \in [JobNames -> {"none", "running"} \cup J!Waiting \cup J!TerminalStatus]
  BY <1>1, <1>3, <1>5 DEF J!TypeOK
<1>7. J!TypeOK'
  BY <1>1, <1>2, <1>6, JobSets DEF J!TypeOK
<1>8. v2'[j] = s /\ \A i \in JobNames \ {j} : v2'[i] = v2[i]
  BY <1>1, <1>3 DEF J!TypeOK
<1>9. J!DueWait'
  <2>1. J!DueJobs' = J!DueJobs /\ j \notin J!DueJobs
    BY <1>1, <1>2, <1>4, JobSets DEF J!DueJobs, J!DueWait
  <2>2. \A i \in J!DueJobs : v2'[i] = v2[i]
    BY <1>8, <2>1, JobSets
  <2>3. QED
    BY <1>1, <1>2, <2>1, <2>2 DEF J!DueWait
<1>10. v8'[j] = "none" /\ \A i \in JobNames \ {j} : v8'[i] = v8[i]
  BY <1>1, <1>2 DEF J!TypeOK
<1>11. v7 # j /\ J!ClaimedIsIdle'
  BY <1>2, <1>10 DEF J!ClaimedIsIdle, J!OverlapInv
<1>12. \A r \in JobRoutines : J!AtWork(r)' \subseteq J!AtWork(r) \ {j}
  BY <1>2, <1>10, <1>11 DEF J!AtWork, J!Owner
<1>13. J!Running \ {j} \subseteq J!Running'
  BY <1>8 DEF J!Running
<1>14. J!WorkIsRunning'
  BY <1>12, <1>13 DEF J!OverlapInv, J!WorkIsRunning
<1>15. J!NothingBeforeRecovery'
  BY <1>2, <1>12 DEF J!OverlapInv, J!NothingBeforeRecovery
<1>16. J!SomePolicyAllows'
  BY <1>12, WorkShrinks DEF J!OverlapInv
<1>17. QED
  BY <1>4, <1>7, <1>8, <1>9, <1>11, <1>14, <1>15, <1>16 DEF J!OverlapInv

(* Every step keeps the invariant of the jobs. *)
LEMMA JobsStep == J!OverlapInv /\ [J!Next]_J!vars => J!OverlapInv'
<1> SUFFICES ASSUME J!OverlapInv, [J!Next]_J!vars PROVE J!OverlapInv'
  OBVIOUS
<1>0. J!TypeOK /\ J!DueWait /\ J!ClaimedIsIdle
  BY DEF J!OverlapInv
<1>1. CASE J!Recover
  BY <1>1, RecoverKeeps DEF J!Recover
<1>2. CASE J!ClaimNext
  BY <1>2, ClaimKeeps
<1>3. CASE J!Spawn
  <2>1. /\ v7 \in JobNames /\ v7' = None /\ v8' = [v8 EXCEPT ![v7] = "executing"]
        /\ UNCHANGED <<v1, v2, v3, v4, v5, v6, v9, v12, v13>>
    BY <1>0, <1>3 DEF J!Spawn, J!TypeOK, J!rows
  <2>2. /\ v8' \in [JobNames -> {"none", "executing", "ended", "reporting"}]
        /\ \A j \in JobNames : v8'[j] = IF j = v7 THEN "executing" ELSE v8[j]
    BY <1>0, <2>1 DEF J!TypeOK
  <2>3. v10' \subseteq JobNames /\ v11' \subseteq JobNames
    BY <1>0, <1>3, <2>1 DEF J!Spawn, J!TypeOK
  <2>4. J!TypeOK'
    BY <1>0, <2>1, <2>2, <2>3 DEF J!TypeOK
  <2>5. J!ClaimedIsIdle'
    BY <2>1, JobSets DEF J!ClaimedIsIdle
  <2>6. \A r \in JobRoutines : J!AtWork(r)' \subseteq J!AtWork(r)
    BY <2>1, <2>2, JobSets DEF J!AtWork, J!Owner
  <2>7. QED
    BY <2>1, <2>4, <2>5, <2>6, TasksKeep
<1>4. ASSUME NEW j \in JobNames, J!Enqueue(j) PROVE J!OverlapInv'
  <2>1. /\ v2[j] = "none" /\ v2' = [v2 EXCEPT ![j] = "queued"] /\ J!ComesDue(j)
        /\ UNCHANGED <<v1, v3, v4, v6, v7, v8, v9, v10, v11, v12, v13>>
    BY <1>4 DEF J!Enqueue, J!tasks
  <2>2. v2' \in [JobNames -> {"none", "running"} \cup J!Waiting \cup J!TerminalStatus]
        /\ v2'[j] = "queued" /\ \A i \in JobNames \ {j} : v2'[i] = v2[i]
    BY <1>0, <2>1, JobSets DEF J!TypeOK
  <2>3. v5[j] = {}
    BY <1>0, <2>1, JobSets DEF J!DueWait, J!DueJobs
  <2>4. v5' \in [JobNames -> SUBSET JobNames] /\ J!DueWait'
    BY <1>0, <2>1, <2>2, <2>3, ComingKeepsOrder, JobSets
  <2>5. J!TypeOK'
    BY <1>0, <2>1, <2>2, <2>4 DEF J!TypeOK
  <2>6. \A i \in J!Running : v2'[i] = "running"
    BY <2>1, <2>2 DEF J!Running
  <2>7. QED
    BY <2>1, <2>2, <2>4, <2>5, <2>6, StillAllowed
<1>5. ASSUME NEW j \in JobNames, J!BecomeDue(j) PROVE J!OverlapInv'
  <2>1. /\ v2[j] = "retry_wait" /\ v5[j] = {} /\ J!ComesDue(j)
        /\ UNCHANGED <<v1, v2, v3, v4, v6, v7, v8, v9, v10, v11, v12, v13>>
    BY <1>5 DEF J!BecomeDue, J!tasks, J!DueJobs
  <2>2. v5' \in [JobNames -> SUBSET JobNames] /\ J!DueWait'
    BY <1>0, <2>1, ComingKeepsOrder, JobSets
  <2>3. J!TypeOK'
    BY <1>0, <2>1, <2>2 DEF J!TypeOK
  <2>4. \A i \in J!Running : v2'[i] = "running"
    BY <2>1 DEF J!Running
  <2>5. QED
    BY <2>1, <2>2, <2>3, <2>4, StillAllowed
<1>6. ASSUME NEW j \in JobNames, J!Ends(j) PROVE J!OverlapInv'
  <2>1. PICK o \in J!Outcomes : v9' = [v9 EXCEPT ![j] = o]
    BY <1>6 DEF J!Ends
  <2>2. /\ v8[j] = "executing" /\ v8' = [v8 EXCEPT ![j] = "ended"]
        /\ UNCHANGED <<v1, v2, v3, v4, v5, v6, v7, v10, v11, v12, v13>>
    BY <1>6 DEF J!Ends, J!rows
  <2>3. \A i \in JobNames : v8'[i] # "none" => v8[i] # "none"
    BY <1>0, <2>2 DEF J!TypeOK
  <2>4. J!TypeOK'
    BY <1>0, <2>1, <2>2, JobSets DEF J!TypeOK
  <2>5. J!ClaimedIsIdle'
    BY <1>0, <2>2, <2>3 DEF J!ClaimedIsIdle
  <2>6. \A r \in JobRoutines : J!AtWork(r)' \subseteq J!AtWork(r)
    BY <2>2, <2>3 DEF J!AtWork, J!Owner
  <2>7. QED
    BY <2>2, <2>4, <2>5, <2>6, TasksKeep
<1>7. ASSUME NEW j \in JobNames, J!Unregister(j) PROVE J!OverlapInv'
  <2>1. /\ v8[j] = "ended" /\ v8' = [v8 EXCEPT ![j] = "reporting"]
        /\ v10' = v10 \ {j} /\ v11' = v11 \ {j}
        /\ UNCHANGED <<v1, v2, v3, v4, v5, v6, v7, v9, v12, v13>>
    BY <1>7 DEF J!Unregister, J!rows
  <2>2. \A i \in JobNames : v8'[i] # "none" => v8[i] # "none"
    BY <1>0, <2>1 DEF J!TypeOK
  <2>3. J!TypeOK'
    BY <1>0, <2>1 DEF J!TypeOK
  <2>4. J!ClaimedIsIdle'
    BY <1>0, <2>1, <2>2 DEF J!ClaimedIsIdle
  <2>5. \A r \in JobRoutines : J!AtWork(r)' \subseteq J!AtWork(r)
    BY <2>1, <2>2 DEF J!AtWork, J!Owner
  <2>6. QED
    BY <2>1, <2>3, <2>4, <2>5, TasksKeep
<1>8. ASSUME NEW j \in JobNames, J!Report(j) PROVE J!OverlapInv'
  BY <1>8, ReportKeeps
<1>9. ASSUME NEW g \in JobTriggers, J!DeleteTrigger(g) PROVE J!OverlapInv'
  BY <1>9 DEF J!DeleteTrigger
<1>10. ASSUME NEW c \in JobCancels, J!CancelNotify(c) PROVE J!OverlapInv'
  <2>1. /\ v11' = v11 \cup ({v12[c]} \cap v10) /\ v12' = [v12 EXCEPT ![c] = None]
        /\ UNCHANGED <<v1, v2, v3, v4, v5, v6, v7, v8, v9, v10, v13>>
    BY <1>10 DEF J!CancelNotify, J!rows
  <2>2. J!TypeOK'
    BY <1>0, <2>1 DEF J!TypeOK
  <2>3. J!ClaimedIsIdle' /\ \A r \in JobRoutines : J!AtWork(r)' \subseteq J!AtWork(r)
    BY <1>0, <2>1 DEF J!ClaimedIsIdle, J!AtWork, J!Owner
  <2>4. QED
    BY <2>1, <2>2, <2>3, TasksKeep
<1>11. ASSUME NEW c \in JobCancels, NEW j \in JobNames, J!CancelRow(c, j)
       PROVE  J!OverlapInv'
  <2>1. /\ v4' = v4 \cup {j} /\ v12' = [v12 EXCEPT ![c] = j]
        /\ UNCHANGED <<v1, v3, v6, v7, v8, v9, v10, v11, v13>>
    BY <1>11 DEF J!CancelRow, J!tasks
  <2>2. CASE v2[j] \in J!Waiting
    <3>1. v2' = [v2 EXCEPT ![j] = "cancelled"] /\ J!LeavesDue({j})
      BY <1>11, <2>2 DEF J!CancelRow
    <3>2. v2' \in [JobNames -> {"none", "running"} \cup J!Waiting \cup J!TerminalStatus]
          /\ v2'[j] = "cancelled" /\ \A i \in JobNames \ {j} : v2'[i] = v2[i]
      BY <1>0, <3>1, JobSets DEF J!TypeOK
    <3>3. v5' \in [JobNames -> SUBSET JobNames]
      BY <1>0, <3>1, DueSettles
    <3>4. J!DueWait'
      BY <1>0, <3>1, <3>2, LeavingKeepsOrder
    <3>5. J!TypeOK'
      BY <1>0, <2>1, <3>2, <3>3 DEF J!TypeOK
    <3>6. \A i \in J!Running : v2'[i] = "running"
      BY <2>2, <3>2, JobSets DEF J!Running
    <3>7. QED
      BY <2>1, <3>2, <3>4, <3>5, <3>6, StillAllowed
  <2>3. CASE v2[j] \notin J!Waiting
    <3>1. v2' = v2 /\ v5' = v5
      BY <1>11, <2>3 DEF J!CancelRow
    <3>2. J!TypeOK'
      BY <1>0, <2>1, <3>1 DEF J!TypeOK
    <3>3. J!ClaimedIsIdle' /\ \A r \in JobRoutines : J!AtWork(r)' \subseteq J!AtWork(r)
      BY <1>0, <2>1 DEF J!ClaimedIsIdle, J!AtWork, J!Owner
    <3>4. QED
      BY <2>1, <3>1, <3>2, <3>3, TasksKeep
  <2>4. QED
    BY <2>2, <2>3
<1>12. CASE J!Restart
  <2>1. /\ v6' = FALSE /\ v7' = None /\ v8' = [j \in JobNames |-> "none"]
        /\ UNCHANGED <<v1, v2, v3, v4, v5>>
    BY <1>12 DEF J!Restart, J!rows
  <2>2. /\ v9' = [j \in JobNames |-> "none"] /\ v10' = {} /\ v11' = {}
        /\ v12' = [c \in JobCancels |-> None] /\ v13' \in 0..JobRestarts
    BY <1>0, <1>12, RuntimeAssumption DEF J!Restart, J!TypeOK
  <2>3. J!TypeOK'
    BY <1>0, <2>1, <2>2 DEF J!TypeOK
  <2>4. \A r \in JobRoutines : J!AtWork(r)' = {}
    BY <2>1, JobSets DEF J!AtWork
  <2>5. J!DueWait'
    BY <1>0, <2>1 DEF J!DueWait, J!DueJobs
  <2>6. J!WorkIsRunning' /\ J!NothingBeforeRecovery' /\ J!ClaimedIsIdle'
    BY <2>1, <2>4 DEF J!WorkIsRunning, J!NothingBeforeRecovery, J!ClaimedIsIdle
  <2>7. J!SomePolicyAllows'
    BY <2>4, WorkShrinks DEF J!OverlapInv
  <2>8. QED
    BY <2>1, <2>3, <2>5, <2>6, <2>7 DEF J!OverlapInv
<1>13. CASE UNCHANGED J!vars
  <2>1. UNCHANGED <<v1, v2, v3, v4, v5, v6, v7, v8, v9, v10, v11, v12, v13>>
    BY <1>13 DEF J!vars, J!rows, J!tasks
  <2>2. J!TypeOK'
    BY <1>0, <2>1 DEF J!TypeOK
  <2>3. J!ClaimedIsIdle' /\ \A r \in JobRoutines : J!AtWork(r)' \subseteq J!AtWork(r)
    BY <1>0, <2>1 DEF J!ClaimedIsIdle, J!AtWork, J!Owner
  <2>4. QED
    BY <2>1, <2>2, <2>3, TasksKeep
<1>14. QED
  BY <1>1, <1>2, <1>3, <1>4, <1>5, <1>6, <1>7, <1>8, <1>9, <1>10, <1>11, <1>12, <1>13
     DEF J!Next, J!SchedulerStep, J!TaskStep

(* The invariant gives OverlapRespected. *)
LEMMA OverlapInvSuffices == J!OverlapInv => J!OverlapRespected
<1> SUFFICES ASSUME J!OverlapInv, NEW r \in JobRoutines, J!AtWork(r) # {}
             PROVE  \E j \in J!AtWork(r) : J!Cardinality(J!AtWork(r)) <= JobLimit[JobTrigger[j]]
  BY DEF J!OverlapRespected
<1>1. QED
  BY DEF J!OverlapInv, J!SomePolicyAllows

(* The invariant of a behaviour of RoutineJobs in the composition. *)
OverlapInvHere == component = "jobs" => J!OverlapInv

(* It holds in every state of a behaviour. *)
LEMMA JobsHold == RuntimeSpec => []OverlapInvHere
<1>1. RuntimeInit => OverlapInvHere
  BY JobsInit DEF RuntimeInit, OverlapInvHere
<1>2. OverlapInvHere /\ [RuntimeNext]_all => OverlapInvHere'
  <2> SUFFICES ASSUME OverlapInvHere, [RuntimeNext]_all, component' = "jobs" PROVE J!OverlapInv'
    BY DEF OverlapInvHere
  <2>1. component = "jobs" /\ [J!Next]_J!vars
    BY DEF RuntimeNext, all, J!vars, J!rows, J!tasks
  <2>2. QED
    BY <2>1, JobsStep DEF OverlapInvHere
<1>3. QED
  BY <1>1, <1>2, PTL DEF RuntimeSpec

(* The tasks at work on a routine are never more than the most permissive overlap *)
(* policy among them allows, for every number of jobs, triggers, cancel requests  *)
(* and restarts, where no trigger is deleted (claim_next_routine_job,             *)
(* recover_interrupted_routine_jobs).                                             *)
THEOREM OverlapRespectedAlways == RuntimeSpec => []OverlapRespected
<1>1. OverlapInvHere => OverlapRespected
  BY OverlapInvSuffices DEF OverlapInvHere, OverlapRespected
<1>2. QED
  BY <1>1, JobsHold, PTL

(* No job that its row shows as waiting, cancelled or otherwise over has a task at *)
(* work, for every number of jobs, triggers, cancel requests and restarts, where   *)
(* no trigger is deleted (execute_claimed_job, cancel_routine_job,                 *)
(* finish_routine_job, retry_or_fail_routine_job).                                 *)
THEOREM WorkIsShownAlways == RuntimeSpec => []WorkIsShown
<1>1. OverlapInvHere => WorkIsShown
  <2> SUFFICES ASSUME J!OverlapInv, NEW j \in JobNames, v8[j] # "none" \/ j = v7
               PROVE  v2[j] = "running"
    BY DEF OverlapInvHere, WorkIsShown, J!WorkIsShown
  <2>1. J!Owner(j) \in JobRoutines /\ j \in J!AtWork(J!Owner(j))
    BY JobSets DEF J!AtWork
  <2>2. QED
    BY <2>1 DEF J!OverlapInv, J!WorkIsRunning, J!Running
<1>2. QED
  BY <1>1, JobsHold, PTL

-----------------------------------------------------------------------------
(* Numbers have a least one among them, and one above all *)
(* others if they are bounded.                                                       *)
LEMMA LeastOne ==
  ASSUME NEW batch, batch \subseteq Nat, batch # {}
  PROVE  \E m \in batch : \A k \in batch : m <= k
<1> DEFINE Below == {p \in Nat \X Nat : p[1] < p[2]}
<1>1. IsWellFoundedOn(Below, Nat)
  <2>1. OpToRel(<, Nat) = Below
    BY Zenon DEF OpToRel
  <2>2. QED
    BY <2>1, NatLessThanWellFounded, Zenon
<1>2. PICK m \in batch : \A k \in batch : ~(<<k, m>> \in Below)
  BY <1>1, WFMin
<1>3. ASSUME NEW k \in batch PROVE m <= k
  <2>1. m \in Nat /\ k \in Nat /\ <<k, m>> \in Nat \X Nat
    OBVIOUS
  <2>2. ~(k < m)
    BY <1>2, <2>1
  <2>3. QED
    BY <2>1, <2>2
<1>4. QED
  BY <1>3

LEMMA LastOne ==
  ASSUME NEW n \in Nat, NEW batch, batch \subseteq 0..n, batch # {}
  PROVE  \E m \in batch : \A k \in batch : k <= m
<1> DEFINE Mirrored == {x \in 0..n : n - x \in batch}
<1>1. Mirrored \subseteq Nat /\ Mirrored # {}
  <2>1. PICK k \in batch : TRUE
    OBVIOUS
  <2>2. k \in 0..n /\ n - k \in 0..n /\ n - (n - k) = k
    OBVIOUS
  <2>3. n - k \in Mirrored
    BY <2>1, <2>2
  <2>4. QED
    BY <2>3
<1>2. \A k \in batch : n - k \in Mirrored /\ k \in 0..n
  <2>1. ASSUME NEW k \in batch PROVE n - k \in Mirrored /\ k \in 0..n
    <3>1. k \in 0..n /\ n - k \in 0..n /\ n - (n - k) = k
      OBVIOUS
    <3>2. QED
      BY <3>1
  <2>2. QED
    BY <2>1
<1>3. \A x \in Mirrored : x \in 0..n /\ n - x \in batch
  OBVIOUS
<1> HIDE DEF Mirrored
<1>4. PICK x \in Mirrored : \A y \in Mirrored : x <= y
  BY <1>1, LeastOne
<1>5. ASSUME NEW k \in batch PROVE k <= n - x
  <2>1. x <= n - k /\ x \in 0..n /\ k \in 0..n
    BY <1>2, <1>3, <1>4
  <2>2. QED
    BY <2>1
<1>6. QED
  BY <1>3, <1>5

(* The first and the last of a batch are in its key, and in every batch of that key. *)
LEMMA KeyEnds ==
  ASSUME NEW batch, batch \subseteq Nat, NEW a \in batch, NEW b \in batch,
         \A k \in batch : a <= k /\ k <= b,
         NEW taken, E!KeyOf(taken) = E!KeyOf(batch)
  PROVE  a \in taken /\ b \in taken
<1>1. a \in E!KeyOf(batch) /\ b \in E!KeyOf(batch)
  BY DEF E!KeyOf
<1>2. a \in E!KeyOf(taken) /\ b \in E!KeyOf(taken)
  BY <1>1
<1>3. QED
  BY <1>2 DEF E!KeyOf

-----------------------------------------------------------------------------
(* Triggers. Slots: v1 enabled, v2 armed, v3 log, v4 cursor, v5 now, v6 evaluated, v7 *)
(* jobs, v8 pass, v9 request, v10 dropped, v11 answered, v12 bound.                   *)

LEMMA TriggerTypes ==
  ASSUME E!TypeOK
  PROVE  /\ v12 \in TriggerBounds /\ v12.events \in Nat /\ v12.time \in Nat
         /\ v12.kinds \subseteq E!Kinds /\ v12.deliveries \subseteq Nat
         /\ v3 \in Seq(BOOLEAN) /\ Len(v3) \in Nat /\ DOMAIN v3 = 1..Len(v3)
         /\ v4 \in Nat /\ v4 <= Len(v3) /\ v5 \in Nat /\ v6 \in Nat /\ v6 <= v5
         /\ v5 <= v12.time /\ Len(v3) <= v12.events
         /\ \A g \in E!Kinds : v2[g] \in Int
BY DeliveryAssumption DEF E!TypeOK, E!Gone

(* What a delivery is, and an instant of the schedule, in the terms of the slots. *)
Served(J0, g, i) == \E job \in J0 : job.of = g /\ i \in job.events
Grid(n) == {o \in 1..n : (o - 1) % SchedulePeriod = 0}

LEMMA TriggerTerms ==
  /\ \A g, i : E!Delivered(g, i) <=> Served(v7, g, i)
  /\ E!Scheduled = Grid(v5)
BY DEF E!Delivered, E!Scheduled, Served, Grid

LEMMA GridFacts ==
  ASSUME NEW n \in Nat, NEW m \in Nat, n <= m
  PROVE  /\ Grid(n) \subseteq Nat /\ Grid(n) \subseteq Grid(m)
         /\ \A o \in Grid(m) : o <= n => o \in Grid(n)
BY DeliveryAssumption DEF Grid

(* NothingUndelivered and what a pass covers, of any values of the slots. *)
AllServed(armed, log, cursor, now, evaluated, jobs, dropped, answered) ==
  /\ armed["event"] >= 0 =>
       \A i \in (armed["event"] + 1) .. cursor : log[i] => Served(jobs, "event", i)
  /\ armed["schedule"] >= 0 =>
       \A o \in Grid(now) : armed["schedule"] < o /\ o <= evaluated =>
         Served(jobs, "schedule", o) \/ o \in dropped
  /\ armed["webhook"] >= 0 => \A d \in answered : Served(jobs, "webhook", d)

EventsCovered(armed, log, cursor, jobs, keys, next) ==
  /\ cursor <= next /\ next <= Len(log)
  /\ keys \subseteq {{i \in (cursor + 1) .. next : log[i]}} \ {{}}
  /\ armed["event"] >= 0 =>
       \A i \in (cursor + 1) .. next : log[i] => keys # {} \/ Served(jobs, "event", i)

InstantsCovered(armed, now, evaluated, jobs, keys, next, dropped) ==
  /\ evaluated <= next /\ next <= now
  /\ keys \subseteq {{o} : o \in Grid(now)}
  /\ armed["schedule"] >= 0 =>
       \A o \in Grid(now) : evaluated < o /\ o <= next =>
         {o} \in keys \/ Served(jobs, "schedule", o) \/ o \in dropped

Underway(armed, pass) ==
  /\ pass.at = "idle" => pass = E!NoPass
  /\ pass.at # "idle" => armed[pass.of] # E!Absent
  /\ pass.at = "advancing" => pass.keys = {}

LEMMA UndeliveredTerms ==
  E!NothingUndelivered <=> AllServed(v2, v3, v4, v5, v6, v7, v10, v11)
BY DEF E!NothingUndelivered, AllServed, Served, Grid, E!Delivered, E!Scheduled

LEMMA UndeliveredNext ==
  E!NothingUndelivered' <=> AllServed(v2', v3', v4', v5', v6', v7', v10', v11')
BY DEF E!NothingUndelivered, AllServed, Served, Grid, E!Delivered, E!Scheduled

LEMMA CoversTerms ==
  E!PassCovers <=>
    /\ Underway(v2, v8)
    /\ v8.at # "idle" /\ v8.of = "event" => EventsCovered(v2, v3, v4, v7, v8.keys, v8.next)
    /\ v8.at # "idle" /\ v8.of = "schedule" =>
         InstantsCovered(v2, v5, v6, v7, v8.keys, v8.next, v10)
BY DEF E!PassCovers, Underway, EventsCovered, InstantsCovered, Served, Grid, E!Delivered, E!Scheduled

LEMMA CoversNext ==
  E!PassCovers' <=>
    /\ Underway(v2', v8')
    /\ v8'.at # "idle" /\ v8'.of = "event" => EventsCovered(v2', v3', v4', v7', v8'.keys, v8'.next)
    /\ v8'.at # "idle" /\ v8'.of = "schedule" =>
         InstantsCovered(v2', v5', v6', v7', v8'.keys, v8'.next, v10')
BY DEF E!PassCovers, Underway, EventsCovered, InstantsCovered, Served, Grid, E!Delivered, E!Scheduled,
       E!NoPass, E!Absent

(* A pass and a request that rest. *)
LEMMA NoPassFields ==
  /\ E!NoPass.at = "idle" /\ E!NoPass.of = "event" /\ E!NoPass.keys = {} /\ E!NoPass.next = 0
  /\ E!NoRequest.at = "idle" /\ E!NoRequest.of = "event" /\ E!NoRequest.from = E!Absent
  /\ E!Absent = -1 /\ E!Gone = -2
BY DEF E!NoPass, E!NoRequest, E!Absent, E!Gone

(* What happens beside the passes keeps what they cover: events are published, time *)
(* passes, requests begin and fail, and jobs of deliveries are added.               *)
LEMMA PassesKept ==
  ASSUME E!DeliveryInv, UNCHANGED <<v2, v4, v6, v8, v10>>, v7 \subseteq v7',
         v3' = v3 \/ \E matches \in BOOLEAN : v3' = Append(v3, matches),
         v5' = v5 \/ v5' = v5 + 1,
         \A d \in v11' : d \in v11 \/ Served(v7', "webhook", d)
  PROVE  /\ E!PassCovers' /\ E!NothingUndelivered'
         /\ Len(v3') \in Nat /\ Len(v3) <= Len(v3') /\ \A i \in 1..Len(v3) : v3'[i] = v3[i]
<1>1. /\ v3 \in Seq(BOOLEAN) /\ Len(v3) \in Nat /\ v4 \in Nat /\ v4 <= Len(v3)
      /\ v5 \in Nat /\ v6 \in Nat /\ v6 <= v5 /\ v2["event"] \in Int /\ v2["schedule"] \in Int
      /\ v8.next \in Nat
      /\ v2["event"] >= 0 => v2["event"] \in Nat
  BY TriggerTypes DEF E!DeliveryInv, E!TypeOK, E!Kinds
<1>2. Len(v3') \in Nat /\ Len(v3) <= Len(v3') /\ \A i \in 1..Len(v3) : v3'[i] = v3[i]
  BY <1>1
<1>3. v5' \in Nat /\ v5 <= v5'
  BY <1>1
<1>4. \A g, i : Served(v7, g, i) => Served(v7', g, i)
  BY DEF Served
<1>5. Grid(v5) \subseteq Grid(v5') /\ \A o \in Grid(v5') : o <= v5 => o \in Grid(v5)
  BY <1>1, <1>3, GridFacts
<1>6. \A o \in Grid(v5') : o \in Nat
  BY <1>1, <1>3, GridFacts
<1>7. v8.at # "idle" /\ v8.of = "event" => EventsCovered(v2', v3', v4', v7', v8'.keys, v8'.next)
  <2> SUFFICES ASSUME v8.at # "idle", v8.of = "event"
               PROVE  EventsCovered(v2, v3', v4, v7', v8.keys, v8.next)
    OBVIOUS
  <2>1. EventsCovered(v2, v3, v4, v7, v8.keys, v8.next)
    BY CoversTerms DEF E!DeliveryInv
  <2>2. \A i \in (v4 + 1) .. v8.next : i \in 1..Len(v3) /\ v3'[i] = v3[i]
    <3>1. (v4 + 1) .. v8.next \subseteq 1..Len(v3)
      BY <1>1, <2>1 DEF EventsCovered
    <3>2. QED
      BY <1>2, <3>1
  <2>3. {i \in (v4 + 1) .. v8.next : v3'[i]} = {i \in (v4 + 1) .. v8.next : v3[i]}
    BY <2>2
  <2>4. v8.next <= Len(v3')
    BY <1>1, <1>2, <2>1 DEF EventsCovered
  <2>5. QED
    BY <1>4, <2>1, <2>2, <2>3, <2>4 DEF EventsCovered
<1>8. v8.at # "idle" /\ v8.of = "schedule" =>
        InstantsCovered(v2', v5', v6', v7', v8'.keys, v8'.next, v10')
  <2> SUFFICES ASSUME v8.at # "idle", v8.of = "schedule"
               PROVE  InstantsCovered(v2, v5', v6, v7', v8.keys, v8.next, v10)
    OBVIOUS
  <2>1. InstantsCovered(v2, v5, v6, v7, v8.keys, v8.next, v10)
    BY CoversTerms DEF E!DeliveryInv
  <2>2. \A o \in Grid(v5') : o <= v8.next => o \in Grid(v5)
    BY <1>1, <1>5, <1>6, <2>1 DEF InstantsCovered
  <2>3. v8.next <= v5'
    BY <1>1, <1>3, <2>1 DEF InstantsCovered
  <2>4. {{o} : o \in Grid(v5)} \subseteq {{o} : o \in Grid(v5')}
    BY <1>5
  <2>5. QED
    BY <1>4, <2>1, <2>2, <2>3, <2>4 DEF InstantsCovered
<1>9. E!PassCovers'
  BY <1>7, <1>8, CoversTerms, CoversNext DEF E!DeliveryInv
<1>10. E!NothingUndelivered'
  <2> SUFFICES AllServed(v2, v3', v4, v5', v6, v7', v10, v11')
    BY UndeliveredNext
  <2>1. AllServed(v2, v3, v4, v5, v6, v7, v10, v11)
    BY UndeliveredTerms DEF E!DeliveryInv
  <2>2. v2["event"] >= 0 => \A i \in (v2["event"] + 1) .. v4 : v3'[i] = v3[i]
    <3>1. v2["event"] >= 0 => (v2["event"] + 1) .. v4 \subseteq 1..Len(v3)
      BY <1>1
    <3>2. QED
      BY <1>2, <3>1
  <2>3. \A o \in Grid(v5') : o <= v6 => o \in Grid(v5)
    BY <1>1, <1>5, <1>6
  <2>4. QED
    BY <1>4, <2>1, <2>2, <2>3 DEF AllServed
<1>11. QED
  BY <1>2, <1>9, <1>10

(* The jobs stay whole while events are published. *)
LEMMA WholeKept ==
  ASSUME E!DeliveryInv, v7' = v7, Len(v3') \in Nat, Len(v3) <= Len(v3'),
         \A i \in 1..Len(v3) : v3'[i] = v3[i]
  PROVE  E!WholeJobs'
<1> SUFFICES ASSUME NEW job \in v7
             PROVE  IF job.of = "event"
                    THEN /\ job.events \subseteq 1..Len(v3')
                         /\ \A i, k \in job.events : \A m \in i..k : v3'[m] => m \in job.events
                    ELSE \E i \in job.events : job.events = {i}
  BY DEF E!WholeJobs
<1>1. Len(v3) \in Nat
  BY TriggerTypes DEF E!DeliveryInv
<1>2. CASE job.of = "event"
  <2>1. /\ job.events \subseteq 1..Len(v3)
        /\ \A i, k \in job.events : \A m \in i..k : v3[m] => m \in job.events
    BY <1>2 DEF E!DeliveryInv, E!WholeJobs
  <2>2. \A i, k \in job.events : \A m \in i..k : v3'[m] = v3[m]
    <3>1. \A i, k \in 1..Len(v3) : i..k \subseteq 1..Len(v3)
      BY <1>1
    <3>2. QED
      BY <2>1, <3>1
  <2>3. 1..Len(v3) \subseteq 1..Len(v3')
    BY <1>1
  <2>4. QED
    BY <1>2, <2>1, <2>2, <2>3
<1>3. CASE job.of # "event"
  BY <1>3 DEF E!DeliveryInv, E!WholeJobs
<1>4. QED
  BY <1>2, <1>3

(* A step that leaves the outbox, the triggers and their jobs alone. *)
LEMMA RequestAside ==
  ASSUME E!DeliveryInv, UNCHANGED <<v2, v3, v4, v5, v6, v7, v8, v10, v11, v12>>,
         v1' \in BOOLEAN,
         \/ v9' = v9 \/ v9' = E!NoRequest
         \/ /\ v9' \in [at : {"creating", "deleting", "delivering", "inserting"}, of : E!Kinds,
                        from : {E!Absent} \cup Nat]
            /\ v9'.at = "creating" =>
                 /\ v2[v9'.of] = E!Absent
                 /\ v9'.from = IF v9'.of = "schedule" THEN v5 ELSE Len(v3)
            /\ v9'.at \in {"delivering", "inserting"} => v9'.from \in v12.deliveries
  PROVE  E!DeliveryInv'
<1>1. Len(v3) \in Nat /\ v5 \in Nat
  BY TriggerTypes DEF E!DeliveryInv
<1>2. v9' \in [at : {"idle", "creating", "deleting", "delivering", "inserting"},
               of : E!Kinds, from : {E!Absent} \cup Nat]
  BY DEF E!DeliveryInv, E!TypeOK, E!Kinds, E!NoRequest, E!Absent
<1>3. E!TypeOK'
  BY <1>2 DEF E!DeliveryInv, E!TypeOK, E!Kinds, E!Gone, E!Absent
<1>4. E!RequestsKnown'
  BY <1>1, NoPassFields DEF E!DeliveryInv, E!RequestsKnown, E!Absent
<1>5. E!WholeJobs'
  BY <1>1, WholeKept
<1>6. E!PassCovers' /\ E!NothingUndelivered'
  BY PassesKept
<1>7. QED
  BY <1>3, <1>4, <1>5, <1>6 DEF E!DeliveryInv

LEMMA RequestsMove ==
  ASSUME E!DeliveryInv,
         \/ E!Toggle \/ E!DeliverEnqueues \/ E!RequestFails
         \/ \E g \in E!Kinds : E!CreateReads(g) \/ E!DeleteClaims(g)
         \/ \E d \in v12.deliveries : E!DeliverReads(d)
  PROVE  E!DeliveryInv'
<1>1. UNCHANGED <<v2, v3, v4, v5, v6, v7, v8, v10, v11, v12>>
  BY DEF E!Toggle, E!DeliverEnqueues, E!RequestFails, E!CreateReads, E!DeleteClaims, E!DeliverReads,
         E!outbox, E!cursors, E!requests
<1>2. v1' \in BOOLEAN
  BY DEF E!DeliveryInv, E!TypeOK, E!Toggle, E!DeliverEnqueues, E!RequestFails, E!CreateReads,
         E!DeleteClaims, E!DeliverReads
<1>3. /\ Len(v3) \in Nat /\ v5 \in Nat /\ v12.deliveries \subseteq Nat
      /\ v9.of \in E!Kinds /\ v9.from \in {E!Absent} \cup Nat
  BY TriggerTypes DEF E!DeliveryInv, E!TypeOK
<1> DEFINE Fine(r) == /\ r \in [at : {"creating", "deleting", "delivering", "inserting"},
                                of : E!Kinds, from : {E!Absent} \cup Nat]
                      /\ r.at = "creating" =>
                           /\ v2[r.of] = E!Absent
                           /\ r.from = IF r.of = "schedule" THEN v5 ELSE Len(v3)
                      /\ r.at \in {"delivering", "inserting"} => r.from \in v12.deliveries
<1>4. v9' = v9 \/ v9' = E!NoRequest \/ Fine(v9')
  <2>1. CASE E!Toggle \/ E!RequestFails
    BY <2>1 DEF E!Toggle, E!RequestFails, E!requests
  <2>2. CASE E!DeliverEnqueues
    <3>1. CASE v9' = E!NoRequest
      BY <3>1
    <3>2. CASE v9.at = "delivering" /\ v9' = [v9 EXCEPT !.at = "inserting"]
      <4>1. v9' = [at |-> "inserting", of |-> v9.of, from |-> v9.from]
        BY <3>2 DEF E!DeliveryInv, E!TypeOK
      <4>2. QED
        BY <1>3, <3>2, <4>1 DEF E!DeliveryInv, E!RequestsKnown
    <3>3. QED
      BY <2>2, <3>1, <3>2 DEF E!DeliverEnqueues
  <2>3. ASSUME NEW g \in E!Kinds, E!CreateReads(g) PROVE Fine(v9')
    <3>1. /\ v9' = [at |-> "creating", of |-> g, from |-> IF g = "schedule" THEN v5 ELSE Len(v3)]
          /\ v2[g] = E!Absent
      BY <2>3 DEF E!CreateReads
    <3>2. QED
      BY <1>3, <3>1
  <2>4. ASSUME NEW g \in E!Kinds, E!DeleteClaims(g) PROVE Fine(v9')
    <3>1. v9' = [at |-> "deleting", of |-> g, from |-> E!Absent]
      BY <2>4 DEF E!DeleteClaims, E!NoRequest
    <3>2. QED
      BY <3>1
  <2>5. ASSUME NEW d \in v12.deliveries, E!DeliverReads(d) PROVE Fine(v9')
    <3>1. v9' = [at |-> "delivering", of |-> "webhook", from |-> d]
      BY <2>5 DEF E!DeliverReads
    <3>2. QED
      BY <1>3, <3>1 DEF E!Kinds
  <2>6. QED
    BY <2>1, <2>2, <2>3, <2>4, <2>5
<1>5. QED
  BY <1>1, <1>2, <1>4, RequestAside

LEMMA OutboxMoves ==
  ASSUME E!DeliveryInv, E!Tick \/ \E matches \in BOOLEAN : E!Publish(matches)
  PROVE  E!DeliveryInv'
<1>1. UNCHANGED <<v1, v2, v4, v6, v7, v8, v9, v10, v11, v12>>
  BY DEF E!Tick, E!Publish, E!cursors, E!requests
<1>2. \/ v3' = v3 /\ v5' = v5 + 1 /\ v5 < v12.time
      \/ /\ v5' = v5 /\ Len(v3) < v12.events
         /\ \E matches \in BOOLEAN : v3' = Append(v3, matches)
  BY DEF E!Tick, E!Publish
<1>3. /\ v3 \in Seq(BOOLEAN) /\ Len(v3) \in Nat /\ v4 \in Nat /\ v4 <= Len(v3)
      /\ v5 \in Nat /\ v6 \in Nat /\ v6 <= v5 /\ v5 <= v12.time /\ Len(v3) <= v12.events
      /\ v12.events \in Nat /\ v12.time \in Nat
  BY TriggerTypes DEF E!DeliveryInv
<1>4. E!PassCovers' /\ E!NothingUndelivered' /\ Len(v3') \in Nat /\ Len(v3) <= Len(v3')
      /\ \A i \in 1..Len(v3) : v3'[i] = v3[i]
  BY <1>1, <1>2, PassesKept
<1>5. v3' \in Seq(BOOLEAN) /\ Len(v3') <= v12.events /\ v5' \in 0..v12.time /\ v6 \in 0..v5'
      /\ v4 \in 0..Len(v3') /\ v5 <= v5'
  <2>1. CASE v3' = v3 /\ v5' = v5 + 1 /\ v5 < v12.time
    BY <1>3, <2>1
  <2>2. CASE /\ v5' = v5 /\ Len(v3) < v12.events
             /\ \E matches \in BOOLEAN : v3' = Append(v3, matches)
    <3>1. PICK matches \in BOOLEAN : v3' = Append(v3, matches)
      BY <2>2
    <3>2. v3' \in Seq(BOOLEAN) /\ Len(v3') = Len(v3) + 1
      BY <1>3, <3>1
    <3>3. QED
      BY <1>3, <2>2, <3>2
  <2>3. QED
    BY <1>2, <2>1, <2>2
<1>6. E!TypeOK'
  BY <1>1, <1>5 DEF E!DeliveryInv, E!TypeOK, E!Gone, E!Kinds, E!Absent
<1>7. E!RequestsKnown'
  <2>1. v9.at = "creating" => v9.from \in 0 .. IF v9.of = "schedule" THEN v5' ELSE Len(v3')
    BY <1>3, <1>4, <1>5 DEF E!DeliveryInv, E!RequestsKnown
  <2>2. QED
    BY <1>1, <2>1 DEF E!DeliveryInv, E!RequestsKnown, E!Absent
<1>8. E!WholeJobs'
  BY <1>1, <1>4, WholeKept
<1>9. QED
  BY <1>4, <1>6, <1>7, <1>8 DEF E!DeliveryInv

(* What a job that is enqueued, or that there was one of its key, does to the jobs. *)
LEMMA JobsGrow ==
  ASSUME E!DeliveryInv, v3' = v3, NEW g \in E!Kinds, NEW events \in SUBSET Nat, events # {},
         g = "event" =>
           /\ events \subseteq 1..Len(v3)
           /\ \A i, k \in events : \A m \in i..k : v3[m] => m \in events,
         g # "event" => \E i \in events : events = {i},
         v7' = IF E!Accepted(g, events) THEN v7 ELSE v7 \cup {[of |-> g, events |-> events]}
  PROVE  /\ v7' \subseteq [of : E!Kinds, events : SUBSET Nat] /\ v7 \subseteq v7' /\ E!WholeJobs'
         /\ \A i \in events : (g = "event" => v3[i]) => Served(v7', g, i)
<1>1. v7 \subseteq v7' /\ v7' \subseteq v7 \cup {[of |-> g, events |-> events]}
  OBVIOUS
<1>2. v7 \subseteq [of : E!Kinds, events : SUBSET Nat] /\ Len(v3) \in Nat
  BY TriggerTypes DEF E!DeliveryInv, E!TypeOK
<1>3. [of |-> g, events |-> events] \in [of : E!Kinds, events : SUBSET Nat]
  OBVIOUS
<1>4. v7' \subseteq [of : E!Kinds, events : SUBSET Nat]
  BY <1>1, <1>2, <1>3
<1>5. E!WholeJobs'
  <2> SUFFICES ASSUME NEW job \in v7'
               PROVE  IF job.of = "event"
                      THEN /\ job.events \subseteq 1..Len(v3)
                           /\ \A i, k \in job.events : \A m \in i..k : v3[m] => m \in job.events
                      ELSE \E i \in job.events : job.events = {i}
    BY DEF E!WholeJobs
  <2>1. CASE job \in v7
    BY <2>1 DEF E!DeliveryInv, E!WholeJobs
  <2>2. CASE job = [of |-> g, events |-> events]
    <3>1. job.of = g /\ job.events = events
      BY <2>2
    <3>2. CASE g = "event"
      BY <3>1, <3>2
    <3>3. CASE g # "event"
      BY <3>1, <3>3
    <3>4. QED
      BY <3>2, <3>3
  <2>3. QED
    BY <1>1, <2>1, <2>2
<1>6. ASSUME NEW i \in events, g = "event" => v3[i] PROVE Served(v7', g, i)
  <2>1. CASE ~E!Accepted(g, events)
    <3>1. [of |-> g, events |-> events] \in v7'
      BY <2>1
    <3>2. QED
      BY <3>1 DEF Served
  <2>2. CASE E!Accepted(g, events)
    <3>1. PICK job \in v7 : job.of = g /\ E!KeyOf(job.events) = E!KeyOf(events)
      BY <2>2 DEF E!Accepted
    <3>2. i \in job.events
      <4>1. CASE g = "event"
        <5>1. events \subseteq 0..Len(v3)
          BY <1>2, <4>1
        <5>2. PICK a, b \in job.events : /\ a \in 0..Len(v3) /\ b \in 0..Len(v3)
                                       /\ \A k \in events : a <= k /\ k <= b
          <6>1. PICK n : n \in Nat /\ n = Len(v3)
            BY <1>2
          <6>2. events \subseteq 0..n /\ events \subseteq Nat /\ events # {}
            BY <5>1, <6>1
          <6>3. PICK a \in events : \A k \in events : a <= k
            BY <6>2, LeastOne
          <6>4. PICK b \in events : \A k \in events : k <= b
            BY <6>1, <6>2, LastOne
          <6>5. a \in job.events /\ b \in job.events
            BY <3>1, <6>2, <6>3, <6>4, KeyEnds
          <6>6. QED
            BY <6>1, <6>2, <6>3, <6>4, <6>5
        <5>3. i \in a..b /\ v3[i]
          BY <1>6, <4>1, <5>1, <5>2
        <5>4. \A k, l \in job.events : \A m \in k..l : v3[m] => m \in job.events
          BY <3>1, <4>1 DEF E!DeliveryInv, E!WholeJobs
        <5>5. QED
          BY <5>2, <5>3, <5>4
      <4>2. CASE g # "event"
        <5>1. \E k \in job.events : job.events = {k}
          BY <3>1, <4>2 DEF E!DeliveryInv, E!WholeJobs
        <5>2. PICK k \in job.events : job.events = {k}
          BY <5>1
        <5>3. k \in Nat /\ i \in Nat /\ events = {i}
          BY <1>2, <4>2, <5>2
        <5>4. k \in E!KeyOf({k})
          BY <5>3 DEF E!KeyOf
        <5>5. E!KeyOf(events) \subseteq events
          BY DEF E!KeyOf
        <5>6. k \in {i}
          BY <3>1, <5>2, <5>3, <5>4, <5>5
        <5>7. QED
          BY <5>2, <5>6
      <4>3. QED
        BY <4>1, <4>2
    <3>3. QED
      BY <1>1, <3>1, <3>2 DEF Served
  <2>3. QED
    BY <2>1, <2>2
<1>7. QED
  BY <1>1, <1>4, <1>5, <1>6

(* The owner's request: a trigger is created. *)
LEMMA TriggerCreated ==
  ASSUME E!DeliveryInv, E!CreateTrigger
  PROVE  E!DeliveryInv'
<1>1. PICK g \in E!Kinds, from \in Nat :
        /\ v9.at = "creating" /\ v9.of = g /\ v9.from = from /\ v2[g] = E!Absent
        /\ g = "schedule" => from <= v5
        /\ g # "schedule" => from <= Len(v3)
  <2>1. v9.at = "creating" /\ v9.of \in E!Kinds
    BY DEF E!CreateTrigger, E!DeliveryInv, E!TypeOK
  <2>2. v5 \in Nat /\ Len(v3) \in Nat
    BY TriggerTypes DEF E!DeliveryInv
  <2>3. v2[v9.of] = E!Absent /\ v9.from \in 0 .. IF v9.of = "schedule" THEN v5 ELSE Len(v3)
    BY <2>1 DEF E!DeliveryInv, E!RequestsKnown
  <2>4. /\ v9.from \in Nat
        /\ v9.of = "schedule" => v9.from <= v5
        /\ v9.of # "schedule" => v9.from <= Len(v3)
    BY <2>2, <2>3
  <2>5. QED
    BY <2>1, <2>3, <2>4
<1>2. /\ UNCHANGED <<v1, v3, v5, v7, v8, v10, v11, v12>>
      /\ v9' = E!NoRequest /\ v2' = [v2 EXCEPT ![g] = from]
      /\ v4' = IF g = "event" THEN from ELSE v4
      /\ v6' = IF g = "schedule" THEN from ELSE v6
  BY <1>1 DEF E!CreateTrigger, E!outbox
<1>3. /\ v3 \in Seq(BOOLEAN) /\ Len(v3) \in Nat /\ v4 \in Nat /\ v4 <= Len(v3)
      /\ v5 \in Nat /\ v6 \in Nat /\ v6 <= v5 /\ v5 <= v12.time /\ Len(v3) <= v12.events
      /\ v12.events \in Nat /\ v12.time \in Nat
      /\ v2 \in [E!Kinds -> E!Gone..(v12.events + v12.time)]
  BY TriggerTypes DEF E!DeliveryInv, E!TypeOK
<1>4. /\ v2' \in [E!Kinds -> E!Gone..(v12.events + v12.time)]
      /\ v2'[g] = from /\ \A h \in E!Kinds : h # g => v2'[h] = v2[h]
  <2>1. from \in E!Gone..(v12.events + v12.time)
    BY <1>1, <1>3 DEF E!Gone
  <2>2. QED
    BY <1>2, <1>3, <2>1
<1>5. v4' \in 0..Len(v3) /\ v6' \in 0..v5
  BY <1>1, <1>2, <1>3
<1>6. E!TypeOK'
  BY <1>2, <1>3, <1>4, <1>5 DEF E!DeliveryInv, E!TypeOK, E!NoRequest, E!Absent, E!Kinds, E!Gone
<1>7. E!WholeJobs'
  BY <1>2, <1>3, WholeKept
<1>8. E!RequestsKnown'
  <2>1. v2'["webhook"] = E!Absent => v2["webhook"] = E!Absent
    BY <1>1, <1>4 DEF E!Kinds, E!Absent
  <2>2. QED
    BY <1>2, <2>1, NoPassFields DEF E!DeliveryInv, E!RequestsKnown, E!Absent
<1>9. E!PassCovers'
  <2>1. /\ Underway(v2, v8)
        /\ v8.at # "idle" /\ v8.of = "event" => EventsCovered(v2, v3, v4, v7, v8.keys, v8.next)
        /\ v8.at # "idle" /\ v8.of = "schedule" =>
             InstantsCovered(v2, v5, v6, v7, v8.keys, v8.next, v10)
        /\ v8.of \in {"event", "schedule"}
    BY CoversTerms DEF E!DeliveryInv, E!TypeOK
  <2>2. CASE v8.at = "idle"
    BY <1>2, <2>1, <2>2, CoversNext DEF Underway
  <2>3. CASE v8.at # "idle"
    <3>1. v8.of # g
      BY <1>1, <2>1, <2>3 DEF Underway
    <3>2. v2'[v8.of] = v2[v8.of]
      BY <1>4, <2>1, <3>1 DEF E!Kinds
    <3>3. CASE v8.of = "event"
      <4>1. EventsCovered(v2', v3', v4', v7', v8'.keys, v8'.next)
        BY <1>2, <2>1, <2>3, <3>1, <3>2, <3>3 DEF EventsCovered
      <4>2. QED
        BY <1>2, <2>1, <2>3, <3>2, <3>3, <4>1, CoversNext DEF Underway
    <3>4. CASE v8.of = "schedule"
      <4>1. InstantsCovered(v2', v5', v6', v7', v8'.keys, v8'.next, v10')
        BY <1>2, <2>1, <2>3, <3>1, <3>2, <3>4 DEF InstantsCovered
      <4>2. QED
        BY <1>2, <2>1, <2>3, <3>2, <3>4, <4>1, CoversNext DEF Underway
    <3>5. QED
      BY <2>1, <3>3, <3>4
  <2>4. QED
    BY <2>2, <2>3
<1>10. E!NothingUndelivered'
  <2> SUFFICES AllServed(v2', v3, v4', v5, v6', v7, v10, v11)
    BY <1>2, UndeliveredNext
  <2>1. AllServed(v2, v3, v4, v5, v6, v7, v10, v11)
    BY UndeliveredTerms DEF E!DeliveryInv
  <2>2. v2'["event"] >= 0 =>
          \A i \in (v2'["event"] + 1) .. v4' : v3[i] => Served(v7, "event", i)
    <3>1. CASE g = "event"
      <4>1. (v2'["event"] + 1) .. v4' = {}
        BY <1>2, <1>4, <3>1
      <4>2. QED
        BY <4>1
    <3>2. CASE g # "event"
      BY <1>2, <1>4, <2>1, <3>2 DEF AllServed, E!Kinds
    <3>3. QED
      BY <3>1, <3>2
  <2>3. v2'["schedule"] >= 0 =>
          \A o \in Grid(v5) : v2'["schedule"] < o /\ o <= v6' => Served(v7, "schedule", o) \/ o \in v10
    <3>1. CASE g = "schedule"
      <4>1. \A o \in Grid(v5) : ~(v2'["schedule"] < o /\ o <= v6')
        BY <1>2, <1>3, <1>4, <3>1, GridFacts
      <4>2. QED
        BY <4>1
    <3>2. CASE g # "schedule"
      BY <1>2, <1>4, <2>1, <3>2 DEF AllServed, E!Kinds
    <3>3. QED
      BY <3>1, <3>2
  <2>4. v2'["webhook"] >= 0 => \A d \in v11 : Served(v7, "webhook", d)
    <3>1. CASE g = "webhook"
      BY <1>1, <3>1 DEF E!DeliveryInv, E!RequestsKnown
    <3>2. CASE g # "webhook"
      BY <1>4, <2>1, <3>2 DEF AllServed, E!Kinds
    <3>3. QED
      BY <3>1, <3>2
  <2>5. QED
    BY <2>2, <2>3, <2>4 DEF AllServed
<1>11. QED
  BY <1>6, <1>7, <1>8, <1>9, <1>10 DEF E!DeliveryInv

(* Where a trigger is deleted, its jobs go; the other triggers' jobs stay. *)
LEMMA TriggerDeleted ==
  ASSUME E!DeliveryInv, E!DeleteTrigger
  PROVE  E!DeliveryInv'
<1>1. PICK g \in E!Kinds : v9.of = g
  BY DEF E!DeliveryInv, E!TypeOK
<1>2. /\ UNCHANGED <<v1, v3, v4, v5, v6, v8, v10, v11, v12>>
      /\ v9' = E!NoRequest /\ v2' = [v2 EXCEPT ![g] = E!Gone]
      /\ v7' = {job \in v7 : job.of # g}
  BY <1>1 DEF E!DeleteTrigger, E!outbox, E!cursors
<1>3. /\ Len(v3) \in Nat /\ v12.events \in Nat /\ v12.time \in Nat
      /\ v2 \in [E!Kinds -> E!Gone..(v12.events + v12.time)]
  BY TriggerTypes DEF E!DeliveryInv, E!TypeOK
<1>4. /\ v2' \in [E!Kinds -> E!Gone..(v12.events + v12.time)]
      /\ v2'[g] = E!Gone /\ \A h \in E!Kinds : h # g => v2'[h] = v2[h]
  <2>1. E!Gone \in E!Gone..(v12.events + v12.time)
    BY <1>3 DEF E!Gone
  <2>2. QED
    BY <1>2, <1>3, <2>1
<1>5. /\ \A h : h # g => \A i : Served(v7, h, i) => Served(v7', h, i)
      /\ ~(v2'[g] >= 0) /\ v2'[g] # E!Absent
  BY <1>2, <1>4 DEF Served, E!Gone, E!Absent
<1>6. E!TypeOK'
  BY <1>2, <1>4 DEF E!DeliveryInv, E!TypeOK, E!NoRequest, E!Absent, E!Kinds, E!Gone
<1>7. E!WholeJobs'
  BY <1>2 DEF E!DeliveryInv, E!WholeJobs
<1>8. E!RequestsKnown'
  <2>1. v2'["webhook"] = E!Absent => v2["webhook"] = E!Absent
    BY <1>4, <1>5 DEF E!Kinds
  <2>2. QED
    BY <1>2, <2>1, NoPassFields DEF E!DeliveryInv, E!RequestsKnown, E!Absent
<1>9. E!PassCovers'
  <2>1. /\ Underway(v2, v8)
        /\ v8.at # "idle" /\ v8.of = "event" => EventsCovered(v2, v3, v4, v7, v8.keys, v8.next)
        /\ v8.at # "idle" /\ v8.of = "schedule" =>
             InstantsCovered(v2, v5, v6, v7, v8.keys, v8.next, v10)
        /\ v8.of \in E!Kinds
    BY CoversTerms DEF E!DeliveryInv, E!TypeOK, E!Kinds
  <2>2. Underway(v2', v8)
    BY <1>4, <1>5, <2>1 DEF Underway
  <2>3. ASSUME v8.at # "idle", v8.of = "event"
        PROVE  EventsCovered(v2', v3, v4, v7', v8.keys, v8.next)
    <3>1. CASE g = "event"
      BY <1>5, <2>1, <2>3, <3>1 DEF EventsCovered
    <3>2. CASE g # "event"
      BY <1>4, <1>5, <2>1, <2>3, <3>2 DEF EventsCovered, E!Kinds
    <3>3. QED
      BY <3>1, <3>2
  <2>4. ASSUME v8.at # "idle", v8.of = "schedule"
        PROVE  InstantsCovered(v2', v5, v6, v7', v8.keys, v8.next, v10)
    <3>1. CASE g = "schedule"
      BY <1>5, <2>1, <2>4, <3>1 DEF InstantsCovered
    <3>2. CASE g # "schedule"
      BY <1>4, <1>5, <2>1, <2>4, <3>2 DEF InstantsCovered, E!Kinds
    <3>3. QED
      BY <3>1, <3>2
  <2>5. QED
    BY <1>2, <2>2, <2>3, <2>4, CoversNext
<1>10. E!NothingUndelivered'
  <2>1. AllServed(v2, v3, v4, v5, v6, v7, v10, v11)
    BY UndeliveredTerms DEF E!DeliveryInv
  <2>2. \A h \in E!Kinds : h # g => v2'[h] = v2[h] /\ \A i : Served(v7, h, i) => Served(v7', h, i)
    BY <1>4, <1>5
  <2>3. AllServed(v2', v3, v4, v5, v6, v7', v10, v11)
    BY <1>5, <2>1, <2>2 DEF AllServed, E!Kinds
  <2>4. QED
    BY <1>2, <2>3, UndeliveredNext
<1>11. QED
  BY <1>6, <1>7, <1>8, <1>9, <1>10 DEF E!DeliveryInv

(* A pass takes every match up to the next cursor, which the last event it looked at or *)
(* the last of a full batch is.                                                         *)
LEMMA BatchInspected ==
  ASSUME E!TypeOK
  PROVE  /\ E!Inspected.next \in Nat /\ v4 <= E!Inspected.next /\ E!Inspected.next <= Len(v3)
         /\ E!Inspected.batch = {i \in (v4 + 1) .. E!Inspected.next : v3[i]}
<1>1. Len(v3) \in Nat /\ v4 \in Nat /\ v4 <= Len(v3)
  BY TriggerTypes
<1> DEFINE last == IF v4 + EventsInspected < Len(v3) THEN v4 + EventsInspected ELSE Len(v3)
           seen == (v4 + 1) .. last
           matches == {i \in seen : v3[i]}
           full == {i \in matches : E!Cardinality({k \in matches : k <= i}) = EventBatch}
           end == CHOOSE i \in full : TRUE
<1>2. last \in Nat /\ v4 <= last /\ last <= Len(v3)
  BY <1>1, DeliveryAssumption
<1>3. E!Cardinality(seen) = Cardinality(seen)
  BY DEF E!Cardinality, Cardinality, E!IsFiniteSet, IsFiniteSet
<1>4. E!Inspected = IF full = {} THEN [batch |-> matches, next |-> v4 + E!Cardinality(seen)]
                    ELSE [batch |-> {i \in matches : i <= end}, next |-> end]
  BY DEF E!Inspected
<1> HIDE DEF last
<1>5. CASE full = {}
  <2>1. Cardinality(seen) = last - v4
    <3>1. v4 + 1 \in Int /\ last \in Int
      BY <1>1, <1>2
    <3>2. Cardinality((v4 + 1) .. last) = IF v4 + 1 > last THEN 0 ELSE last - (v4 + 1) + 1
      BY <3>1, FS_Interval, Zenon
    <3>3. QED
      BY <1>1, <1>2, <3>2
  <2>2. v4 + E!Cardinality(seen) = last
    BY <1>1, <1>2, <1>3, <2>1
  <2> HIDE DEF full
  <2>3. E!Inspected.next = last /\ E!Inspected.batch = matches
    BY <1>4, <1>5, <2>2
  <2>4. QED
    BY <1>2, <2>3
<1>6. CASE full # {}
  <2>1. end \in full /\ full \subseteq matches
    BY <1>6
  <2> HIDE DEF full, end
  <2>2. E!Inspected.next = end /\ E!Inspected.batch = {i \in matches : i <= end}
    BY <1>4, <1>6
  <2>3. end \in (v4 + 1) .. last
    BY <2>1
  <2>4. end \in Nat /\ v4 <= end /\ end <= Len(v3)
    BY <1>1, <1>2, <2>3
  <2>5. {i \in matches : i <= end} = {i \in (v4 + 1) .. end : v3[i]}
    BY <1>1, <1>2, <2>3
  <2>6. QED
    BY <2>2, <2>4, <2>5
<1>7. QED
  BY <1>5, <1>6

(* What a pass changes alone. *)
LEMMA PassMoves ==
  ASSUME E!DeliveryInv, UNCHANGED <<v1, v2, v3, v5, v7, v9, v11, v12>>,
         v4' \in 0..Len(v3), v6' \in 0..v5,
         v8' \in [at : {"idle", "reading", "inserting", "advancing"}, of : {"event", "schedule"},
                  keys : SUBSET SUBSET Nat, next : Nat],
         E!PassCovers', E!NothingUndelivered'
  PROVE  E!DeliveryInv'
<1>1. E!TypeOK'
  BY DEF E!DeliveryInv, E!TypeOK, E!Absent, E!Gone, E!Kinds
<1>2. E!WholeJobs'
  BY WholeKept, TriggerTypes DEF E!DeliveryInv
<1>3. E!RequestsKnown'
  BY DEF E!DeliveryInv, E!RequestsKnown, E!Absent
<1>4. QED
  BY <1>1, <1>2, <1>3 DEF E!DeliveryInv

(* A pass begins, over the events of the event trigger. *)
LEMMA EventsEvaluated ==
  ASSUME E!DeliveryInv, E!EvaluateEvents
  PROVE  E!DeliveryInv'
<1>1. /\ UNCHANGED <<v1, v2, v3, v4, v5, v6, v7, v9, v10, v11, v12>>
      /\ v8 = E!NoPass /\ v2["event"] >= 0
      /\ v8' = [E!NoPass EXCEPT !.at = IF E!Inspected.batch = {} THEN "advancing" ELSE "reading",
                                !.next = E!Inspected.next,
                                !.keys = IF E!Inspected.batch = {} THEN {} ELSE {E!Inspected.batch}]
  BY DEF E!EvaluateEvents, E!outbox, E!cursors, E!requests
<1>2. PICK next, batch :
        /\ next \in Nat /\ next = E!Inspected.next /\ batch = E!Inspected.batch
        /\ v4 <= next /\ next <= Len(v3)
        /\ batch = {i \in (v4 + 1) .. next : v3[i]}
  BY BatchInspected DEF E!DeliveryInv
<1>3. PICK keys, step :
        /\ batch = {} => keys = {} /\ step = "advancing"
        /\ batch # {} => keys = {batch} /\ step = "reading"
        /\ keys = IF batch = {} THEN {} ELSE {batch}
        /\ step = IF batch = {} THEN "advancing" ELSE "reading"
  OBVIOUS
<1>4. v8' = [at |-> step, of |-> "event", keys |-> keys, next |-> next]
  BY <1>1, <1>2, <1>3 DEF E!NoPass
<1>f. v8'.at = step /\ v8'.of = "event" /\ v8'.keys = keys /\ v8'.next = next
  BY <1>4
<1>5. /\ Len(v3) \in Nat /\ v4 \in Nat /\ v4 <= Len(v3) /\ v5 \in Nat /\ v6 \in Nat /\ v6 <= v5
  BY TriggerTypes DEF E!DeliveryInv
<1>6. keys \in SUBSET SUBSET Nat /\ step \in {"advancing", "reading"}
  <2>1. batch \subseteq Nat
    BY <1>2, <1>5
  <2>2. QED
    BY <1>3, <2>1
<1>7. E!PassCovers'
  <2>1. EventsCovered(v2, v3, v4, v7, keys, next)
    BY <1>2, <1>3 DEF EventsCovered
  <2>2. Underway(v2, v8')
    <3>1. v2["event"] # E!Absent
      BY <1>1, TriggerTypes DEF E!DeliveryInv, E!Kinds, E!Absent
    <3>2. QED
      BY <1>3, <1>f, <3>1 DEF Underway
  <2>3. QED
    BY <1>1, <1>f, <2>1, <2>2, CoversNext
<1>8. E!NothingUndelivered'
  BY <1>1, UndeliveredTerms, UndeliveredNext DEF E!DeliveryInv
<1>9. QED
  <2>1. v4' \in 0..Len(v3) /\ v6' \in 0..v5
    BY <1>1, <1>5
  <2>2. v8' \in [at : {"idle", "reading", "inserting", "advancing"}, of : {"event", "schedule"},
                 keys : SUBSET SUBSET Nat, next : Nat]
    BY <1>2, <1>4, <1>6
  <2>3. QED
    BY <1>1, <2>1, <2>2, <1>7, <1>8, PassMoves

(* A pass begins, over the instants of the schedule. *)
LEMMA SchedulesEvaluated ==
  ASSUME E!DeliveryInv, E!EvaluateSchedules
  PROVE  E!DeliveryInv'
<1>1. PICK due : due = E!ApplyMissed \cup (E!Occurrences \ E!Missed)
  OBVIOUS
<1>2. /\ UNCHANGED <<v1, v2, v3, v4, v5, v6, v7, v9, v11, v12>>
      /\ v8 = E!NoPass /\ v2["schedule"] >= 0
      /\ v8' = [E!NoPass EXCEPT !.of = "schedule", !.next = v5, !.keys = {{o} : o \in due},
                                !.at = IF due = {} THEN "advancing" ELSE "reading"]
      /\ v10' = v10 \cup (E!Missed \ due)
  BY <1>1 DEF E!EvaluateSchedules, E!outbox, E!requests
<1>3. PICK keys, step :
        /\ keys = {{o} : o \in due}
        /\ due = {} => keys = {} /\ step = "advancing"
        /\ due # {} => step = "reading"
        /\ step = IF due = {} THEN "advancing" ELSE "reading"
  OBVIOUS
<1>4. v8' = [at |-> step, of |-> "schedule", keys |-> keys, next |-> v5]
  BY <1>2, <1>3 DEF E!NoPass
<1>f. v8'.at = step /\ v8'.of = "schedule" /\ v8'.keys = keys /\ v8'.next = v5
  BY <1>4
<1>5. /\ Len(v3) \in Nat /\ v4 \in Nat /\ v4 <= Len(v3) /\ v5 \in Nat /\ v6 \in Nat /\ v6 <= v5
  BY TriggerTypes DEF E!DeliveryInv
<1>6. /\ due \subseteq Grid(v5) /\ Grid(v5) \subseteq Nat
      /\ \A o \in Grid(v5) : v6 < o => o \in due \/ o \in E!Missed
  <2>1. E!ApplyMissed \subseteq E!Missed /\ E!Missed \subseteq E!Occurrences
    BY DEF E!ApplyMissed, E!Missed
  <2>2. E!Occurrences = {o \in Grid(v5) : o > v6}
    BY TriggerTerms DEF E!Occurrences
  <2>3. Grid(v5) \subseteq Nat
    BY <1>5, GridFacts
  <2>4. QED
    BY <1>1, <1>5, <2>1, <2>2, <2>3
<1>7. keys \in SUBSET SUBSET Nat /\ step \in {"advancing", "reading"}
  BY <1>3, <1>6
<1>8. E!PassCovers'
  <2>1. InstantsCovered(v2, v5, v6, v7, keys, v5, v10')
    <3>1. keys \subseteq {{o} : o \in Grid(v5)}
      BY <1>3, <1>6
    <3>2. \A o \in Grid(v5) : v6 < o => {o} \in keys \/ o \in v10'
      BY <1>2, <1>3, <1>6
    <3>3. QED
      BY <1>5, <3>1, <3>2 DEF InstantsCovered
  <2>2. Underway(v2, v8')
    <3>1. v2["schedule"] # E!Absent
      BY <1>2, TriggerTypes DEF E!DeliveryInv, E!Kinds, E!Absent
    <3>2. QED
      BY <1>3, <1>f, <3>1 DEF Underway
  <2>3. QED
    BY <1>2, <1>f, <2>1, <2>2, CoversNext
<1>9. E!NothingUndelivered'
  <2>1. AllServed(v2, v3, v4, v5, v6, v7, v10, v11)
    BY UndeliveredTerms DEF E!DeliveryInv
  <2>2. AllServed(v2, v3, v4, v5, v6, v7, v10', v11)
    BY <1>2, <2>1 DEF AllServed
  <2>3. QED
    BY <1>2, <2>2, UndeliveredNext
<1>10. QED
  <2>1. v4' \in 0..Len(v3) /\ v6' \in 0..v5
    BY <1>2, <1>5
  <2>2. v8' \in [at : {"idle", "reading", "inserting", "advancing"}, of : {"event", "schedule"},
                 keys : SUBSET SUBSET Nat, next : Nat]
    BY <1>4, <1>5, <1>7
  <2>3. QED
    BY <1>2, <2>1, <2>2, <1>8, <1>9, PassMoves

(* More jobs leave no more undelivered. *)
LEMMA JobsServe ==
  ASSUME E!DeliveryInv, UNCHANGED <<v2, v3, v4, v5, v6, v10, v11>>, v7 \subseteq v7'
  PROVE  E!NothingUndelivered'
<1>1. \A g, i : Served(v7, g, i) => Served(v7', g, i)
  BY DEF Served
<1>2. AllServed(v2, v3, v4, v5, v6, v7, v10, v11)
  BY UndeliveredTerms DEF E!DeliveryInv
<1>3. AllServed(v2, v3, v4, v5, v6, v7', v10, v11)
  BY <1>1, <1>2 DEF AllServed
<1>4. QED
  BY <1>3, UndeliveredNext

(* The pass looks at the routine. *)
LEMMA DeliveryEnqueued ==
  ASSUME E!DeliveryInv, E!EnqueueDelivery
  PROVE  E!DeliveryInv'
<1>1. /\ UNCHANGED <<v1, v2, v3, v4, v5, v6, v7, v9, v10, v11, v12>>
      /\ v8.at = "reading" /\ v8' \in {[v8 EXCEPT !.at = "inserting"], E!NoPass}
  BY DEF E!EnqueueDelivery, E!outbox, E!cursors, E!requests
<1>2. /\ Len(v3) \in Nat /\ v4 \in Nat /\ v4 <= Len(v3) /\ v5 \in Nat /\ v6 \in Nat /\ v6 <= v5
      /\ v8 \in [at : {"idle", "reading", "inserting", "advancing"}, of : {"event", "schedule"},
                 keys : SUBSET SUBSET Nat, next : Nat]
  BY TriggerTypes DEF E!DeliveryInv, E!TypeOK
<1>3. /\ Underway(v2, v8)
      /\ v8.at # "idle" /\ v8.of = "event" => EventsCovered(v2, v3, v4, v7, v8.keys, v8.next)
      /\ v8.at # "idle" /\ v8.of = "schedule" =>
           InstantsCovered(v2, v5, v6, v7, v8.keys, v8.next, v10)
  BY CoversTerms DEF E!DeliveryInv
<1>4. CASE v8' = E!NoPass
  <2>1. E!PassCovers'
    BY <1>4, NoPassFields, CoversNext DEF Underway
  <2>2. E!NothingUndelivered'
    BY <1>1, JobsServe
  <2>3. v8' \in [at : {"idle", "reading", "inserting", "advancing"}, of : {"event", "schedule"},
                 keys : SUBSET SUBSET Nat, next : Nat]
    BY <1>4 DEF E!NoPass
  <2>4. QED
    BY <1>1, <1>2, <2>1, <2>2, <2>3, PassMoves
<1>5. CASE v8' = [v8 EXCEPT !.at = "inserting"]
  <2>1. v8' = [at |-> "inserting", of |-> v8.of, keys |-> v8.keys, next |-> v8.next]
    BY <1>2, <1>5
  <2>2. E!PassCovers'
    BY <1>1, <1>3, <2>1, CoversNext DEF Underway
  <2>3. E!NothingUndelivered'
    BY <1>1, JobsServe
  <2>4. v8' \in [at : {"idle", "reading", "inserting", "advancing"}, of : {"event", "schedule"},
                 keys : SUBSET SUBSET Nat, next : Nat]
    BY <1>2, <2>1
  <2>5. QED
    BY <1>1, <1>2, <2>2, <2>3, <2>4, PassMoves
<1>6. QED
  BY <1>1, <1>4, <1>5

(* A batch or an instant is enqueued, or the pass fails there. *)
LEMMA JobEnqueued ==
  ASSUME E!DeliveryInv, E!EnqueueRoutineJob
  PROVE  E!DeliveryInv'
<1>1. PICK events, left :
        /\ events \in v8.keys /\ left = v8.keys \ {events}
        /\ v8.at = "inserting"
        /\ \/ /\ v2[v8.of] >= 0
              /\ v7' = IF E!Accepted(v8.of, events) THEN v7
                       ELSE v7 \cup {[of |-> v8.of, events |-> events]}
              /\ v8' \in {[v8 EXCEPT !.keys = left,
                                    !.at = IF left = {} THEN "advancing" ELSE "reading"], E!NoPass}
           \/ v7' = v7 /\ v8' = E!NoPass
  BY DEF E!EnqueueRoutineJob
<1>2. UNCHANGED <<v1, v2, v3, v4, v5, v6, v9, v10, v11, v12>>
  BY DEF E!EnqueueRoutineJob, E!outbox, E!cursors, E!requests
<1>3. /\ Len(v3) \in Nat /\ v4 \in Nat /\ v4 <= Len(v3) /\ v5 \in Nat /\ v6 \in Nat /\ v6 <= v5
      /\ v8 \in [at : {"idle", "reading", "inserting", "advancing"}, of : {"event", "schedule"},
                 keys : SUBSET SUBSET Nat, next : Nat]
      /\ v8.of \in E!Kinds /\ v8.next \in Nat /\ v7 \subseteq [of : E!Kinds, events : SUBSET Nat]
      /\ events \in SUBSET Nat
  <2>1. /\ v8 \in [at : {"idle", "reading", "inserting", "advancing"}, of : {"event", "schedule"},
                   keys : SUBSET SUBSET Nat, next : Nat]
        /\ v7 \subseteq [of : E!Kinds, events : SUBSET Nat]
    BY DEF E!DeliveryInv, E!TypeOK
  <2>2. v8.of \in {"event", "schedule"} /\ v8.next \in Nat /\ v8.keys \in SUBSET SUBSET Nat
    BY <2>1
  <2>3. events \in SUBSET Nat
    BY <1>1, <2>2
  <2>4. QED
    BY <2>1, <2>2, <2>3, TriggerTypes DEF E!DeliveryInv, E!Kinds
<1>4. /\ Underway(v2, v8)
      /\ v8.of = "event" => EventsCovered(v2, v3, v4, v7, v8.keys, v8.next)
      /\ v8.of = "schedule" => InstantsCovered(v2, v5, v6, v7, v8.keys, v8.next, v10)
  BY <1>1, CoversTerms DEF E!DeliveryInv
<1>5. CASE v7' = v7 /\ v8' = E!NoPass
  <2>1. E!PassCovers'
    BY <1>5, NoPassFields, CoversNext DEF Underway
  <2>2. E!NothingUndelivered'
    BY <1>2, <1>5, JobsServe
  <2>3. v8' \in [at : {"idle", "reading", "inserting", "advancing"}, of : {"event", "schedule"},
                 keys : SUBSET SUBSET Nat, next : Nat]
    BY <1>5 DEF E!NoPass
  <2>4. QED
    BY <1>2, <1>3, <1>5, <2>1, <2>2, <2>3, PassMoves
<1>6. CASE /\ v2[v8.of] >= 0
           /\ v7' = IF E!Accepted(v8.of, events) THEN v7
                    ELSE v7 \cup {[of |-> v8.of, events |-> events]}
           /\ v8' \in {[v8 EXCEPT !.keys = left,
                                 !.at = IF left = {} THEN "advancing" ELSE "reading"], E!NoPass}
  <2>1. v8.of = "event" => events = {i \in (v4 + 1) .. v8.next : v3[i]} /\ events # {}
    BY <1>1, <1>4 DEF EventsCovered
  <2>2. /\ v8.of = "event" =>
             /\ events \subseteq 1..Len(v3)
             /\ \A i, k \in events : \A m \in i..k : v3[m] => m \in events
             /\ \A i \in events : v3[i]
        /\ v8.of # "event" => \E i \in events : events = {i}
        /\ events # {}
    <3>1. CASE v8.of = "event"
      <4>1. v4 <= v8.next /\ v8.next <= Len(v3)
        BY <1>4, <3>1 DEF EventsCovered
      <4>2. events \subseteq 1..Len(v3)
        BY <1>3, <2>1, <3>1, <4>1
      <4>3. ASSUME NEW i \in events, NEW k \in events, NEW m \in i..k, v3[m] PROVE m \in events
        <5>1. i \in (v4 + 1) .. v8.next /\ k \in (v4 + 1) .. v8.next
          BY <2>1, <3>1, <4>3
        <5>2. m \in (v4 + 1) .. v8.next
          BY <1>3, <4>3, <5>1
        <5>3. QED
          BY <2>1, <3>1, <4>3, <5>2
      <4>4. QED
        BY <2>1, <3>1, <4>2, <4>3
    <3>2. CASE v8.of # "event"
      <4>1. v8.of = "schedule"
        BY <1>3, <3>2
      <4>2. events \in {{o} : o \in Grid(v5)}
        BY <1>1, <1>4, <4>1 DEF InstantsCovered
      <4>3. QED
        BY <3>2, <4>2
    <3>3. QED
      BY <3>1, <3>2
  <2>3. /\ v7' \subseteq [of : E!Kinds, events : SUBSET Nat] /\ v7 \subseteq v7' /\ E!WholeJobs'
        /\ \A i \in events : (v8.of = "event" => v3[i]) => Served(v7', v8.of, i)
    BY <1>2, <1>3, <1>6, <2>2, JobsGrow
  <2>4. E!NothingUndelivered'
    BY <1>2, <2>3, JobsServe
  <2>5. v8' \in [at : {"idle", "reading", "inserting", "advancing"}, of : {"event", "schedule"},
                 keys : SUBSET SUBSET Nat, next : Nat] /\ E!PassCovers'
    <3>1. CASE v8' = E!NoPass
      <4>1. E!PassCovers'
        BY <3>1, NoPassFields, CoversNext DEF Underway
      <4>2. QED
        BY <3>1, <4>1 DEF E!NoPass
    <3>2. CASE v8' = [v8 EXCEPT !.keys = left, !.at = IF left = {} THEN "advancing" ELSE "reading"]
      <4>1. v8' = [at |-> IF left = {} THEN "advancing" ELSE "reading", of |-> v8.of, keys |-> left,
                   next |-> v8.next]
        BY <1>3, <3>2
      <4>2. left \subseteq v8.keys /\ left \in SUBSET SUBSET Nat
        BY <1>1, <1>3
      <4>3. v8' \in [at : {"idle", "reading", "inserting", "advancing"}, of : {"event", "schedule"},
                     keys : SUBSET SUBSET Nat, next : Nat]
        BY <1>3, <4>1, <4>2
      <4>4. Underway(v2, v8')
        BY <1>1, <1>4, <4>1 DEF Underway
      <4>5. ASSUME v8.of = "event" PROVE EventsCovered(v2, v3, v4, v7', left, v8.next)
        <5>1. EventsCovered(v2, v3, v4, v7, v8.keys, v8.next)
          BY <1>4, <4>5
        <5>2. \A i \in (v4 + 1) .. v8.next : v3[i] => Served(v7', "event", i)
          BY <2>1, <2>3, <4>5
        <5>3. QED
          BY <4>2, <5>1, <5>2 DEF EventsCovered
      <4>6. ASSUME v8.of = "schedule" PROVE InstantsCovered(v2, v5, v6, v7', left, v8.next, v10)
        <5>1. InstantsCovered(v2, v5, v6, v7, v8.keys, v8.next, v10)
          BY <1>4, <4>6
        <5>2. \A i \in events : Served(v7', "schedule", i)
          BY <2>3, <4>6
        <5>3. \A g, i : Served(v7, g, i) => Served(v7', g, i)
          BY <2>3 DEF Served
        <5>4. \A o : {o} \in v8.keys => {o} \in left \/ Served(v7', "schedule", o)
          BY <1>1, <5>2
        <5>5. QED
          BY <4>2, <5>1, <5>3, <5>4 DEF InstantsCovered
      <4>7. E!PassCovers'
        BY <1>2, <4>1, <4>4, <4>5, <4>6, CoversNext
      <4>8. QED
        BY <4>3, <4>7
    <3>3. QED
      BY <1>6, <3>1, <3>2
  <2>6. E!TypeOK'
    BY <1>2, <2>3, <2>5 DEF E!DeliveryInv, E!TypeOK, E!Absent, E!Gone, E!Kinds
  <2>7. E!RequestsKnown'
    BY <1>2 DEF E!DeliveryInv, E!RequestsKnown, E!Absent
  <2>8. QED
    BY <2>3, <2>4, <2>5, <2>6, <2>7 DEF E!DeliveryInv
<1>7. QED
  BY <1>1, <1>5, <1>6

(* The cursor goes where the pass looked to, or stays. *)
LEMMA CursorAdvanced ==
  ASSUME E!DeliveryInv, E!AdvanceCursor
  PROVE  E!DeliveryInv'
<1>1. /\ UNCHANGED <<v1, v2, v3, v5, v7, v9, v10, v11, v12>>
      /\ v8.at = "advancing" /\ v8' = E!NoPass
      /\ \/ v4' = v4 /\ v6' = v6
         \/ v8.of = "event" /\ v4' = v8.next /\ v6' = v6
         \/ v8.of # "event" /\ v6' = v8.next /\ v4' = v4
  BY DEF E!AdvanceCursor, E!outbox, E!requests
<1>2. /\ Len(v3) \in Nat /\ v4 \in Nat /\ v4 <= Len(v3) /\ v5 \in Nat /\ v6 \in Nat /\ v6 <= v5
      /\ v8.of \in {"event", "schedule"} /\ v8.next \in Nat
      /\ v2["event"] \in Int /\ v2["schedule"] \in Int
  BY TriggerTypes DEF E!DeliveryInv, E!TypeOK, E!Kinds
<1>3. /\ v8.keys = {}
      /\ v8.of = "event" => EventsCovered(v2, v3, v4, v7, {}, v8.next)
      /\ v8.of = "schedule" => InstantsCovered(v2, v5, v6, v7, {}, v8.next, v10)
  <2>1. v8.keys = {}
    BY <1>1, CoversTerms DEF E!DeliveryInv, Underway
  <2>2. /\ v8.of = "event" => EventsCovered(v2, v3, v4, v7, v8.keys, v8.next)
        /\ v8.of = "schedule" => InstantsCovered(v2, v5, v6, v7, v8.keys, v8.next, v10)
    BY <1>1, CoversTerms DEF E!DeliveryInv
  <2>3. QED
    BY <2>1, <2>2
<1>4. AllServed(v2, v3, v4, v5, v6, v7, v10, v11)
  BY UndeliveredTerms DEF E!DeliveryInv
<1>5. AllServed(v2, v3, v4', v5, v6', v7, v10, v11) /\ v4' \in 0..Len(v3) /\ v6' \in 0..v5
  <2>1. CASE v4' = v4 /\ v6' = v6
    BY <1>2, <1>4, <2>1
  <2>2. CASE v8.of = "event" /\ v4' = v8.next /\ v6' = v6
    <3>1. EventsCovered(v2, v3, v4, v7, {}, v8.next)
      BY <1>3, <2>2
    <3>2. v2["event"] >= 0 => \A i \in (v2["event"] + 1) .. v8.next : v3[i] => Served(v7, "event", i)
      <4> SUFFICES ASSUME v2["event"] >= 0, NEW i \in (v2["event"] + 1) .. v8.next, v3[i]
                   PROVE  Served(v7, "event", i)
        OBVIOUS
      <4>1. i \in (v2["event"] + 1) .. v4 \/ i \in (v4 + 1) .. v8.next
        BY <1>2
      <4>2. QED
        BY <1>4, <3>1, <4>1 DEF AllServed, EventsCovered
    <3>3. v8.next <= Len(v3)
      BY <3>1 DEF EventsCovered
    <3>4. QED
      BY <1>2, <1>4, <2>2, <3>2, <3>3 DEF AllServed
  <2>3. CASE v8.of # "event" /\ v6' = v8.next /\ v4' = v4
    <3>1. InstantsCovered(v2, v5, v6, v7, {}, v8.next, v10)
      BY <1>2, <1>3, <2>3
    <3>2. v2["schedule"] >= 0 =>
            \A o \in Grid(v5) : v2["schedule"] < o /\ o <= v8.next => Served(v7, "schedule", o) \/ o \in v10
      <4> SUFFICES ASSUME v2["schedule"] >= 0, NEW o \in Grid(v5), v2["schedule"] < o, o <= v8.next
                   PROVE  Served(v7, "schedule", o) \/ o \in v10
        OBVIOUS
      <4>1. o \in Nat
        BY <1>2, GridFacts
      <4>2. o <= v6 \/ v6 < o
        BY <1>2, <4>1
      <4>3. QED
        BY <1>4, <3>1, <4>2 DEF AllServed, InstantsCovered
    <3>3. v8.next <= v5
      BY <3>1 DEF InstantsCovered
    <3>4. QED
      BY <1>2, <1>4, <2>3, <3>2, <3>3 DEF AllServed
  <2>4. QED
    BY <1>1, <2>1, <2>2, <2>3
<1>6. E!PassCovers'
  BY <1>1, NoPassFields, CoversNext DEF Underway
<1>7. E!NothingUndelivered'
  BY <1>1, <1>5, UndeliveredNext
<1>8. v8' \in [at : {"idle", "reading", "inserting", "advancing"}, of : {"event", "schedule"},
               keys : SUBSET SUBSET Nat, next : Nat]
  BY <1>1 DEF E!NoPass
<1>9. QED
  BY <1>1, <1>5, <1>6, <1>7, <1>8, PassMoves

(* A webhook's delivery has its job before it is answered. *)
LEMMA DeliveryInserted ==
  ASSUME E!DeliveryInv, E!DeliverInserts
  PROVE  E!DeliveryInv'
<1>1. PICK d : d = v9.from
  OBVIOUS
<1>2. /\ UNCHANGED <<v1, v2, v3, v4, v5, v6, v8, v10, v12>>
      /\ v9.at = "inserting" /\ v9' = E!NoRequest /\ v2["webhook"] >= 0
      /\ v7' = IF E!Accepted("webhook", {d}) THEN v7 ELSE v7 \cup {[of |-> "webhook", events |-> {d}]}
      /\ v11' \in {v11, v11 \cup {d}}
  BY <1>1 DEF E!DeliverInserts, E!outbox, E!cursors
<1>3. d \in v12.deliveries /\ d \in Nat /\ v5 \in Nat
  BY <1>1, <1>2, TriggerTypes DEF E!DeliveryInv, E!RequestsKnown
<1>4. /\ v7' \subseteq [of : E!Kinds, events : SUBSET Nat] /\ v7 \subseteq v7' /\ E!WholeJobs'
      /\ \A i \in {d} : ("webhook" = "event" => v3[i]) => Served(v7', "webhook", i)
  <2>1. "webhook" \in E!Kinds /\ {d} \in SUBSET Nat /\ {d} # {} /\ "webhook" # "event" /\ v3' = v3
        /\ \E i \in {d} : {d} = {i}
    BY <1>2, <1>3 DEF E!Kinds
  <2>2. QED
    BY <1>2, <2>1, JobsGrow
<1>5. Served(v7', "webhook", d)
  BY <1>4
<1>6. E!PassCovers' /\ E!NothingUndelivered'
  <2>1. \A x \in v11' : x \in v11 \/ Served(v7', "webhook", x)
    BY <1>2, <1>5
  <2>2. QED
    BY <1>2, <1>4, <2>1, PassesKept
<1>7. E!TypeOK'
  <2>1. v11' \subseteq v12.deliveries
    BY <1>2, <1>3 DEF E!DeliveryInv, E!TypeOK
  <2>2. QED
    BY <1>2, <1>4, <2>1 DEF E!DeliveryInv, E!TypeOK, E!NoRequest, E!Absent, E!Gone, E!Kinds
<1>8. E!RequestsKnown'
  BY <1>2, NoPassFields DEF E!RequestsKnown, E!Absent
<1>9. QED
  BY <1>4, <1>6, <1>7, <1>8 DEF E!DeliveryInv

(* A crash leaves what is stored. *)
LEMMA TriggersRestart ==
  ASSUME E!DeliveryInv, E!Restart
  PROVE  E!DeliveryInv'
<1>1. /\ UNCHANGED <<v1, v2, v3, v4, v5, v6, v7, v10, v11, v12>>
      /\ v8' = E!NoPass /\ v9' = E!NoRequest
  BY DEF E!Restart, E!outbox, E!cursors
<1>2. /\ Len(v3) \in Nat /\ v5 \in Nat
  BY TriggerTypes DEF E!DeliveryInv
<1>3. E!TypeOK'
  BY <1>1 DEF E!DeliveryInv, E!TypeOK, E!NoPass, E!NoRequest, E!Absent, E!Gone, E!Kinds
<1>4. E!WholeJobs'
  BY <1>1, <1>2, WholeKept
<1>5. E!PassCovers'
  BY <1>1, NoPassFields, CoversNext DEF Underway
<1>6. E!NothingUndelivered'
  BY <1>1, JobsServe
<1>7. E!RequestsKnown'
  BY <1>1, NoPassFields DEF E!DeliveryInv, E!RequestsKnown, E!Absent
<1>8. QED
  BY <1>3, <1>4, <1>5, <1>6, <1>7 DEF E!DeliveryInv

LEMMA TriggersInit == E!Init => E!DeliveryInv
<1> SUFFICES ASSUME E!Init PROVE E!DeliveryInv
  OBVIOUS
<1>1. /\ v12 \in TriggerBounds /\ v1 = TRUE /\ v2 = [g \in E!Kinds |-> E!Absent] /\ v3 = <<>> /\ v4 = 0
      /\ v5 = 0 /\ v6 = 0 /\ v7 = {} /\ v8 = E!NoPass /\ v10 = {} /\ v9 = E!NoRequest /\ v11 = {}
  BY DEF E!Init
<1>2. v12.events \in Nat /\ v12.time \in Nat /\ Len(v3) = 0 /\ v3 \in Seq(BOOLEAN)
  BY <1>1, DeliveryAssumption
<1>3. E!TypeOK
  BY <1>1, <1>2 DEF E!TypeOK, E!NoPass, E!NoRequest, E!Absent, E!Gone, E!Kinds
<1>4. E!WholeJobs
  BY <1>1 DEF E!WholeJobs
<1>5. E!PassCovers
  BY <1>1, NoPassFields, CoversTerms DEF Underway
<1>6. E!RequestsKnown
  BY <1>1, NoPassFields DEF E!RequestsKnown
<1>7. E!NothingUndelivered
  <2>1. \A g \in E!Kinds : ~(v2[g] >= 0)
    BY <1>1 DEF E!Absent
  <2>2. AllServed(v2, v3, v4, v5, v6, v7, v10, v11)
    BY <2>1 DEF AllServed, E!Kinds
  <2>3. QED
    BY <2>2, UndeliveredTerms
<1>8. QED
  BY <1>3, <1>4, <1>5, <1>6, <1>7 DEF E!DeliveryInv

LEMMA TriggersStep == E!DeliveryInv /\ [E!Next]_E!vars => E!DeliveryInv'
<1> SUFFICES ASSUME E!DeliveryInv, [E!Next]_E!vars PROVE E!DeliveryInv'
  OBVIOUS
<1>1. CASE UNCHANGED E!vars
  <2>1. UNCHANGED <<v1, v2, v3, v4, v5, v6, v7, v8, v9, v10, v11, v12>>
    BY <1>1 DEF E!vars
  <2>2. v1' \in BOOLEAN
    BY <2>1 DEF E!DeliveryInv, E!TypeOK
  <2>3. QED
    BY <2>1, <2>2, RequestAside
<1>2. CASE E!Next
  <2>1. CASE \/ E!Toggle \/ E!DeliverEnqueues \/ E!RequestFails
             \/ \E g \in E!Kinds : E!CreateReads(g) \/ E!DeleteClaims(g)
             \/ \E d \in v12.deliveries : E!DeliverReads(d)
    BY <2>1, RequestsMove
  <2>2. CASE E!Tick \/ \E matches \in BOOLEAN : E!Publish(matches)
    BY <2>2, OutboxMoves
  <2>3. CASE E!CreateTrigger
    BY <2>3, TriggerCreated
  <2>4. CASE E!DeleteTrigger
    BY <2>4, TriggerDeleted
  <2>5. CASE E!DeliverInserts
    BY <2>5, DeliveryInserted
  <2>6. CASE E!EvaluateEvents
    BY <2>6, EventsEvaluated
  <2>7. CASE E!EvaluateSchedules
    BY <2>7, SchedulesEvaluated
  <2>8. CASE E!EnqueueDelivery
    BY <2>8, DeliveryEnqueued
  <2>9. CASE E!EnqueueRoutineJob
    BY <2>9, JobEnqueued
  <2>10. CASE E!AdvanceCursor
    BY <2>10, CursorAdvanced
  <2>11. CASE E!Restart
    BY <2>11, TriggersRestart
  <2>12. QED
    BY <1>2, <2>1, <2>2, <2>3, <2>4, <2>5, <2>6, <2>7, <2>8, <2>9, <2>10, <2>11 DEF E!Next
<1>3. QED
  BY <1>1, <1>2

(* The invariant of a behaviour of RoutineTriggers in the composition. *)
TriggersHere == component = "triggers" => E!DeliveryInv

(* It holds in every state of a behaviour. *)
LEMMA TriggersHold == RuntimeSpec => []TriggersHere
<1>1. RuntimeInit => TriggersHere
  BY TriggersInit DEF RuntimeInit, TriggersHere
<1>2. TriggersHere /\ [RuntimeNext]_all => TriggersHere'
  <2> SUFFICES ASSUME TriggersHere, [RuntimeNext]_all, component' = "triggers" PROVE E!DeliveryInv'
    BY DEF TriggersHere
  <2>1. component = "triggers" /\ [E!Next]_E!vars
    BY DEF RuntimeNext, all, E!vars, E!outbox
  <2>2. QED
    BY <2>1, TriggersStep DEF TriggersHere
<1>3. QED
  BY <1>1, <1>2, PTL DEF RuntimeSpec

(* An event or an instant that a trigger's cursor has passed has its job, or the policy *)
(* left it out, and a webhook's delivery that was answered has its job: for every size  *)
(* of a batch and of a pass, every schedule, grace and policy, and any number of events *)
(* and instants (evaluate_event_triggers, evaluate_schedules, deliver_trigger).         *)
THEOREM NothingUndeliveredAlways == RuntimeSpec => []NothingUndelivered
<1>1. TriggersHere => NothingUndelivered
  BY DEF TriggersHere, E!DeliveryInv, NothingUndelivered
<1>2. QED
  BY <1>1, TriggersHold, PTL
=============================================================================
