-------------------------- MODULE ConnectorProofs --------------------------
(***************************************************************************)
(* Theorems about the plugins and the browser that the owner's requests    *)
(* and the tools of turns share. Each part proves the inductive invariant  *)
(* of one component for every value of its constants; the variables of the *)
(* component are the slots of the composition, in the order of its         *)
(* INSTANCE.  Last, with the other two modules, the types of all           *)
(* components of the owner's side.                                         *)
(***************************************************************************)
EXTENDS OwnerSideProofs, ClientProofs

-----------------------------------------------------------------------------
(* Plugins. Slots: v1 row, v2 vault, v3 flows, v4 sessions, v5 outbox, v6 takeover, *)
(* v7 call, v8 issued, v9 exchanged, v10 arrived, v11 mislaid.                      *)

(* The steps of a plugin request by name, and the row of a plugin that does not *)
(* exist.                                                                       *)
LEMMA PluginNames ==
  /\ P!Requests \subseteq P!CallSteps /\ "idle" \in P!CallSteps
  /\ {"filling", "inserting", "compensating", "beginning",
      "consenting", "exchanging", "storing", "recording", "linked", "failing", "linking",
      "revoking", "checking", "showing", "discovering", "toggling", "writing", "reconciling",
      "configuring", "expiring", "persisting", "purging", "erasing", "removing", "asking",
      "calling", "refreshing"} \subseteq P!CallSteps
  /\ P!Requests \cap {"idle", "inserting", "compensating", "exchanging", "refreshing"} = {}
  /\ P!Absent \in P!Row /\ P!Absent.kind = "none"
BY DEF P!Requests, P!CallSteps, P!Absent, P!Row, P!Kinds, P!Auths

(* The locals of a request that nobody sent. *)
LEMMA IdleCall == P!Idle \in P!Call /\ P!Idle.at = "idle" /\ P!CallKnows(P!Idle)
<1>1. P!Read(P!Absent) \in [kind : P!Kinds \cup {"none"}, auth : P!Auths, tools : BOOLEAN,
                            oauth : BOOLEAN, ingress : BOOLEAN]
  BY DEF P!Read, P!Absent, P!Auths
<1>2. P!Idle \in P!Call
  BY <1>1, PluginNames DEF P!Idle, P!Call
<1>3. P!Idle.at = "idle"
  BY DEF P!Idle
<1>4. QED
  BY <1>2, <1>3 DEF P!CallKnows

(* What a request keeps of a row. *)
ReadRow == [kind : P!Kinds \cup {"none"}, auth : P!Auths, tools : BOOLEAN, oauth : BOOLEAN, ingress : BOOLEAN]

(* Reading a row yields what a request keeps. *)
LEMMA ReadTypes == ASSUME NEW r \in P!Row PROVE P!Read(r) \in ReadRow
BY DEF P!Read, P!Row, ReadRow

(* A request goes on to a step in which it holds neither a session nor a flow. *)
Moves(c) ==
  \E q \in P!Call : /\ v7' = [v7 EXCEPT ![c] = q] /\ P!CallKnows(q)
                    /\ q.at \notin {"inserting", "compensating", "exchanging"}

(* No row becomes a connector, and no connector's session changes. *)
RowsKept ==
  /\ v1' \in [PluginIds -> P!Row]
  /\ \A p \in PluginIds : v1'[p].kind = "connector_mcp" =>
       v1[p].kind = "connector_mcp" /\ v1'[p].session = v1[p].session

(* A request moves and takes nothing but pending flows. *)
Quietly(c) ==
  /\ Moves(c) /\ RowsKept /\ v2' \subseteq PluginIds \X P!Secrets
  /\ v3' \in [AuthFlows -> PluginIds \cup {None}] /\ \A f \in AuthFlows : v3'[f] \in {v3[f], None}
  /\ v5' \in [WebhookIds -> Nat] /\ v10' \in 0..PluginCalls /\ UNCHANGED <<v4, v6, v8, v9, v11>>

(* What the locals are after one request moved. *)
LEMMA CallMoved ==
  ASSUME P!TypeOK, NEW c \in PluginCallers, NEW q \in P!Call, v7' = [v7 EXCEPT ![c] = q]
  PROVE  /\ v7' \in [PluginCallers -> P!Call] /\ v7'[c] = q
         /\ \A x \in PluginCallers \ {c} : v7'[x] = v7[x]
BY DEF P!TypeOK

(* While no session is created or deleted, those in use stay: only creations hold *)
(* one, and no row takes one over.                                                *)
LEMMA SessionsStay ==
  ASSUME P!PluginsInv, NEW c \in PluginCallers, NEW q \in P!Call, v7' = [v7 EXCEPT ![c] = q],
         q.at \notin {"inserting", "compensating"}, RowsKept, v4' = v4, v11' = v11
  PROVE  P!SessionsHeld' /\ P!ConnectorHasSession'
<1>0. P!TypeOK /\ P!SessionsHeld /\ P!ConnectorHasSession
  BY DEF P!PluginsInv
<1>1. /\ v7'[c] = q /\ \A x \in PluginCallers \ {c} : v7'[x] = v7[x]
  BY <1>0, CallMoved
<1>2. P!ConnectorHasSession'
  BY <1>0 DEF P!ConnectorHasSession, RowsKept
<1>3. ASSUME NEW x \in PluginCallers, P!Creates(x)'
      PROVE  P!Creates(x) /\ v7'[x] = v7[x]
  BY <1>1, <1>3 DEF P!Creates
<1>4. ASSUME NEW x \in PluginCallers, P!Creates(x)'
      PROVE  /\ v7'[x].session \in v4'
             /\ \A p \in PluginIds :
                  v1'[p].kind = "connector_mcp" /\ v1'[p].session = v7'[x].session
                    => v7'[x].at = "compensating" /\ p = v7'[x].plugin
  <2>1. P!Creates(x) /\ v7'[x] = v7[x]
    BY <1>3, <1>4
  <2>2. /\ v7[x].session \in v4
        /\ \A p \in PluginIds :
             v1[p].kind = "connector_mcp" /\ v1[p].session = v7[x].session
               => v7[x].at = "compensating" /\ p = v7[x].plugin
    BY <1>0, <2>1 DEF P!SessionsHeld, P!At, P!P
  <2>3. QED
    BY <2>1, <2>2 DEF RowsKept
<1>5. ASSUME NEW x \in PluginCallers, NEW y \in PluginCallers, P!Creates(x)', P!Creates(y)',
             v7'[x].session = v7'[y].session
      PROVE  x = y
  BY <1>0, <1>3, <1>5 DEF P!SessionsHeld
<1>6. P!SessionsHeld'
  BY <1>4, <1>5 DEF P!SessionsHeld, P!At, P!P
<1>7. QED
  BY <1>2, <1>6

(* While no flow is taken up, each stays unexchanged or exchanged as it was. *)
LEMMA FlowsStay ==
  ASSUME P!PluginsInv, NEW c \in PluginCallers, NEW q \in P!Call, v7' = [v7 EXCEPT ![c] = q],
         q.at # "exchanging", \A f \in AuthFlows : v3'[f] \in {v3[f], None}, UNCHANGED <<v8, v9>>
  PROVE  P!FlowsHeld' /\ P!ExchangedOnce'
<1>0. P!TypeOK /\ P!FlowsHeld /\ P!ExchangedOnce
  BY DEF P!PluginsInv
<1>1. /\ v7'[c] = q /\ \A x \in PluginCallers \ {c} : v7'[x] = v7[x]
  BY <1>0, CallMoved
<1>2. ASSUME NEW x \in PluginCallers, NEW f \in AuthFlows, P!Exchanges(x, f)'
      PROVE  P!Exchanges(x, f)
  BY <1>1, <1>2 DEF P!Exchanges, P!At
<1>3. ASSUME NEW f \in AuthFlows
      PROVE  /\ v3'[f] # None \/ (\E x \in PluginCallers : P!Exchanges(x, f)') => f \in v8' /\ v9'[f] = 0
             /\ f \notin v8' => v9'[f] = 0
             /\ \A x, y \in PluginCallers : P!Exchanges(x, f)' /\ P!Exchanges(y, f)' => x = y
             /\ \A x \in PluginCallers : P!Exchanges(x, f)' => v3'[f] = None
  <2>1. /\ v3[f] # None \/ (\E x \in PluginCallers : P!Exchanges(x, f)) => f \in v8 /\ v9[f] = 0
        /\ f \notin v8 => v9[f] = 0
        /\ \A x, y \in PluginCallers : P!Exchanges(x, f) /\ P!Exchanges(y, f) => x = y
        /\ \A x \in PluginCallers : P!Exchanges(x, f) => v3[f] = None
    BY <1>0 DEF P!FlowsHeld
  <2>2. v3'[f] = v3[f] \/ v3'[f] = None
    OBVIOUS
  <2>3. \A x \in PluginCallers : P!Exchanges(x, f)' => P!Exchanges(x, f)
    BY <1>2
  <2>4. QED
    BY <2>1, <2>2, <2>3
<1>4. P!FlowsHeld'
  BY <1>3 DEF P!FlowsHeld
<1>5. P!ExchangedOnce'
  BY <1>0 DEF P!ExchangedOnce
<1>6. QED
  BY <1>4, <1>5

(* Such a step keeps the invariant of the plugins. *)
LEMMA QuietlyKeeps ==
  ASSUME P!PluginsInv, NEW c \in PluginCallers, Quietly(c)
  PROVE  P!PluginsInv'
<1>0. P!TypeOK /\ \A x \in PluginCallers : P!CallKnows(v7[x])
  BY DEF P!PluginsInv
<1>1. PICK q \in P!Call : /\ v7' = [v7 EXCEPT ![c] = q] /\ P!CallKnows(q)
                          /\ q.at \notin {"inserting", "compensating", "exchanging"}
  BY DEF Quietly, Moves
<1>2. /\ v7' \in [PluginCallers -> P!Call] /\ v7'[c] = q
      /\ \A x \in PluginCallers \ {c} : v7'[x] = v7[x]
  BY <1>0, <1>1, CallMoved
<1>3. P!TypeOK'
  BY <1>0, <1>2 DEF P!TypeOK, Quietly, RowsKept
<1>4. \A x \in PluginCallers : P!CallKnows(v7'[x])
  BY <1>0, <1>1, <1>2
<1>5. (\A x \in PluginCallers : P!CallKnows(v7[x]))'
  BY <1>4 DEF P!CallKnows
<1>6. P!SessionsHeld' /\ P!ConnectorHasSession'
  BY <1>1, SessionsStay DEF Quietly
<1>7. P!FlowsHeld' /\ P!ExchangedOnce'
  BY <1>1, FlowsStay DEF Quietly
<1>8. QED
  BY <1>3, <1>5, <1>6, <1>7 DEF P!PluginsInv

(* The steps that hold neither a session nor a flow nor a way back. *)
Settled == P!CallSteps \ {"inserting", "compensating", "exchanging", "refreshing"}

(* An answered request holds nothing. *)
LEMMA AnswerMoves == ASSUME NEW c \in PluginCallers, P!Answer(c) PROVE Moves(c)
<1>1. P!Idle \in P!Call /\ P!CallKnows(P!Idle) /\ P!Idle.at \notin {"inserting", "compensating", "exchanging"}
  BY IdleCall
<1>2. v7' = [v7 EXCEPT ![c] = P!Idle]
  BY DEF P!Answer
<1>3. QED
  BY <1>1, <1>2 DEF Moves

(* A request may go on to any settled step. *)
LEMMA GotoMoves ==
  ASSUME P!PluginsInv, NEW c \in PluginCallers, v7[c].at # "idle", NEW step \in Settled, P!Goto(c, step)
  PROVE  Moves(c)
<1> DEFINE q == [v7[c] EXCEPT !.at = step]
<1>1. v7 \in [PluginCallers -> P!Call] /\ v7[c].plugin \in PluginIds
  BY DEF P!PluginsInv, P!TypeOK, P!CallKnows
<1>2. q \in P!Call /\ q.at = step /\ q.plugin = v7[c].plugin
  BY <1>1 DEF P!Call, Settled
<1>3. v7' = [v7 EXCEPT ![c] = q]
  BY <1>1 DEF P!Goto
<1>4. P!CallKnows(q) /\ q.at \notin {"inserting", "compensating", "exchanging"}
  BY <1>1, <1>2 DEF P!CallKnows, Settled
<1> HIDE DEF q
<1>5. QED
  BY <1>2, <1>3, <1>4 DEF Moves

(* A request that goes on with the row as it is, or fails, holds nothing. *)
LEMMA WithRowMoves ==
  ASSUME P!PluginsInv, NEW c \in PluginCallers, v7[c].at # "idle", NEW step \in Settled, P!WithRow(c, step)
  PROVE  Moves(c)
<1>1. /\ v7 \in [PluginCallers -> P!Call] /\ v7[c].plugin \in PluginIds
      /\ v1 \in [PluginIds -> P!Row]
  BY DEF P!PluginsInv, P!TypeOK, P!CallKnows
<1>2. CASE P!Answer(c)
  BY <1>2, AnswerMoves
<1>3. CASE v7' = [v7 EXCEPT ![c].at = step, ![c].saw = P!Read(v1[v7[c].plugin])]
  <2> DEFINE s == P!Read(v1[v7[c].plugin])
             q == [v7[c] EXCEPT !.at = step, !.saw = s]
  <2>1. s \in ReadRow
    BY <1>1, ReadTypes
  <2>2. v7' = [v7 EXCEPT ![c] = q]
    BY <1>1, <1>3
  <2> HIDE DEF s
  <2>a. v7[c] \in P!Call /\ step \in P!CallSteps
    BY <1>1 DEF Settled
  <2>3. q \in P!Call /\ q.at = step /\ q.plugin = v7[c].plugin
    BY <2>a, <2>1 DEF P!Call, ReadRow
  <2>4. P!CallKnows(q) /\ q.at \notin {"inserting", "compensating", "exchanging"}
    BY <1>1, <2>3 DEF P!CallKnows, Settled
  <2> HIDE DEF q
  <2>5. QED
    BY <2>2, <2>3, <2>4 DEF Moves
<1>4. QED
  BY <1>2, <1>3 DEF P!WithRow, P!P

(* A write that leaves kind and session of a row makes no connector. *)
LEMMA RowWritten ==
  ASSUME P!TypeOK, NEW p \in PluginIds, NEW r \in P!Row, v1' = [v1 EXCEPT ![p] = r],
         r.kind = "connector_mcp" => v1[p].kind = "connector_mcp" /\ r.session = v1[p].session
  PROVE  RowsKept
<1>1. v1' \in [PluginIds -> P!Row] /\ v1'[p] = r /\ \A x \in PluginIds \ {p} : v1'[x] = v1[x]
  BY DEF P!TypeOK
<1>2. QED
  BY <1>1 DEF RowsKept

(* The states of a connection. *)
Statuses == {"connect", "waiting", "reopen", "connected", "error"}

(* Rows that nobody writes. *)
LEMMA RowsSame == ASSUME P!TypeOK, v1' = v1 PROVE RowsKept
BY DEF RowsKept, P!TypeOK

(* update_plugin_connection leaves kind and session. *)
LEMMA ConnectionKeepsRows ==
  ASSUME P!TypeOK, NEW p \in PluginIds, NEW e \in BOOLEAN, NEW s \in Statuses, NEW a \in P!Auths,
         NEW t \in BOOLEAN, P!UpdatePluginConnection(p, e, s, a, t)
  PROVE  RowsKept
<1>1. v1 \in [PluginIds -> P!Row]
  BY DEF P!TypeOK
<1> DEFINE r == [v1[p] EXCEPT !.enabled = e, !.status = s, !.auth = a, !.tools = t]
<1> DEFINE y == [v1[p] EXCEPT !.enabled = e, !.status = s]
           z == [y EXCEPT !.auth = a, !.tools = t]
<1>a. y \in P!Row /\ y.kind = v1[p].kind /\ y.session = v1[p].session
  <2>1. v1[p] \in P!Row
    BY <1>1
  <2>2. [v1[p] EXCEPT !.enabled = e] \in P!Row
    BY <2>1 DEF P!Row
  <2>3. y = [[v1[p] EXCEPT !.enabled = e] EXCEPT !.status = s]
    BY <2>1 DEF P!Row
  <2>4. QED
    BY <2>1, <2>2, <2>3 DEF P!Row, Statuses
<1>b. r = z
  OBVIOUS
<1> HIDE DEF y
<1>c. z \in P!Row /\ z.kind = y.kind /\ z.session = y.session
  BY <1>a DEF P!Row
<1> HIDE DEF z, r
<1>2. r \in P!Row /\ r.kind = v1[p].kind /\ r.session = v1[p].session
  BY <1>a, <1>b, <1>c
<1> USE DEF r
<1>3. CASE v1' = v1
  BY <1>3, RowsSame
<1>4. CASE v1' = [v1 EXCEPT ![p].enabled = e, ![p].status = s, ![p].auth = a, ![p].tools = t]
  <2>1. v1' = [v1 EXCEPT ![p] = r]
    BY <1>1, <1>4
  <2> HIDE DEF r
  <2>2. QED
    BY <1>2, <2>1, RowWritten
<1>5. QED
  BY <1>3, <1>4 DEF P!UpdatePluginConnection

(* update_plugin_configuration leaves kind and session. *)
LEMMA ConfigurationKeepsRows ==
  ASSUME P!TypeOK, NEW p \in PluginIds, NEW o \in BOOLEAN, NEW i \in BOOLEAN,
         P!UpdatePluginConfiguration(p, o, i)
  PROVE  RowsKept
<1>1. v1 \in [PluginIds -> P!Row]
  BY DEF P!TypeOK
<1> DEFINE r == [v1[p] EXCEPT !.oauth = o, !.ingress = i]
<1>2. r \in P!Row /\ r.kind = v1[p].kind /\ r.session = v1[p].session
  BY <1>1 DEF P!Row
<1>3. CASE v1' = v1
  BY <1>3, RowsSame
<1>4. CASE v1' = [v1 EXCEPT ![p].oauth = o, ![p].ingress = i]
  <2>1. v1' = [v1 EXCEPT ![p] = r]
    BY <1>1, <1>4
  <2> HIDE DEF r
  <2>2. QED
    BY <1>2, <2>1, RowWritten
<1>5. QED
  BY <1>3, <1>4 DEF P!UpdatePluginConfiguration

(* set_plugin_assignment leaves kind and session. *)
LEMMA AssignmentKeepsRows ==
  ASSUME P!TypeOK, NEW p \in PluginIds, NEW on \in BOOLEAN, P!SetPluginAssignment(p, on)
  PROVE  RowsKept
<1>1. v1 \in [PluginIds -> P!Row]
  BY DEF P!TypeOK
<1> DEFINE r == [v1[p] EXCEPT !.assigned = on]
<1>2. r \in P!Row /\ r.kind = v1[p].kind /\ r.session = v1[p].session
  BY <1>1 DEF P!Row
<1>3. CASE v1' = v1
  BY <1>3, RowsSame
<1>4. CASE v1' = [v1 EXCEPT ![p].assigned = on]
  <2>1. v1' = [v1 EXCEPT ![p] = r]
    BY <1>1, <1>4
  <2> HIDE DEF r
  <2>2. QED
    BY <1>2, <2>1, RowWritten
<1>5. QED
  BY <1>3, <1>4 DEF P!SetPluginAssignment

(* A deleted row is no connector. *)
LEMMA DeletionKeepsRows ==
  ASSUME P!TypeOK, NEW p \in PluginIds, P!DeletePlugin(p)
  PROVE  RowsKept
BY PluginNames, RowWritten DEF P!DeletePlugin

(* What create_plugin writes. *)
LEMMA CreatedRow ==
  ASSUME P!TypeOK, NEW p \in PluginIds, NEW kind \in P!Kinds, NEW headers \in BOOLEAN,
         NEW s \in ConnectorSessions \cup {None}, P!CreatePlugin(p, kind, headers, s)
  PROVE  \E r \in P!Row : r.kind = kind /\ r.session = s /\ v1' = [v1 EXCEPT ![p] = r]
<1> DEFINE r == [P!Absent EXCEPT !.kind = kind, !.session = s,
                   !.headers = headers, !.auth = IF headers THEN "required" ELSE "not_required",
                   !.enabled = (kind = "builtin_memory"),
                   !.status = IF kind = "builtin_memory" THEN "connected" ELSE "connect"]
<1>1. v1' = [v1 EXCEPT ![p] = r]
  BY DEF P!CreatePlugin
<1>2. r \in P!Row /\ r.kind = kind /\ r.session = s
  <2>1. CASE kind = "builtin_memory"
    BY <2>1 DEF P!Absent, P!Row, P!Auths
  <2>2. CASE kind # "builtin_memory"
    BY <2>2 DEF P!Absent, P!Row, P!Auths
  <2>3. QED
    BY <2>1, <2>2
<1> HIDE DEF r
<1>3. QED
  BY <1>1, <1>2

(* A step that moves a request and writes a row without its kind or session keeps *)
(* the invariant.                                                                 *)
LEMMA LocallyKeeps ==
  ASSUME P!PluginsInv, NEW c \in PluginCallers, Moves(c), RowsKept, UNCHANGED <<v2, P!Here>>
  PROVE  P!PluginsInv'
<1>1. UNCHANGED <<v2, v3, v4, v5, v6, v8, v9, v10, v11>>
  BY DEF P!Here
<1>2. P!TypeOK
  BY DEF P!PluginsInv
<1>3. Quietly(c)
  BY <1>1, <1>2 DEF Quietly, P!TypeOK
<1>4. QED
  BY <1>3, QuietlyKeeps

(* A request in service knows its plugin. *)
LEMMA CallerKnown ==
  ASSUME P!PluginsInv, NEW c \in PluginCallers, v7[c].at # "idle"
  PROVE  /\ P!TypeOK /\ v7[c] \in P!Call /\ P!P(c) \in PluginIds /\ v7[c].plugin = P!P(c)
         /\ v1[P!P(c)] \in P!Row
BY DEF P!PluginsInv, P!TypeOK, P!CallKnows, P!P

(* The writes of update_plugin_connection with constant flags. *)
LEMMA RowWrites ==
  ASSUME P!PluginsInv, NEW c \in PluginCallers, v7[c].at # "idle", NEW status \in Statuses,
         NEW auth \in P!Auths
  PROVE  /\ P!UpdatePluginConnection(P!P(c), TRUE, status, auth, TRUE) => RowsKept
         /\ P!UpdatePluginConnection(P!P(c), FALSE, status, auth, FALSE) => RowsKept
<1>1. P!TypeOK /\ P!P(c) \in PluginIds
  BY CallerKnown
<1>2. ASSUME P!UpdatePluginConnection(P!P(c), TRUE, status, auth, TRUE) PROVE RowsKept
  BY <1>1, <1>2, ConnectionKeepsRows
<1>3. ASSUME P!UpdatePluginConnection(P!P(c), FALSE, status, auth, FALSE) PROVE RowsKept
  BY <1>1, <1>3, ConnectionKeepsRows
<1>4. QED
  BY <1>2, <1>3

(* Creating a plugin that is no connector. *)
LEMMA CreateKeeps ==
  ASSUME P!PluginsInv, NEW c \in PluginCallers, NEW kind \in P!Kinds, NEW headers \in BOOLEAN,
         P!Create(c, kind, headers)
  PROVE  P!PluginsInv'
<1>1. v7[c].at # "idle" /\ kind # "connector_mcp" /\ UNCHANGED <<v2, P!Here>>
  BY DEF P!Create, P!At
<1>2. P!TypeOK /\ P!P(c) \in PluginIds
  BY <1>1, CallerKnown
<1>3. "filling" \in Settled
  BY PluginNames DEF Settled
<1>4. CASE v1' = v1 /\ P!Answer(c)
  BY <1>1, <1>2, <1>4, RowsSame, AnswerMoves, LocallyKeeps
<1>5. CASE /\ P!CreatePlugin(P!P(c), kind, headers, None)
           /\ P!Goto(c, "filling") \/ P!Answer(c)
  <2>1. PICK r \in P!Row : r.kind = kind /\ v1' = [v1 EXCEPT ![P!P(c)] = r]
    BY <1>2, <1>5, CreatedRow
  <2>2. RowsKept
    BY <1>1, <1>2, <2>1, RowWritten
  <2>3. Moves(c)
    BY <1>1, <1>3, <1>5, AnswerMoves, GotoMoves
  <2>4. QED
    BY <1>1, <2>2, <2>3, LocallyKeeps
<1>6. QED
  BY <1>4, <1>5 DEF P!Create

(* The second write of a memory provider, assignments, and the four steps of a *)
(* deletion.                                                                   *)
LEMMA RegistersKeep ==
  ASSUME P!PluginsInv, NEW c \in PluginCallers,
         \/ P!CreateHolographicTools(c) \/ (\E on \in BOOLEAN : P!Assign(c, on))
         \/ P!DeleteReads(c) \/ P!DeleteFlows(c) \/ P!DeleteSecrets(c) \/ P!DeleteRow(c)
  PROVE  P!PluginsInv'
<1>0. v7[c].at # "idle"
  BY DEF P!At, P!CreateHolographicTools, P!Assign, P!DeleteReads, P!DeleteFlows, P!DeleteSecrets, P!DeleteRow
<1>1. P!TypeOK /\ P!P(c) \in PluginIds /\ v7[c] \in P!Call
  BY <1>0, CallerKnown
<1>2. {"purging", "erasing", "removing"} \subseteq Settled
  BY PluginNames DEF Settled
<1>3. CASE P!CreateHolographicTools(c)
  <2>1. P!UpdatePluginConnection(P!P(c), TRUE, "connected", "not_required", TRUE)
        /\ P!Answer(c) /\ UNCHANGED <<v2, P!Here>>
    BY <1>3 DEF P!CreateHolographicTools
  <2>2. RowsKept
    BY <1>0, <2>1, RowWrites DEF Statuses, P!Auths
  <2>3. QED
    BY <2>1, <2>2, AnswerMoves, LocallyKeeps
<1>4. CASE \E on \in BOOLEAN : P!Assign(c, on)
  <2>1. PICK on \in BOOLEAN : P!Assign(c, on)
    BY <1>4
  <2>2. P!SetPluginAssignment(P!P(c), on) /\ P!Answer(c) /\ UNCHANGED <<v2, P!Here>>
    BY <2>1 DEF P!Assign
  <2>3. QED
    BY <1>1, <2>2, AssignmentKeepsRows, AnswerMoves, LocallyKeeps
<1>5. CASE P!DeleteReads(c)
  BY <1>0, <1>1, <1>2, <1>5, RowsSame, WithRowMoves, LocallyKeeps DEF P!DeleteReads
<1>6. CASE P!DeleteFlows(c)
  <2>1. /\ v3' = [f \in AuthFlows |-> IF v3[f] = P!P(c) THEN None ELSE v3[f]] /\ P!Goto(c, "erasing")
        /\ UNCHANGED <<v1, v2, v4, v5, v6, v8, v9, v10, v11>>
    BY <1>6 DEF P!DeleteFlows
  <2>2. v3' \in [AuthFlows -> PluginIds \cup {None}] /\ \A f \in AuthFlows : v3'[f] \in {v3[f], None}
    BY <1>1, <2>1 DEF P!TypeOK
  <2>3. Moves(c) /\ RowsKept
    BY <1>0, <1>1, <1>2, <2>1, GotoMoves, RowsSame
  <2>4. Quietly(c)
    BY <1>1, <2>1, <2>2, <2>3 DEF Quietly, P!TypeOK
  <2>5. QED
    BY <2>4, QuietlyKeeps
<1>7. CASE P!DeleteSecrets(c)
  <2>1. v2' \subseteq v2 /\ P!Goto(c, "removing") /\ UNCHANGED <<v1, v3, v4, v5, v6, v8, v9, v10, v11>>
    BY <1>7 DEF P!DeleteSecrets, P!Here
  <2>2. Moves(c) /\ RowsKept
    BY <1>0, <1>1, <1>2, <2>1, GotoMoves, RowsSame
  <2>3. Quietly(c)
    BY <1>1, <2>1, <2>2 DEF Quietly, P!TypeOK
  <2>4. QED
    BY <2>3, QuietlyKeeps
<1>8. CASE P!DeleteRow(c)
  BY <1>1, <1>8, DeletionKeepsRows, AnswerMoves, LocallyKeeps DEF P!DeleteRow
<1>9. QED
  BY <1>3, <1>4, <1>5, <1>6, <1>7, <1>8

(* A new session belongs to the creation that asked for it: no row and no other *)
(* request has it.                                                              *)
LEMMA ComposioSessionKeeps ==
  ASSUME P!PluginsInv, NEW c \in PluginCallers, NEW s \in ConnectorSessions, P!CreateComposioSession(c, s)
  PROVE  P!PluginsInv'
<1>0. /\ v7[c].at # "idle" /\ s \notin v4 /\ (\A x \in PluginCallers : v7[x].session # s)
      /\ \A p \in PluginIds : v1[p].session # s
      /\ v4' = v4 \cup {s} /\ v11' = v11 \ {s}
      /\ v7' = [v7 EXCEPT ![c].at = "inserting", ![c].session = s]
      /\ UNCHANGED <<v1, v2, v3, v5, v6, v8, v9, v10>>
  BY DEF P!CreateComposioSession, P!At
<1>1. P!TypeOK /\ v7[c] \in P!Call /\ v7[c].plugin \in PluginIds
  BY <1>0, CallerKnown
<1> DEFINE q == [v7[c] EXCEPT !.at = "inserting", !.session = s]
<1>2. /\ q \in P!Call /\ q.at = "inserting" /\ q.session = s /\ q.plugin = v7[c].plugin
      /\ v7' = [v7 EXCEPT ![c] = q]
  BY <1>0, <1>1, PluginNames DEF P!Call, P!TypeOK
<1> HIDE DEF q
<1>3. /\ v7' \in [PluginCallers -> P!Call] /\ v7'[c] = q
      /\ \A x \in PluginCallers \ {c} : v7'[x] = v7[x]
  BY <1>1, <1>2, CallMoved
<1>4. P!TypeOK'
  BY <1>0, <1>1, <1>3 DEF P!TypeOK
<1>5. (\A x \in PluginCallers : P!CallKnows(v7[x]))'
  BY <1>1, <1>2, <1>3 DEF P!CallKnows, P!PluginsInv
<1>6. P!ConnectorHasSession'
  BY <1>0 DEF P!ConnectorHasSession, P!PluginsInv
<1>7. P!SessionsHeld'
  <2>1. ASSUME NEW x \in PluginCallers, P!Creates(x)'
        PROVE  /\ v7'[x].session \in v4'
               /\ \A p \in PluginIds :
                    v1'[p].kind = "connector_mcp" /\ v1'[p].session = v7'[x].session
                      => v7'[x].at = "compensating" /\ p = v7'[x].plugin
    <3>1. CASE x = c
      BY <1>0, <1>2, <1>3, <3>1
    <3>2. CASE x # c
      <4>1. v7'[x] = v7[x] /\ P!Creates(x)
        BY <1>3, <2>1, <3>2 DEF P!Creates
      <4>2. QED
        <5>1. /\ v7[x].session \in v4
              /\ \A p \in PluginIds :
                   v1[p].kind = "connector_mcp" /\ v1[p].session = v7[x].session
                     => v7[x].at = "compensating" /\ p = v7[x].plugin
          BY <4>1 DEF P!SessionsHeld, P!PluginsInv, P!At, P!P
        <5>2. QED
          <6>1. v7'[x].session \in v4'
            BY <1>0, <4>1, <5>1
          <6>2. v1' = v1 /\ v7'[x].at = v7[x].at /\ v7'[x].plugin = v7[x].plugin
                /\ v7'[x].session = v7[x].session
            BY <1>0, <4>1
          <6>3. QED
            BY <5>1, <6>1, <6>2
    <3>3. QED
      BY <3>1, <3>2
  <2>2. ASSUME NEW x \in PluginCallers, NEW y \in PluginCallers, P!Creates(x)', P!Creates(y)',
               v7'[x].session = v7'[y].session
        PROVE  x = y
    <3>1. x # c => v7'[x] = v7[x] /\ v7'[x].session # s /\ P!Creates(x)
      BY <1>0, <1>3, <2>2 DEF P!Creates
    <3>2. y # c => v7'[y] = v7[y] /\ v7'[y].session # s /\ P!Creates(y)
      BY <1>0, <1>3, <2>2 DEF P!Creates
    <3>3. v7'[c].session = s
      BY <1>2, <1>3
    <3>4. QED
      BY <2>2, <3>1, <3>2, <3>3 DEF P!SessionsHeld, P!PluginsInv
  <2>3. QED
    BY <2>1, <2>2 DEF P!SessionsHeld, P!At, P!P
<1>8. P!FlowsHeld' /\ P!ExchangedOnce'
  BY <1>0, <1>2, FlowsStay
<1>9. QED
  BY <1>4, <1>5, <1>6, <1>7, <1>8 DEF P!PluginsInv

(* The insert gives the session to the row of the same plugin, or leaves it to the *)
(* compensation.                                                                   *)
LEMMA ComposioRecordKeeps ==
  ASSUME P!PluginsInv, NEW c \in PluginCallers, P!CreateComposioRecord(c)
  PROVE  P!PluginsInv'
<1>0. v7[c].at = "inserting" /\ UNCHANGED <<v2, P!Here>>
  BY DEF P!CreateComposioRecord, P!At
<1>a. UNCHANGED <<v2, v3, v4, v5, v6, v8, v9, v10, v11>>
  BY <1>0 DEF P!Here
<1>1. P!TypeOK /\ v7[c] \in P!Call /\ v7[c].plugin \in PluginIds /\ P!P(c) = v7[c].plugin
  BY <1>0, CallerKnown
<1>2. /\ P!SessionsHeld /\ P!Creates(c) /\ v7[c].session \in v4
      /\ \A p \in PluginIds : ~(v1[p].kind = "connector_mcp" /\ v1[p].session = v7[c].session)
  BY <1>0 DEF P!PluginsInv, P!SessionsHeld, P!Creates, P!At
<1> DEFINE q == [v7[c] EXCEPT !.at = "compensating"]
<1>3. /\ q \in P!Call /\ q.at = "compensating" /\ q.session = v7[c].session /\ q.plugin = v7[c].plugin
  BY <1>1, PluginNames DEF P!Call
<1>4. \/ P!Answer(c) \/ v7' = [v7 EXCEPT ![c] = q]
  BY <1>1 DEF P!CreateComposioRecord, P!Goto, P!TypeOK
<1> HIDE DEF q
<1>5. PICK n \in P!Call : /\ v7' = [v7 EXCEPT ![c] = n] /\ P!CallKnows(n)
                          /\ \/ n.at = "idle"
                             \/ n.at = "compensating" /\ n.session = v7[c].session /\ n.plugin = v7[c].plugin
  <2>1. CASE P!Answer(c)
    BY <2>1, IdleCall DEF P!Answer
  <2>2. CASE v7' = [v7 EXCEPT ![c] = q]
    BY <1>1, <1>3, <2>2 DEF P!CallKnows
  <2>3. QED
    BY <1>4, <2>1, <2>2
<1>6. /\ v7' \in [PluginCallers -> P!Call] /\ v7'[c] = n
      /\ \A x \in PluginCallers \ {c} : v7'[x] = v7[x]
  BY <1>1, <1>5, CallMoved
<1>7. v1' = v1 \/ P!CreatePlugin(P!P(c), "connector_mcp", TRUE, v7[c].session)
  BY DEF P!CreateComposioRecord
<1>8. v7[c].session \in ConnectorSessions
  BY <1>1, <1>2 DEF P!TypeOK
<1>9. /\ v1' \in [PluginIds -> P!Row]
      /\ \A p \in PluginIds :
           \/ v1'[p] = v1[p]
           \/ p = v7[c].plugin /\ v1'[p].session = v7[c].session
  <2>1. CASE v1' = v1
    BY <1>1, <2>1 DEF P!TypeOK
  <2>2. CASE P!CreatePlugin(P!P(c), "connector_mcp", TRUE, v7[c].session)
    <3>1. "connector_mcp" \in P!Kinds
      BY DEF P!Kinds
    <3>2. PICK r \in P!Row : r.session = v7[c].session /\ v1' = [v1 EXCEPT ![P!P(c)] = r]
      <4>1. \E h \in BOOLEAN : P!CreatePlugin(P!P(c), "connector_mcp", h, v7[c].session)
        BY <2>2, Zenon
      <4>2. PICK h \in BOOLEAN : P!CreatePlugin(P!P(c), "connector_mcp", h, v7[c].session)
        BY <4>1
      <4>3. QED
        BY <1>1, <1>8, <3>1, <4>2, CreatedRow
    <3>3. QED
      BY <1>1, <3>2 DEF P!TypeOK
  <2>3. QED
    BY <1>7, <2>1, <2>2
<1>10. P!TypeOK'
  BY <1>1, <1>a, <1>6, <1>9 DEF P!TypeOK
<1>11. (\A x \in PluginCallers : P!CallKnows(v7[x]))'
  BY <1>5, <1>6 DEF P!CallKnows, P!PluginsInv
<1>12. P!ConnectorHasSession'
  BY <1>a, <1>2, <1>9 DEF P!ConnectorHasSession, P!PluginsInv
<1>13. P!SessionsHeld'
  <2>1. \A x \in PluginCallers : P!Creates(x)' =>
          P!Creates(x) /\ v7'[x].session = v7[x].session /\ v7'[x].plugin = v7[x].plugin
    BY <1>2, <1>5, <1>6 DEF P!Creates
  <2>2. ASSUME NEW x \in PluginCallers, P!Creates(x)'
        PROVE  /\ v7'[x].session \in v4'
               /\ \A p \in PluginIds :
                    v1'[p].kind = "connector_mcp" /\ v1'[p].session = v7'[x].session
                      => v7'[x].at = "compensating" /\ p = v7'[x].plugin
    <3>1. P!Creates(x) /\ v7'[x].session = v7[x].session /\ v7'[x].plugin = v7[x].plugin
      BY <2>1, <2>2
    <3>2. /\ v7[x].session \in v4
          /\ \A p \in PluginIds :
               v1[p].kind = "connector_mcp" /\ v1[p].session = v7[x].session
                 => v7[x].at = "compensating" /\ p = v7[x].plugin
      BY <1>2, <3>1 DEF P!SessionsHeld, P!At, P!P
    <3>3. x # c => v7[x].session # v7[c].session
      BY <1>2, <3>1 DEF P!SessionsHeld
    <3>4. v7'[x].session \in v4'
      BY <1>a, <3>1, <3>2
    <3>5. CASE x = c
      <4>1. v7'[x].at = "compensating"
        BY <1>5, <1>6, <2>2, <3>5 DEF P!Creates
      <4>2. QED
        BY <1>2, <1>9, <3>1, <3>4, <3>5, <4>1
    <3>6. CASE x # c
      <4>1. v7'[x].at = v7[x].at
        BY <1>6, <3>6
      <4>2. QED
        BY <1>9, <3>1, <3>2, <3>3, <3>4, <3>6, <4>1
    <3>7. QED
      BY <3>5, <3>6
  <2>3. ASSUME NEW x \in PluginCallers, NEW y \in PluginCallers, P!Creates(x)', P!Creates(y)',
               v7'[x].session = v7'[y].session
        PROVE  x = y
    BY <1>2, <2>1, <2>3 DEF P!SessionsHeld
  <2>4. QED
    BY <2>2, <2>3 DEF P!SessionsHeld, P!At, P!P
<1>14. P!FlowsHeld' /\ P!ExchangedOnce'
  <2>1. n.at # "exchanging" /\ \A f \in AuthFlows : v3'[f] \in {v3[f], None}
    BY <1>a, <1>5
  <2>2. QED
    BY <1>a, <1>5, <2>1, FlowsStay
<1>15. QED
  BY <1>10, <1>11, <1>12, <1>13, <1>14 DEF P!PluginsInv

(* The compensation deletes a session when its plugin has no row, and only that row *)
(* could refer to it, or when it could not look for the row.                        *)
LEMMA CompensateKeeps ==
  ASSUME P!PluginsInv, NEW c \in PluginCallers, P!CompensateComposio(c)
  PROVE  P!PluginsInv'
<1>0. /\ v7[c].at = "compensating" /\ v7' = [v7 EXCEPT ![c] = P!Idle]
      /\ UNCHANGED <<v1, v2, v3, v5, v6, v8, v9, v10>>
  BY DEF P!CompensateComposio, P!At, P!Answer
<1>a. /\ v4' = v4 \/ v4' = v4 \ {v7[c].session}
      /\ v11' = v11 \/ v11' = v11 \cup {v7[c].session}
      /\ v4' = v4 \/ v7[c].session \in v11' \/ ~P!Exists(P!P(c))
  BY DEF P!CompensateComposio
<1>1. P!TypeOK /\ v7[c] \in P!Call /\ v7[c].plugin \in PluginIds /\ P!P(c) = v7[c].plugin
  BY <1>0, CallerKnown
<1>2. /\ v7' \in [PluginCallers -> P!Call] /\ v7'[c] = P!Idle
      /\ \A x \in PluginCallers \ {c} : v7'[x] = v7[x]
  BY <1>0, <1>1, IdleCall, CallMoved
<1>b. v7[c].session \in ConnectorSessions
  BY <1>0, <1>1 DEF P!PluginsInv, P!SessionsHeld, P!Creates, P!TypeOK
<1>3. P!TypeOK'
  BY <1>0, <1>1, <1>2, <1>a, <1>b DEF P!TypeOK
<1>4. (\A x \in PluginCallers : P!CallKnows(v7[x]))'
  BY <1>2, IdleCall DEF P!CallKnows, P!PluginsInv
<1>5. /\ P!SessionsHeld /\ P!Creates(c)
      /\ \A p \in PluginIds :
           v1[p].kind = "connector_mcp" /\ v1[p].session = v7[c].session => p = v7[c].plugin
  BY <1>0 DEF P!PluginsInv, P!SessionsHeld, P!Creates, P!P
<1>6. \A p \in PluginIds : v1[p].kind = "connector_mcp" => v1[p].session \in v4' \cup v11'
  <2> TAKE p \in PluginIds
  <2> HAVE v1[p].kind = "connector_mcp"
  <2>1. v1[p].session \in v4 \cup v11
    BY DEF P!PluginsInv, P!ConnectorHasSession
  <2>2. CASE v1[p].session # v7[c].session
    BY <1>a, <2>1, <2>2
  <2>3. CASE v1[p].session = v7[c].session
    <3>1. p = v7[c].plugin
      BY <1>5, <2>3
    <3>2. P!Exists(P!P(c))
      BY <1>1, <3>1 DEF P!Exists
    <3>3. QED
      BY <1>a, <2>1, <2>3, <3>2
  <2>4. QED
    BY <2>2, <2>3
<1>7. P!ConnectorHasSession'
  BY <1>0, <1>6 DEF P!ConnectorHasSession
<1>8. \A x \in PluginCallers : P!Creates(x)' => x # c /\ P!Creates(x) /\ v7'[x] = v7[x]
  BY <1>2, IdleCall DEF P!Creates
<1>9. \A x \in PluginCallers : P!Creates(x)' => v7[x].session \in v4'
  <2> TAKE x \in PluginCallers
  <2> HAVE P!Creates(x)'
  <2>1. x # c /\ P!Creates(x)
    BY <1>8
  <2>2. v7[x].session \in v4 /\ v7[x].session # v7[c].session
    BY <1>5, <2>1 DEF P!SessionsHeld
  <2>3. QED
    BY <1>a, <2>2
<1>10. ASSUME NEW x \in PluginCallers, P!Creates(x)'
       PROVE  \A p \in PluginIds :
                v1'[p].kind = "connector_mcp" /\ v1'[p].session = v7'[x].session
                  => v7'[x].at = "compensating" /\ p = v7'[x].plugin
  <2>1. P!Creates(x) /\ v7'[x] = v7[x]
    BY <1>8, <1>10
  <2>2. \A p \in PluginIds :
          v1[p].kind = "connector_mcp" /\ v1[p].session = v7[x].session
            => v7[x].at = "compensating" /\ p = v7[x].plugin
    BY <1>5, <2>1 DEF P!SessionsHeld, P!At, P!P
  <2>3. QED
    BY <1>0, <2>1, <2>2
<1>11. P!SessionsHeld'
  BY <1>5, <1>8, <1>9, <1>10 DEF P!SessionsHeld, P!At, P!P
<1>12. P!FlowsHeld' /\ P!ExchangedOnce'
  BY <1>0, IdleCall, FlowsStay
<1>13. QED
  BY <1>3, <1>4, <1>7, <1>11, <1>12 DEF P!PluginsInv

(* The steps of an authorization that write what the connection shows. *)
LEMMA ShowsKeep ==
  ASSUME P!PluginsInv, NEW c \in PluginCallers,
         \/ P!AuthorizeShows(c) \/ P!CompleteRemoteOauth(c) \/ P!MarkOauthFailure(c)
         \/ P!AuthorizeComposio(c) \/ P!RevokeComposio(c)
  PROVE  P!PluginsInv'
<1>0. v7[c].at # "idle" /\ UNCHANGED <<v2, P!Here>>
  BY DEF P!At, P!AuthorizeShows, P!CompleteRemoteOauth, P!MarkOauthFailure, P!AuthorizeComposio, P!RevokeComposio
<1>1. "failing" \in Settled
  BY PluginNames DEF Settled
<1>2. Moves(c)
  BY <1>0, <1>1, AnswerMoves, GotoMoves
     DEF P!AuthorizeShows, P!CompleteRemoteOauth, P!MarkOauthFailure, P!AuthorizeComposio, P!RevokeComposio
<1>3. \/ P!UpdatePluginConnection(P!P(c), FALSE, "reopen", "waiting", FALSE)
      \/ P!UpdatePluginConnection(P!P(c), FALSE, "connect", "connected", FALSE)
      \/ P!UpdatePluginConnection(P!P(c), FALSE, "reopen", "required", FALSE)
  BY DEF P!AuthorizeShows, P!CompleteRemoteOauth, P!MarkOauthFailure, P!AuthorizeComposio, P!RevokeComposio
<1>4. RowsKept
  BY <1>0, <1>3, RowWrites DEF Statuses, P!Auths
<1>5. QED
  BY <1>0, <1>2, <1>4, LocallyKeeps

(* The steps of an authorization that read the row, fail, or store the token. *)
LEMMA AuthorizesKeep ==
  ASSUME P!PluginsInv, NEW c \in PluginCallers,
         \/ P!AuthorizeReads(c) \/ P!AuthorizeFails(c) \/ P!StoreToken(c) \/ P!RecordToken(c)
         \/ P!ComposioReads(c) \/ P!ComposioRefuses(c)
  PROVE  P!PluginsInv'
<1>0. v7[c].at # "idle"
  BY DEF P!At, P!AuthorizeReads, P!AuthorizeFails, P!StoreToken, P!RecordToken, P!ComposioReads, P!ComposioRefuses
<1>1. P!TypeOK /\ P!P(c) \in PluginIds /\ v1[P!P(c)] \in P!Row
  BY <1>0, CallerKnown
<1>2. {"beginning", "recording", "linked", "failing", "linking", "revoking"} \subseteq Settled
  BY PluginNames DEF Settled
<1>3. CASE P!AuthorizeReads(c) \/ P!AuthorizeFails(c) \/ P!ComposioReads(c) \/ P!ComposioRefuses(c)
  <2>1. v1' = v1 /\ UNCHANGED <<v2, P!Here>>
    BY <1>3 DEF P!AuthorizeReads, P!AuthorizeFails, P!ComposioReads, P!ComposioRefuses
  <2>2. P!Answer(c) \/ (\E step \in {"beginning", "linking", "revoking"} : P!WithRow(c, step))
    BY <1>3 DEF P!AuthorizeReads, P!AuthorizeFails, P!ComposioReads, P!ComposioRefuses
  <2>3. Moves(c)
    BY <1>0, <1>2, <2>2, AnswerMoves, WithRowMoves
  <2>4. QED
    BY <1>1, <2>1, <2>3, RowsSame, LocallyKeeps
<1>4. CASE P!StoreToken(c)
  <2>1. v2' = v2 \cup {<<P!P(c), "token">>} /\ P!Goto(c, "recording")
        /\ UNCHANGED <<v1, v3, v4, v5, v6, v8, v9, v10, v11>>
    BY <1>4 DEF P!StoreToken, P!Here
  <2>2. Moves(c) /\ RowsKept
    BY <1>0, <1>1, <1>2, <2>1, GotoMoves, RowsSame
  <2>3. v2' \subseteq PluginIds \X P!Secrets
    BY <1>1, <2>1 DEF P!TypeOK, P!Secrets
  <2>4. Quietly(c)
    BY <1>1, <2>1, <2>2, <2>3 DEF Quietly, P!TypeOK
  <2>5. QED
    BY <2>4, QuietlyKeeps
<1>5. CASE P!RecordToken(c)
  <2>1. /\ P!UpdatePluginConfiguration(P!P(c), TRUE, v1[P!P(c)].ingress)
        /\ P!Goto(c, "linked") \/ P!Goto(c, "failing")
        /\ UNCHANGED <<v2, P!Here>>
    BY <1>5 DEF P!RecordToken
  <2>2. v1[P!P(c)].ingress \in BOOLEAN
    BY <1>1 DEF P!Row
  <2>3. RowsKept
    BY <1>1, <2>1, <2>2, ConfigurationKeepsRows
  <2>4. Moves(c)
    BY <1>0, <1>2, <2>1, GotoMoves
  <2>5. QED
    BY <2>1, <2>3, <2>4, LocallyKeeps
<1>6. QED
  BY <1>3, <1>4, <1>5

(* A flow that begins has never been issued, so nobody has exchanged its code. *)
LEMMA FlowBegins ==
  ASSUME P!PluginsInv, NEW c \in PluginCallers, NEW f \in AuthFlows, NEW expired \in SUBSET AuthFlows,
         P!AuthorizeWaits(c, f, expired)
  PROVE  P!PluginsInv'
<1> DEFINE kept == [g \in AuthFlows |-> IF g \in expired THEN None ELSE v3[g]]
<1>0. /\ v7[c].at = "beginning" /\ f \notin v8 /\ UNCHANGED <<v1, v2, v4, v5, v6, v9, v10, v11>>
      /\ \/ v3' = kept /\ v8' = v8 /\ P!Answer(c)
         \/ v3' = [kept EXCEPT ![f] = P!P(c)] /\ v8' = v8 \cup {f} /\ P!Goto(c, "consenting")
  BY DEF P!AuthorizeWaits, P!At
<1>1. P!TypeOK /\ P!P(c) \in PluginIds
  BY <1>0, CallerKnown
<1>2. kept \in [AuthFlows -> PluginIds \cup {None}] /\ \A g \in AuthFlows : kept[g] \in {v3[g], None}
  BY <1>1 DEF P!TypeOK
<1> HIDE DEF kept
<1>3. "consenting" \in Settled
  BY PluginNames DEF Settled
<1>4. Moves(c)
  BY <1>0, <1>3, AnswerMoves, GotoMoves
<1>5. CASE v3' = kept /\ v8' = v8
  <2>1. Quietly(c)
    BY <1>0, <1>1, <1>2, <1>4, <1>5, RowsSame DEF Quietly, P!TypeOK
  <2>2. QED
    BY <2>1, QuietlyKeeps
<1>6. CASE v3' = [kept EXCEPT ![f] = P!P(c)] /\ v8' = v8 \cup {f}
  <2>1. PICK q \in P!Call : /\ v7' = [v7 EXCEPT ![c] = q] /\ P!CallKnows(q)
                            /\ q.at \notin {"inserting", "compensating", "exchanging"}
    BY <1>4 DEF Moves
  <2>2. /\ v7' \in [PluginCallers -> P!Call] /\ v7'[c] = q
        /\ \A x \in PluginCallers \ {c} : v7'[x] = v7[x]
    BY <1>1, <2>1, CallMoved
  <2>3. v3' \in [AuthFlows -> PluginIds \cup {None}] /\ v3'[f] = P!P(c)
        /\ \A g \in AuthFlows \ {f} : v3'[g] \in {v3[g], None}
    BY <1>1, <1>2, <1>6
  <2>4. P!TypeOK'
    BY <1>0, <1>1, <1>6, <2>2, <2>3 DEF P!TypeOK
  <2>5. (\A x \in PluginCallers : P!CallKnows(v7[x]))'
    BY <2>1, <2>2 DEF P!CallKnows, P!PluginsInv
  <2>6. P!SessionsHeld' /\ P!ConnectorHasSession'
    BY <1>0, <1>1, <2>1, RowsSame, SessionsStay
  <2>7. \A x \in PluginCallers, g \in AuthFlows : P!Exchanges(x, g)' => P!Exchanges(x, g)
    BY <2>1, <2>2 DEF P!Exchanges, P!At
  <2>8. P!FlowsHeld /\ \A x \in PluginCallers : ~P!Exchanges(x, f)
    BY <1>0 DEF P!PluginsInv, P!FlowsHeld
  <2>9. ASSUME NEW g \in AuthFlows
        PROVE  /\ v3'[g] # None \/ (\E x \in PluginCallers : P!Exchanges(x, g)') => g \in v8' /\ v9'[g] = 0
               /\ g \notin v8' => v9'[g] = 0
               /\ \A x, y \in PluginCallers : P!Exchanges(x, g)' /\ P!Exchanges(y, g)' => x = y
               /\ \A x \in PluginCallers : P!Exchanges(x, g)' => v3'[g] = None
    <3>1. /\ v3[g] # None \/ (\E x \in PluginCallers : P!Exchanges(x, g)) => g \in v8 /\ v9[g] = 0
          /\ g \notin v8 => v9[g] = 0
          /\ \A x, y \in PluginCallers : P!Exchanges(x, g) /\ P!Exchanges(y, g) => x = y
          /\ \A x \in PluginCallers : P!Exchanges(x, g) => v3[g] = None
      BY <2>8 DEF P!FlowsHeld
    <3>2. \A x \in PluginCallers : P!Exchanges(x, g)' => P!Exchanges(x, g)
      BY <2>7
    <3>3. v9' = v9 /\ v8' = v8 \cup {f}
      BY <1>0, <1>6
    <3>4. CASE g = f
      BY <1>0, <2>8, <3>1, <3>2, <3>3, <3>4
    <3>5. CASE g # f
      <4>1. v3'[g] = v3[g] \/ v3'[g] = None
        BY <2>3, <3>5
      <4>2. QED
        BY <3>1, <3>2, <3>3, <3>5, <4>1
    <3>6. QED
      BY <3>4, <3>5
  <2>10. P!FlowsHeld'
    BY <2>9 DEF P!FlowsHeld
  <2>11. P!ExchangedOnce'
    BY <1>0 DEF P!ExchangedOnce, P!PluginsInv
  <2>12. QED
    BY <2>4, <2>5, <2>6, <2>10, <2>11 DEF P!PluginsInv
<1>7. QED
  BY <1>0, <1>5, <1>6

(* A callback takes its flow out of the map, so it is the only one that exchanges *)
(* the code.                                                                      *)
LEMMA CallbackKeeps ==
  ASSUME P!PluginsInv, NEW c \in PluginCallers, NEW f \in AuthFlows, P!Callback(c, f)
  PROVE  P!PluginsInv'
<1>0. /\ v7[c].at = "callback" /\ f \in v8 /\ v3' = [v3 EXCEPT ![f] = None]
      /\ UNCHANGED <<v1, v2, v4, v5, v6, v8, v9, v10, v11>>
      /\ \/ P!Answer(c)
         \/ v3[f] # None /\ v7' = [v7 EXCEPT ![c].at = "exchanging", ![c].flow = f, ![c].plugin = v3[f]]
         \/ v3[f] # None /\ v7' = [v7 EXCEPT ![c].at = "failing", ![c].plugin = v3[f]]
  BY DEF P!Callback, P!At
<1>1. P!TypeOK /\ v7[c] \in P!Call
  BY <1>0, CallerKnown
<1>2. /\ v3' \in [AuthFlows -> PluginIds \cup {None}] /\ v3'[f] = None
      /\ \A g \in AuthFlows \ {f} : v3'[g] = v3[g]
  BY <1>0, <1>1 DEF P!TypeOK
<1>3. ASSUME Moves(c) PROVE P!PluginsInv'
  <2>1. \A g \in AuthFlows : v3'[g] \in {v3[g], None}
    BY <1>2
  <2>2. RowsKept
    BY <1>0, <1>1, RowsSame
  <2>3. Quietly(c)
    BY <1>0, <1>1, <1>2, <1>3, <2>1, <2>2 DEF Quietly, P!TypeOK
  <2>4. QED
    BY <2>3, QuietlyKeeps
<1>4. CASE P!Answer(c)
  BY <1>3, <1>4, AnswerMoves
<1>5. CASE v3[f] # None /\ v7' = [v7 EXCEPT ![c].at = "failing", ![c].plugin = v3[f]]
  <2> DEFINE q == [v7[c] EXCEPT !.at = "failing", !.plugin = v3[f]]
  <2>1. v3[f] \in PluginIds
    BY <1>1, <1>5 DEF P!TypeOK
  <2>2. q \in P!Call /\ q.at = "failing" /\ q.plugin = v3[f]
    BY <1>1, <2>1, PluginNames DEF P!Call
  <2>3. v7' = [v7 EXCEPT ![c] = q]
    BY <1>1, <1>5 DEF P!TypeOK
  <2> HIDE DEF q
  <2>4. Moves(c)
    BY <2>1, <2>2, <2>3 DEF Moves, P!CallKnows
  <2>5. QED
    BY <1>3, <2>4
<1>6. CASE v3[f] # None /\ v7' = [v7 EXCEPT ![c].at = "exchanging", ![c].flow = f, ![c].plugin = v3[f]]
  <2> DEFINE q == [v7[c] EXCEPT !.at = "exchanging", !.flow = f, !.plugin = v3[f]]
  <2>1. v3[f] \in PluginIds
    BY <1>1, <1>6 DEF P!TypeOK
  <2>2. q \in P!Call /\ q.at = "exchanging" /\ q.plugin = v3[f] /\ q.flow = f
    BY <1>1, <2>1, PluginNames DEF P!Call
  <2>3. v7' = [v7 EXCEPT ![c] = q]
    BY <1>1, <1>6 DEF P!TypeOK
  <2> HIDE DEF q
  <2>4. /\ v7' \in [PluginCallers -> P!Call] /\ v7'[c] = q
        /\ \A x \in PluginCallers \ {c} : v7'[x] = v7[x]
    BY <1>1, <2>2, <2>3, CallMoved
  <2>5. P!TypeOK'
    BY <1>0, <1>1, <1>2, <2>4 DEF P!TypeOK
  <2>6. (\A x \in PluginCallers : P!CallKnows(v7[x]))'
    BY <2>1, <2>2, <2>4 DEF P!CallKnows, P!PluginsInv
  <2>7. P!SessionsHeld' /\ P!ConnectorHasSession'
    BY <1>0, <1>1, <2>2, <2>3, RowsSame, SessionsStay
  <2>8. P!FlowsHeld /\ v9[f] = 0 /\ \A x \in PluginCallers : ~P!Exchanges(x, f)
    BY <1>6 DEF P!PluginsInv, P!FlowsHeld
  <2>9. \A x \in PluginCallers, g \in AuthFlows : P!Exchanges(x, g)' => P!Exchanges(x, g) \/ (x = c /\ g = f)
    BY <2>2, <2>4 DEF P!Exchanges, P!At
  <2>10. ASSUME NEW g \in AuthFlows
         PROVE  /\ v3'[g] # None \/ (\E x \in PluginCallers : P!Exchanges(x, g)') => g \in v8' /\ v9'[g] = 0
                /\ g \notin v8' => v9'[g] = 0
                /\ \A x, y \in PluginCallers : P!Exchanges(x, g)' /\ P!Exchanges(y, g)' => x = y
                /\ \A x \in PluginCallers : P!Exchanges(x, g)' => v3'[g] = None
    <3>1. /\ v3[g] # None \/ (\E x \in PluginCallers : P!Exchanges(x, g)) => g \in v8 /\ v9[g] = 0
          /\ g \notin v8 => v9[g] = 0
          /\ \A x, y \in PluginCallers : P!Exchanges(x, g) /\ P!Exchanges(y, g) => x = y
          /\ \A x \in PluginCallers : P!Exchanges(x, g) => v3[g] = None
      BY <2>8 DEF P!FlowsHeld
    <3>2. v9' = v9 /\ v8' = v8
      BY <1>0
    <3>3. CASE g = f
      <4>1. \A x \in PluginCallers : P!Exchanges(x, f)' => x = c
        BY <2>8, <2>9
      <4>2. QED
        BY <1>0, <1>2, <2>8, <3>2, <3>3, <4>1
    <3>4. CASE g # f
      <4>1. \A x \in PluginCallers : P!Exchanges(x, g)' => P!Exchanges(x, g)
        BY <2>9, <3>4
      <4>2. v3'[g] = v3[g]
        BY <1>2, <3>4
      <4>3. QED
        BY <3>1, <3>2, <4>1, <4>2
    <3>5. QED
      BY <3>3, <3>4
  <2>11. P!FlowsHeld'
    BY <2>10 DEF P!FlowsHeld
  <2>12. P!ExchangedOnce'
    BY <1>0 DEF P!ExchangedOnce, P!PluginsInv
  <2>13. QED
    BY <2>5, <2>6, <2>7, <2>11, <2>12 DEF P!PluginsInv
<1>7. QED
  BY <1>0, <1>4, <1>5, <1>6

(* The exchange is the first one of its flow, and its request leaves it. *)
LEMMA ExchangeKeeps ==
  ASSUME P!PluginsInv, NEW c \in PluginCallers, P!Exchange(c)
  PROVE  P!PluginsInv'
<1>0. /\ v7[c].at = "exchanging" /\ v9' = [v9 EXCEPT ![v7[c].flow] = @ + 1]
      /\ P!Goto(c, "storing") \/ P!Goto(c, "failing")
      /\ UNCHANGED <<v1, v2, v3, v4, v5, v6, v8, v10, v11>>
  BY DEF P!Exchange, P!At
<1> DEFINE f == v7[c].flow
<1>1. P!TypeOK /\ v7[c] \in P!Call
  BY <1>0, CallerKnown
<1>2. {"storing", "failing"} \subseteq Settled
  BY PluginNames DEF Settled
<1>3. Moves(c)
  BY <1>0, <1>2, GotoMoves
<1>4. PICK q \in P!Call : /\ v7' = [v7 EXCEPT ![c] = q] /\ P!CallKnows(q)
                          /\ q.at \notin {"inserting", "compensating", "exchanging"}
  BY <1>3 DEF Moves
<1>5. /\ v7' \in [PluginCallers -> P!Call] /\ v7'[c] = q
      /\ \A x \in PluginCallers \ {c} : v7'[x] = v7[x]
  BY <1>1, <1>4, CallMoved
<1>6. /\ v9 \in [AuthFlows -> Nat] /\ v9' \in [AuthFlows -> Nat]
      /\ \A g \in AuthFlows : (g = f => v9'[g] = v9[g] + 1) /\ (g # f => v9'[g] = v9[g])
  <2>1. v9 \in [AuthFlows -> Nat] /\ v9' = [v9 EXCEPT ![f] = v9[f] + 1]
    BY <1>0, <1>1 DEF P!TypeOK
  <2> HIDE DEF f
  <2>2. CASE f \in AuthFlows
    BY <2>1, <2>2
  <2>3. CASE f \notin AuthFlows
    <3>1. v9' = v9
      BY <2>1, <2>3
    <3>2. QED
      BY <2>1, <2>3, <3>1
  <2>4. QED
    BY <2>2, <2>3
<1>7. P!TypeOK'
  BY <1>0, <1>1, <1>5, <1>6 DEF P!TypeOK
<1>8. (\A x \in PluginCallers : P!CallKnows(v7[x]))'
  BY <1>4, <1>5 DEF P!CallKnows, P!PluginsInv
<1>9. P!SessionsHeld' /\ P!ConnectorHasSession'
  BY <1>0, <1>1, <1>4, RowsSame, SessionsStay
<1>10. P!FlowsHeld /\ P!ExchangedOnce
  BY DEF P!PluginsInv
<1>11. ASSUME NEW g \in AuthFlows
       PROVE  /\ v3'[g] # None \/ (\E x \in PluginCallers : P!Exchanges(x, g)') => g \in v8' /\ v9'[g] = 0
              /\ g \notin v8' => v9'[g] = 0
              /\ \A x, y \in PluginCallers : P!Exchanges(x, g)' /\ P!Exchanges(y, g)' => x = y
              /\ \A x \in PluginCallers : P!Exchanges(x, g)' => v3'[g] = None
              /\ v9'[g] <= 1
  <2>1. /\ v3[g] # None \/ (\E x \in PluginCallers : P!Exchanges(x, g)) => g \in v8 /\ v9[g] = 0
        /\ g \notin v8 => v9[g] = 0
        /\ \A x, y \in PluginCallers : P!Exchanges(x, g) /\ P!Exchanges(y, g) => x = y
        /\ \A x \in PluginCallers : P!Exchanges(x, g) => v3[g] = None
    BY <1>10 DEF P!FlowsHeld
  <2>2. v3' = v3 /\ v8' = v8
    BY <1>0
  <2>3. \A x \in PluginCallers : P!Exchanges(x, g)' => x # c /\ P!Exchanges(x, g)
    BY <1>4, <1>5 DEF P!Exchanges, P!At
  <2>4. CASE g = f
    <3>1. P!Exchanges(c, g)
      BY <1>0, <2>4 DEF P!Exchanges, P!At
    <3>2. g \in v8 /\ v9[g] = 0 /\ v3[g] = None
      BY <2>1, <3>1
    <3>3. \A x \in PluginCallers : ~P!Exchanges(x, g)'
      BY <2>1, <2>3, <3>1
    <3>4. v9'[g] = 1
      BY <1>6, <2>4, <3>2
    <3>5. QED
      BY <2>2, <3>2, <3>3, <3>4
  <2>5. CASE g # f
    <3>1. v9'[g] = v9[g] /\ v9[g] <= 1
      BY <1>6, <1>10, <2>5 DEF P!ExchangedOnce
    <3>2. QED
      BY <2>1, <2>2, <2>3, <3>1
  <2>6. QED
    BY <2>4, <2>5
<1>12. P!FlowsHeld' /\ P!ExchangedOnce'
  BY <1>11 DEF P!FlowsHeld, P!ExchangedOnce
<1>13. QED
  BY <1>7, <1>8, <1>9, <1>12 DEF P!PluginsInv

(* The steps of a connect. *)
LEMMA ConnectsOn ==
  ASSUME P!PluginsInv, NEW c \in PluginCallers,
         \/ P!ConnectReads(c) \/ P!ConnectShows(c)
         \/ \E auth \in {"connected", "waiting", "required"} : P!PendingConnectorAuth(c, auth)
         \/ \E outcome \in {"tools", "refused", "error"} : P!ConnectStores(c, outcome)
  PROVE  P!PluginsInv'
<1>1. v7[c].at # "idle" /\ UNCHANGED <<v2, P!Here>>
  BY DEF P!At, P!ConnectReads, P!ConnectShows, P!PendingConnectorAuth, P!ConnectStores
<1>2. P!TypeOK
  BY <1>1, CallerKnown
<1>3. {"checking", "showing", "discovering"} \subseteq Settled
  BY PluginNames DEF Settled
<1>4. CASE P!ConnectReads(c)
  <2>1. PICK step \in {"checking", "showing"} : P!WithRow(c, step)
    BY <1>4 DEF P!ConnectReads
  <2>2. v1' = v1 /\ step \in Settled
    BY <1>3, <1>4 DEF P!ConnectReads
  <2>3. QED
    BY <1>1, <1>2, <2>1, <2>2, RowsSame, WithRowMoves, LocallyKeeps
<1>5. CASE P!ConnectShows(c)
  <2>1. PICK auth \in P!Auths : P!UpdatePluginConnection(P!P(c), FALSE, "waiting", auth, FALSE)
    BY <1>5 DEF P!ConnectShows, P!Auths
  <2>2. P!Goto(c, "discovering") \/ P!Answer(c)
    BY <1>5 DEF P!ConnectShows
  <2>3. Moves(c)
    BY <1>1, <1>3, <2>2, AnswerMoves, GotoMoves
  <2>4. RowsKept
    BY <1>1, <2>1, RowWrites DEF Statuses
  <2>5. QED
    BY <1>1, <2>3, <2>4, LocallyKeeps
<1>6. CASE \E auth \in {"connected", "waiting", "required"} : P!PendingConnectorAuth(c, auth)
  <2>1. PICK auth \in {"connected", "waiting", "required"} : P!PendingConnectorAuth(c, auth)
    BY <1>6
  <2>2. CASE v1' = v1 /\ P!Goto(c, "showing")
    BY <1>1, <1>2, <1>3, <2>2, RowsSame, GotoMoves, LocallyKeeps
  <2>3. CASE P!UpdatePluginConnection(P!P(c), FALSE, "reopen", auth, FALSE) /\ P!Answer(c)
    <3>1. RowsKept
      BY <1>1, <2>3, RowWrites DEF Statuses, P!Auths
    <3>2. QED
      BY <1>1, <2>3, <3>1, AnswerMoves, LocallyKeeps
  <2>4. QED
    BY <2>1, <2>2, <2>3 DEF P!PendingConnectorAuth
<1>7. CASE \E outcome \in {"tools", "refused", "error"} : P!ConnectStores(c, outcome)
  <2>1. PICK outcome \in {"tools", "refused", "error"} : P!ConnectStores(c, outcome)
    BY <1>7
  <2>2. \E status \in Statuses, auth \in P!Auths :
          \/ P!UpdatePluginConnection(P!P(c), TRUE, status, auth, TRUE)
          \/ P!UpdatePluginConnection(P!P(c), FALSE, status, auth, FALSE)
    <3>1. CASE outcome = "tools"
      <4>1. PICK auth \in {"connected", "not_required"} :
              P!UpdatePluginConnection(P!P(c), TRUE, "connected", auth, TRUE)
        BY <2>1, <3>1 DEF P!ConnectStores
      <4>2. "connected" \in Statuses /\ auth \in P!Auths
        BY DEF Statuses, P!Auths
      <4>3. QED
        BY <4>1, <4>2
    <3>2. CASE outcome = "refused"
      <4>1. P!UpdatePluginConnection(P!P(c), FALSE, "reopen", "required", FALSE)
        BY <2>1, <3>2 DEF P!ConnectStores
      <4>2. "reopen" \in Statuses /\ "required" \in P!Auths
        BY DEF Statuses, P!Auths
      <4>3. QED
        BY <4>1, <4>2
    <3>3. CASE outcome = "error"
      <4>1. P!UpdatePluginConnection(P!P(c), FALSE, "error", "error", FALSE)
        BY <2>1, <3>3 DEF P!ConnectStores
      <4>2. "error" \in Statuses /\ "error" \in P!Auths
        BY DEF Statuses, P!Auths
      <4>3. QED
        BY <4>1, <4>2
    <3>4. QED
      BY <3>1, <3>2, <3>3
  <2>3. RowsKept
    BY <1>1, <2>2, RowWrites
  <2>4. P!Answer(c)
    BY <2>1 DEF P!ConnectStores
  <2>5. QED
    BY <1>1, <2>3, <2>4, AnswerMoves, LocallyKeeps
<1>8. QED
  BY <1>4, <1>5, <1>6, <1>7

(* A refresh of the token returns to the step that needed it. *)
LEMMA RefreshKeeps ==
  ASSUME P!PluginsInv, NEW c \in PluginCallers, P!RefreshToken(c) \/ P!StoreRefreshed(c)
  PROVE  P!PluginsInv'
<1>1. v7[c].at # "idle"
  BY DEF P!At, P!RefreshToken, P!StoreRefreshed
<1>2. P!TypeOK /\ v7[c] \in P!Call /\ P!P(c) \in PluginIds /\ v7[c].plugin = P!P(c)
  BY <1>1, CallerKnown
<1>3. v7 \in [PluginCallers -> P!Call] /\ P!CallKnows(v7[c])
  BY <1>2 DEF P!TypeOK, P!PluginsInv
<1>4. CASE P!RefreshToken(c)
  <2> DEFINE at == v7[c].at
             q == [v7[c] EXCEPT !.at = "refreshing", !.back = at]
  <2>1. at \in {"discovering", "calling"} /\ v1' = v1 /\ UNCHANGED <<v2, P!Here>>
    BY <1>4 DEF P!RefreshToken, P!At
  <2>2. v7' = [v7 EXCEPT ![c] = q]
    BY <1>3, <1>4 DEF P!RefreshToken
  <2> HIDE DEF at
  <2>3. q \in P!Call /\ q.at = "refreshing" /\ q.back = at /\ q.plugin = v7[c].plugin
    BY <1>2, <2>1, PluginNames DEF P!Call
  <2> HIDE DEF q
  <2>4. P!CallKnows(q)
    BY <1>2, <2>1, <2>3 DEF P!CallKnows
  <2>5. Moves(c)
    BY <2>2, <2>3, <2>4 DEF Moves
  <2>6. QED
    BY <1>2, <2>1, <2>5, RowsSame, LocallyKeeps
<1>5. CASE P!StoreRefreshed(c)
  <2> DEFINE at == v7[c].back
             q == [v7[c] EXCEPT !.at = at, !.back = "none"]
  <2>1. at \in {"discovering", "calling"}
    BY <1>3, <1>5 DEF P!StoreRefreshed, P!At, P!CallKnows
  <2>2. v7' = [v7 EXCEPT ![c] = q]
    BY <1>3, <1>5 DEF P!StoreRefreshed
  <2> HIDE DEF at
  <2>3. q \in P!Call /\ q.at = at /\ q.plugin = v7[c].plugin
    BY <1>2, <2>1, PluginNames DEF P!Call
  <2> HIDE DEF q
  <2>4. P!CallKnows(q)
    BY <1>2, <2>1, <2>3 DEF P!CallKnows
  <2>5. Moves(c)
    BY <2>1, <2>2, <2>3, <2>4 DEF Moves
  <2>6. v2' = v2 \cup {<<P!P(c), "token">>} /\ UNCHANGED <<v1, v3, v4, v5, v6, v8, v9, v10, v11>>
    BY <1>5 DEF P!StoreRefreshed, P!Here
  <2>7. v2' \subseteq PluginIds \X P!Secrets
    BY <1>2, <2>6 DEF P!TypeOK, P!Secrets
  <2>8. Quietly(c)
    BY <1>2, <2>5, <2>6, <2>7, RowsSame DEF Quietly, P!TypeOK
  <2>9. QED
    BY <2>8, QuietlyKeeps
<1>6. QED
  BY <1>4, <1>5

(* The three steps of set_enabled. *)
LEMMA TogglesKeep ==
  ASSUME P!PluginsInv, NEW c \in PluginCallers,
         P!SetEnabledReads(c) \/ P!SetEnabledReadsTools(c) \/ P!SetEnabledWrites(c)
  PROVE  P!PluginsInv'
<1>1. v7[c].at # "idle" /\ UNCHANGED <<v2, P!Here>>
  BY DEF P!At, P!SetEnabledReads, P!SetEnabledReadsTools, P!SetEnabledWrites
<1>2. P!TypeOK /\ v7[c] \in P!Call /\ P!P(c) \in PluginIds /\ v7[c].plugin = P!P(c) /\ v1[P!P(c)] \in P!Row
  BY <1>1, CallerKnown
<1>3. v7 \in [PluginCallers -> P!Call] /\ v7[c].saw \in ReadRow
  BY <1>2 DEF P!TypeOK, P!Call, ReadRow
<1>4. CASE P!SetEnabledReads(c)
  <2>1. v1' = v1
    BY <1>4 DEF P!SetEnabledReads
  <2>2. CASE P!Answer(c)
    BY <1>1, <1>2, <2>1, <2>2, RowsSame, AnswerMoves, LocallyKeeps
  <2>3. CASE v7' = [v7 EXCEPT ![c].saw = P!Read(v1[P!P(c)]), ![c].back = v7[c].at, ![c].at = "toggling"]
    <3> DEFINE s == P!Read(v1[P!P(c)])
               at == v7[c].at
               q == [v7[c] EXCEPT !.saw = s, !.back = at, !.at = "toggling"]
    <3>1. s \in ReadRow
      BY <1>2, ReadTypes
    <3>2. at \in {"enable", "disable"}
      BY <1>4 DEF P!SetEnabledReads, P!At
    <3>3. v7' = [v7 EXCEPT ![c] = q]
      BY <1>3, <2>3
    <3> HIDE DEF s, at
    <3>4. q \in P!Call /\ q.at = "toggling" /\ q.plugin = v7[c].plugin
      BY <1>2, <3>1, <3>2, PluginNames DEF P!Call, ReadRow
    <3> HIDE DEF q
    <3>5. P!CallKnows(q)
      BY <1>2, <3>4 DEF P!CallKnows
    <3>6. Moves(c)
      BY <3>3, <3>4, <3>5 DEF Moves
    <3>7. QED
      BY <1>1, <1>2, <2>1, <3>6, RowsSame, LocallyKeeps
  <2>4. QED
    BY <1>4, <2>2, <2>3 DEF P!SetEnabledReads
<1>5. CASE P!SetEnabledReadsTools(c)
  <2>1. v1' = v1
    BY <1>5 DEF P!SetEnabledReadsTools
  <2>2. CASE P!Answer(c)
    BY <1>1, <1>2, <2>1, <2>2, RowsSame, AnswerMoves, LocallyKeeps
  <2>3. CASE v7' = [v7 EXCEPT ![c].saw.tools = v1[P!P(c)].tools, ![c].at = "writing"]
    <3> DEFINE s == [v7[c].saw EXCEPT !.tools = v1[P!P(c)].tools]
               q == [v7[c] EXCEPT !.saw = s, !.at = "writing"]
    <3>1. s \in ReadRow
      BY <1>2, <1>3 DEF ReadRow, P!Row
    <3>2. v7' = [v7 EXCEPT ![c] = q]
      BY <1>3, <2>3
    <3> HIDE DEF s
    <3>3. q \in P!Call /\ q.at = "writing" /\ q.plugin = v7[c].plugin
      BY <1>2, <3>1, PluginNames DEF P!Call, ReadRow
    <3> HIDE DEF q
    <3>4. P!CallKnows(q)
      BY <1>2, <3>3 DEF P!CallKnows
    <3>5. Moves(c)
      BY <3>2, <3>3, <3>4 DEF Moves
    <3>6. QED
      BY <1>1, <1>2, <2>1, <3>5, RowsSame, LocallyKeeps
  <2>4. QED
    BY <1>5, <2>2, <2>3 DEF P!SetEnabledReadsTools
<1>6. CASE P!SetEnabledWrites(c)
  <2>1. v7[c].saw.auth \in P!Auths /\ v7[c].saw.tools \in BOOLEAN
    BY <1>3 DEF ReadRow
  <2>2. \E e \in BOOLEAN, t \in BOOLEAN, s \in Statuses, a \in P!Auths :
          P!UpdatePluginConnection(P!P(c), e, s, a, t)
    <3>1. "connected" \in Statuses /\ "reopen" \in Statuses
      BY DEF Statuses
    <3>2. CASE v7[c].back = "enable"
      <4>1. P!UpdatePluginConnection(P!P(c), TRUE, "connected", v7[c].saw.auth, v7[c].saw.tools)
        BY <1>6, <3>2 DEF P!SetEnabledWrites
      <4>2. QED
        BY <2>1, <3>1, <4>1, Zenon
    <3>3. CASE v7[c].back # "enable"
      <4>1. P!UpdatePluginConnection(P!P(c), FALSE, "reopen", v7[c].saw.auth, v7[c].saw.tools)
        BY <1>6, <3>3 DEF P!SetEnabledWrites
      <4>2. QED
        BY <2>1, <3>1, <4>1, Zenon
    <3>4. QED
      BY <3>2, <3>3
  <2>3. PICK e \in BOOLEAN, t \in BOOLEAN, s \in Statuses, a \in P!Auths :
          P!UpdatePluginConnection(P!P(c), e, s, a, t)
    BY <2>2
  <2>4. RowsKept
    BY <1>2, <2>3, ConnectionKeepsRows
  <2>5. P!Answer(c)
    BY <1>6 DEF P!SetEnabledWrites
  <2>6. QED
    BY <1>1, <2>4, <2>5, AnswerMoves, LocallyKeeps
<1>7. QED
  BY <1>4, <1>5, <1>6

(* The three steps of configure_composio_events. *)
LEMMA EventsKeep ==
  ASSUME P!PluginsInv, NEW c \in PluginCallers,
         P!EventsRead(c) \/ P!ReconcileSubscription(c) \/ P!ConfigureComposioEvents(c)
  PROVE  P!PluginsInv'
<1>1. v7[c].at # "idle"
  BY DEF P!At, P!EventsRead, P!ReconcileSubscription, P!ConfigureComposioEvents
<1>2. P!TypeOK /\ v7[c] \in P!Call /\ P!P(c) \in PluginIds /\ v7[c].plugin = P!P(c) /\ v1[P!P(c)] \in P!Row
  BY <1>1, CallerKnown
<1>3. {"reconciling", "configuring"} \subseteq Settled
  BY PluginNames DEF Settled
<1>4. CASE P!EventsRead(c)
  <2>1. v1' = v1 /\ UNCHANGED <<v2, P!Here>> /\ (P!WithRow(c, "reconciling") \/ P!Answer(c))
    BY <1>4 DEF P!EventsRead
  <2>2. QED
    BY <1>1, <1>2, <1>3, <2>1, RowsSame, WithRowMoves, AnswerMoves, LocallyKeeps
<1>5. CASE P!ReconcileSubscription(c)
  <2>1. /\ v2' = v2 \cup {<<P!P(c), "hook">>} \/ v2' = v2
        /\ P!Goto(c, "configuring") \/ P!Answer(c)
        /\ UNCHANGED <<v1, v3, v4, v5, v6, v8, v9, v10, v11>>
    BY <1>5 DEF P!ReconcileSubscription, P!Here
  <2>2. Moves(c)
    BY <1>1, <1>3, <2>1, AnswerMoves, GotoMoves
  <2>3. v2' \subseteq PluginIds \X P!Secrets
    BY <1>2, <2>1 DEF P!TypeOK, P!Secrets
  <2>4. Quietly(c)
    BY <1>2, <2>1, <2>2, <2>3, RowsSame DEF Quietly, P!TypeOK
  <2>5. QED
    BY <2>4, QuietlyKeeps
<1>6. CASE P!ConfigureComposioEvents(c)
  <2>1. P!UpdatePluginConfiguration(P!P(c), v7[c].saw.oauth, TRUE) /\ P!Answer(c) /\ UNCHANGED <<v2, P!Here>>
    BY <1>6 DEF P!ConfigureComposioEvents
  <2>2. v7[c].saw.oauth \in BOOLEAN
    BY <1>2 DEF P!Call
  <2>3. PICK o \in BOOLEAN, i \in BOOLEAN : P!UpdatePluginConfiguration(P!P(c), o, i)
    BY <2>1, <2>2, Zenon
  <2>4. RowsKept
    BY <1>2, <2>3, ConfigurationKeepsRows
  <2>5. QED
    BY <2>1, <2>4, AnswerMoves, LocallyKeeps
<1>7. QED
  BY <1>4, <1>5, <1>6

(* The three steps of a webhook. *)
LEMMA WebhooksKeep ==
  ASSUME P!PluginsInv, NEW c \in PluginCallers,
         P!WebhookReads(c) \/ P!WebhookExpires(c) \/ P!WebhookPersists(c)
  PROVE  P!PluginsInv'
<1>1. v7[c].at # "idle"
  BY DEF P!At, P!WebhookReads, P!WebhookExpires, P!WebhookPersists
<1>2. P!TypeOK /\ v7[c] \in P!Call
  BY <1>1, CallerKnown
<1>3. {"persisting", "expiring"} \subseteq Settled
  BY PluginNames DEF Settled
<1>4. CASE P!WebhookReads(c)
  <2>1. v1' = v1 /\ UNCHANGED <<v2, P!Here>> /\ (P!Goto(c, "persisting") \/ P!Goto(c, "expiring") \/ P!Answer(c))
    BY <1>4 DEF P!WebhookReads
  <2>2. QED
    BY <1>1, <1>2, <1>3, <2>1, RowsSame, GotoMoves, AnswerMoves, LocallyKeeps
<1>5. CASE P!WebhookExpires(c)
  <2>1. /\ P!UpdatePluginConnection(P!P(c), FALSE, "reopen", "required", FALSE)
        /\ P!Goto(c, "persisting") \/ P!Answer(c)
        /\ UNCHANGED <<v2, P!Here>>
    BY <1>5 DEF P!WebhookExpires
  <2>2. RowsKept
    BY <1>1, <2>1, RowWrites DEF Statuses, P!Auths
  <2>3. Moves(c)
    BY <1>1, <1>3, <2>1, GotoMoves, AnswerMoves
  <2>4. QED
    BY <2>1, <2>2, <2>3, LocallyKeeps
<1>6. CASE P!WebhookPersists(c)
  <2> DEFINE d == v7[c].delivery
  <2>1. v5' = [v5 EXCEPT ![d] = IF @ = 0 THEN 1 ELSE @] /\ P!Answer(c)
        /\ UNCHANGED <<v1, v2, v3, v4, v6, v8, v9, v10, v11>>
    BY <1>6 DEF P!WebhookPersists
  <2> HIDE DEF d
  <2>2. v5 \in [WebhookIds -> Nat]
    BY <1>2 DEF P!TypeOK
  <2>3. v5' \in [WebhookIds -> Nat]
    <3>1. CASE d \in WebhookIds
      BY <2>1, <2>2, <3>1
    <3>2. CASE d \notin WebhookIds
      <4>1. v5' = v5
        BY <2>1, <2>2, <3>2
      <4>2. QED
        BY <2>2, <4>1
    <3>3. QED
      BY <3>1, <3>2
  <2>4. Quietly(c)
    BY <1>2, <2>1, <2>3, AnswerMoves, RowsSame DEF Quietly, P!TypeOK
  <2>5. QED
    BY <2>4, QuietlyKeeps
<1>7. QED
  BY <1>4, <1>5, <1>6

(* The three steps of a tool call. *)
LEMMA ToolsKeep ==
  ASSUME P!PluginsInv, NEW c \in PluginCallers,
         P!ToolSelects(c) \/ P!ToolApproved(c) \/ P!ToolCalls(c)
  PROVE  P!PluginsInv'
<1>1. v7[c].at # "idle" /\ v1' = v1 /\ UNCHANGED <<v2, P!Here>>
  BY DEF P!At, P!ToolSelects, P!ToolApproved, P!ToolCalls
<1>2. P!TypeOK /\ {"asking", "calling"} \subseteq Settled
  BY <1>1, CallerKnown, PluginNames DEF Settled
<1>3. P!WithRow(c, "asking") \/ P!Goto(c, "calling") \/ P!Answer(c)
  BY DEF P!ToolSelects, P!ToolApproved, P!ToolCalls
<1>4. Moves(c)
  BY <1>1, <1>2, <1>3, WithRowMoves, GotoMoves, AnswerMoves
<1>5. QED
  BY <1>1, <1>2, <1>4, RowsSame, LocallyKeeps

(* A request that arrives holds nothing. *)
LEMMA ArriveKeeps ==
  ASSUME P!PluginsInv, NEW c \in PluginCallers, NEW request \in P!Requests, NEW p \in PluginIds,
         NEW d \in WebhookIds, P!Arrive(c, request, p, d)
  PROVE  P!PluginsInv'
<1>1. P!TypeOK
  BY DEF P!PluginsInv
<1> DEFINE e == IF request = "webhook" THEN d ELSE None
           q == [P!Idle EXCEPT !.at = request, !.plugin = p, !.delivery = e]
<1>2. v7' = [v7 EXCEPT ![c] = q] /\ v10 < PluginCalls /\ v10' = v10 + 1
      /\ UNCHANGED <<v1, v2, v3, v4, v5, v6, v8, v9, v11>>
  BY DEF P!Arrive
<1>3. e \in WebhookIds \cup {None}
  OBVIOUS
<1> HIDE DEF e
<1>4. q \in P!Call /\ q.at = request /\ q.plugin = p
  BY <1>3, IdleCall, PluginNames DEF P!Call
<1> HIDE DEF q
<1>5. P!CallKnows(q) /\ q.at \notin {"inserting", "compensating", "exchanging"}
  BY <1>4, PluginNames DEF P!CallKnows
<1>6. Moves(c)
  BY <1>2, <1>4, <1>5 DEF Moves
<1>7. v10' \in 0..PluginCalls
  BY <1>1, <1>2, OwnerAssumption DEF P!TypeOK
<1>8. Quietly(c)
  BY <1>1, <1>2, <1>6, <1>7, RowsSame DEF Quietly, P!TypeOK
<1>9. QED
  BY <1>8, QuietlyKeeps

(* Steps that leave rows, flows, sessions and requests alone. *)
LEMMA PluginsStay ==
  ASSUME P!PluginsInv, UNCHANGED <<v1, v2, v3, v4, v5, v7, v8, v9, v10, v11>>, v6' \in BOOLEAN
  PROVE  P!PluginsInv'
<1>0. v7' = v7
  OBVIOUS
<1>1. P!TypeOK'
  BY DEF P!PluginsInv, P!TypeOK
<1>2. (\A x \in PluginCallers : P!CallKnows(v7[x]))'
  BY DEF P!PluginsInv, P!CallKnows
<1>3. \A x \in PluginCallers : /\ P!Creates(x)' <=> P!Creates(x)
                               /\ \A f \in AuthFlows : P!Exchanges(x, f)' <=> P!Exchanges(x, f)
  BY <1>0 DEF P!Creates, P!Exchanges, P!At
<1>4. P!SessionsHeld
  BY DEF P!PluginsInv
<1>5. P!SessionsHeld'
  BY <1>3, <1>4 DEF P!SessionsHeld, P!At, P!P
<1>6. P!FlowsHeld'
  BY <1>3 DEF P!PluginsInv, P!FlowsHeld
<1>7. P!ConnectorHasSession' /\ P!ExchangedOnce'
  BY DEF P!PluginsInv, P!ConnectorHasSession, P!ExchangedOnce
<1>8. QED
  BY <1>1, <1>2, <1>5, <1>6, <1>7 DEF P!PluginsInv

(* A restart forgets the flows and the requests, so none of them exchanges or holds *)
(* anything.                                                                        *)
LEMMA PluginsRestart == P!PluginsInv /\ P!Restart => P!PluginsInv'
<1> SUFFICES ASSUME P!PluginsInv, P!Restart PROVE P!PluginsInv'
  OBVIOUS
<1>1. /\ v3' = [f \in AuthFlows |-> None] /\ v7' = [x \in PluginCallers |-> P!Idle]
      /\ UNCHANGED <<v1, v2, v4, v5, v6, v8, v9, v10, v11>>
  BY DEF P!Restart
<1>2. P!Idle \in P!Call /\ P!Idle.at = "idle" /\ P!CallKnows(P!Idle)
  BY IdleCall
<1>3. P!TypeOK'
  BY <1>1, <1>2 DEF P!PluginsInv, P!TypeOK
<1>4. (\A x \in PluginCallers : P!CallKnows(v7[x]))'
  BY <1>1, <1>2 DEF P!CallKnows
<1>5. \A x \in PluginCallers : ~P!Creates(x)' /\ \A f \in AuthFlows : ~P!Exchanges(x, f)'
  BY <1>1, <1>2 DEF P!Creates, P!Exchanges, P!At
<1>6. P!SessionsHeld'
  BY <1>5 DEF P!SessionsHeld
<1>7. P!FlowsHeld'
  <2>1. \A f \in AuthFlows : f \notin v8 => v9[f] = 0
    BY DEF P!PluginsInv, P!FlowsHeld
  <2>2. QED
    BY <1>1, <1>5, <2>1 DEF P!FlowsHeld
<1>8. P!ConnectorHasSession' /\ P!ExchangedOnce'
  BY <1>1 DEF P!PluginsInv, P!ConnectorHasSession, P!ExchangedOnce
<1>9. QED
  BY <1>3, <1>4, <1>6, <1>7, <1>8 DEF P!PluginsInv

(* Nothing is registered at the start. *)
LEMMA PluginsInit == P!Init => P!PluginsInv
<1> SUFFICES ASSUME P!Init PROVE P!PluginsInv
  OBVIOUS
<1>1. P!Idle \in P!Call /\ P!Idle.at = "idle" /\ P!CallKnows(P!Idle)
  BY IdleCall
<1>2. P!TypeOK
  <2>1. v1 \in [PluginIds -> P!Row] /\ v7 \in [PluginCallers -> P!Call]
    BY <1>1, PluginNames DEF P!Init
  <2>2. /\ v2 = {} /\ v3 \in [AuthFlows -> PluginIds \cup {None}] /\ v4 = {}
        /\ v5 \in [WebhookIds -> Nat] /\ v6 = FALSE /\ v8 = {} /\ v9 \in [AuthFlows -> Nat] /\ v10 = 0 /\ v11 = {}
    BY DEF P!Init
  <2>3. v10 \in 0..PluginCalls
    BY <2>2, OwnerAssumption
  <2>4. QED
    BY <2>1, <2>2, <2>3 DEF P!TypeOK
<1>3. \A x \in PluginCallers : P!CallKnows(v7[x]) /\ ~P!Creates(x) /\ \A f \in AuthFlows : ~P!Exchanges(x, f)
  BY <1>1 DEF P!Init, P!Creates, P!Exchanges, P!At
<1>4. P!SessionsHeld /\ P!FlowsHeld
  BY <1>3 DEF P!Init, P!SessionsHeld, P!FlowsHeld
<1>5. P!ConnectorHasSession /\ P!ExchangedOnce
  BY PluginNames DEF P!Init, P!ConnectorHasSession, P!ExchangedOnce
<1>6. QED
  BY <1>2, <1>3, <1>4, <1>5 DEF P!PluginsInv

(* Every step keeps the invariant of the plugins. *)
LEMMA PluginsStep == P!PluginsInv /\ [P!Next]_(P!vars) => P!PluginsInv'
<1> SUFFICES ASSUME P!PluginsInv, [P!Next]_(P!vars) PROVE P!PluginsInv'
  OBVIOUS
<1>1. CASE UNCHANGED P!vars
  <2>1. UNCHANGED <<v1, v2, v3, v4, v5, v6, v7, v8, v9, v10, v11>> /\ v6 \in BOOLEAN
    BY <1>1 DEF P!vars, P!PluginsInv, P!TypeOK
  <2>2. QED
    BY <2>1, PluginsStay
<1>2. ASSUME NEW c \in PluginCallers,
             \E request \in P!Requests, p \in PluginIds, d \in WebhookIds : P!Arrive(c, request, p, d)
      PROVE  P!PluginsInv'
  BY <1>2, ArriveKeeps
<1>3. ASSUME NEW c \in PluginCallers, P!Registers(c) PROVE P!PluginsInv'
  <2>1. CASE \E kind \in P!Kinds, headers \in BOOLEAN : P!Create(c, kind, headers)
    BY <2>1, CreateKeeps
  <2>2. CASE \E s \in ConnectorSessions : P!CreateComposioSession(c, s)
    BY <2>2, ComposioSessionKeeps
  <2>3. CASE P!CreateComposioRecord(c)
    BY <2>3, ComposioRecordKeeps
  <2>4. CASE P!CompensateComposio(c)
    BY <2>4, CompensateKeeps
  <2>5. CASE \/ P!CreateHolographicTools(c) \/ (\E on \in BOOLEAN : P!Assign(c, on))
             \/ P!DeleteReads(c) \/ P!DeleteFlows(c) \/ P!DeleteSecrets(c) \/ P!DeleteRow(c)
    BY <2>5, RegistersKeep
  <2>6. QED
    BY <1>3, <2>1, <2>2, <2>3, <2>4, <2>5 DEF P!Registers
<1>4. ASSUME NEW c \in PluginCallers, P!Authorizes(c) PROVE P!PluginsInv'
  <2>1. CASE \E f \in AuthFlows, expired \in SUBSET AuthFlows : P!AuthorizeWaits(c, f, expired)
    BY <2>1, FlowBegins
  <2>2. CASE \E f \in AuthFlows : P!Callback(c, f)
    BY <2>2, CallbackKeeps
  <2>3. CASE P!Exchange(c)
    BY <2>3, ExchangeKeeps
  <2>4. CASE \/ P!AuthorizeReads(c) \/ P!AuthorizeFails(c) \/ P!StoreToken(c) \/ P!RecordToken(c)
             \/ P!ComposioReads(c) \/ P!ComposioRefuses(c)
    BY <2>4, AuthorizesKeep
  <2>5. CASE \/ P!AuthorizeShows(c) \/ P!CompleteRemoteOauth(c) \/ P!MarkOauthFailure(c)
             \/ P!AuthorizeComposio(c) \/ P!RevokeComposio(c)
    BY <2>5, ShowsKeep
  <2>6. QED
    BY <1>4, <2>1, <2>2, <2>3, <2>4, <2>5 DEF P!Authorizes
<1>5. ASSUME NEW c \in PluginCallers, P!Connects(c) PROVE P!PluginsInv'
  <2>1. CASE \/ P!ConnectReads(c) \/ P!ConnectShows(c)
             \/ \E auth \in {"connected", "waiting", "required"} : P!PendingConnectorAuth(c, auth)
             \/ \E outcome \in {"tools", "refused", "error"} : P!ConnectStores(c, outcome)
    BY <2>1, ConnectsOn
  <2>2. CASE P!RefreshToken(c) \/ P!StoreRefreshed(c)
    BY <2>2, RefreshKeeps
  <2>3. CASE P!SetEnabledReads(c) \/ P!SetEnabledReadsTools(c) \/ P!SetEnabledWrites(c)
    BY <2>3, TogglesKeep
  <2>4. CASE P!EventsRead(c) \/ P!ReconcileSubscription(c) \/ P!ConfigureComposioEvents(c)
    BY <2>4, EventsKeep
  <2>5. CASE P!WebhookReads(c) \/ P!WebhookExpires(c) \/ P!WebhookPersists(c)
    BY <2>5, WebhooksKeep
  <2>6. CASE P!ToolSelects(c) \/ P!ToolApproved(c) \/ P!ToolCalls(c)
    BY <2>6, ToolsKeep
  <2>7. QED
    BY <1>5, <2>1, <2>2, <2>3, <2>4, <2>5, <2>6 DEF P!Connects
<1>6. CASE P!TakeOver
  <2>1. UNCHANGED <<v1, v2, v3, v4, v5, v7, v8, v9, v10, v11>> /\ v6' \in BOOLEAN
    BY <1>6 DEF P!TakeOver
  <2>2. QED
    BY <2>1, PluginsStay
<1>7. CASE P!Restart
  BY <1>7, PluginsRestart
<1>8. QED
  BY <1>1, <1>2, <1>3, <1>4, <1>5, <1>6, <1>7 DEF P!Next

(* The invariant, for the behaviours of the plugins. *)
PluginsInvHere == component = "plugins" => P!PluginsInv

(* It holds in every behaviour. *)
LEMMA PluginsHold == OwnerSpec => []PluginsInvHere
<1>1. OwnerInit => PluginsInvHere
  BY PluginsInit DEF OwnerInit, PluginsInvHere
<1>2. PluginsInvHere /\ [OwnerNext]_all => PluginsInvHere'
  <2> SUFFICES ASSUME PluginsInvHere, [OwnerNext]_all, component' = "plugins" PROVE P!PluginsInv'
    BY DEF PluginsInvHere
  <2>1. component = "plugins" /\ [P!Next]_(P!vars)
    BY DEF OwnerNext, all, P!vars
  <2>2. QED
    BY <2>1, PluginsStep DEF PluginsInvHere
<1>3. QED
  BY <1>1, <1>2, PTL DEF OwnerSpec

(* A connector that exists refers to a session that is alive at the service: no     *)
(* failed, repeated or racing creation deletes it, except one that failed after its *)
(* insert and could then not look the row up (create_composio).                     *)
THEOREM ConnectorHasSessionAlways == OwnerSpec => []ConnectorHasSession
<1>1. PluginsInvHere => ConnectorHasSession
  BY DEF PluginsInvHere, ConnectorHasSession, P!PluginsInv
<1>2. QED
  BY <1>1, PluginsHold, PTL

(* The code of an authorization flow is presented to the authorization server at    *)
(* most once, however callbacks are repeated, deleted flows and restarts in between *)
(* (oauth_callback).                                                                *)
THEOREM ExchangedOnceAlways == OwnerSpec => [](component = "plugins" => P!ExchangedOnce)
<1>1. PluginsInvHere => (component = "plugins" => P!ExchangedOnce)
  BY DEF PluginsInvHere, P!PluginsInv
<1>2. QED
  BY <1>1, PluginsHold, PTL

-----------------------------------------------------------------------------
(* Browser. Slots: v1 row, v2 targets, v3 claimed, v4 call, v5 opened, v6 *)
(* crossed, v7 arrived.                                                   *)

(* The instance counts as the library does. *)
LEMMA TargetCounts ==
  /\ \A X : B!Cardinality(X) = Cardinality(X)
  /\ \A X : B!IsFiniteSet(X) <=> IsFiniteSet(X)
BY DEF B!Cardinality, Cardinality, B!IsFiniteSet, IsFiniteSet

(* The requests and the steps of a call by name. *)
LEMMA BrowserNames ==
  /\ B!Requests = {"create", "takeover", "return", "act", "close", "bot_act", "bot_close"}
  /\ B!CallSteps = {"create", "takeover", "return", "act", "close", "bot_act", "bot_close",
       "idle", "opening", "activating", "parking", "taking", "asking", "returning", "running",
       "completing", "stalling", "closing", "closed", "ensuring", "waiting"}
BY DEF B!Requests, B!CallSteps

(* The row of a session that was never created. *)
LEMMA AbsentRow == B!Absent \in B!Sees /\ B!Absent.controller = "bot" /\ B!Absent.device = None
                   /\ B!Absent.status = "none" /\ B!Absent.lease = "none"
BY DEF B!Absent, B!Sees

(* The locals of a call that nobody made. *)
LEMMA IdleLocals ==
  /\ B!Idle \in B!Locals /\ B!Idle.at = "idle" /\ B!CallKnows(B!Idle)
<1>1. (CHOOSE s \in BrowserKeys : TRUE) \in BrowserKeys
  BY OwnerAssumption
<1>2. B!Idle \in B!Locals
  BY <1>1, AbsentRow, BrowserNames DEF B!Idle, B!Locals
<1>3. B!Idle.at = "idle"
  BY DEF B!Idle
<1>4. QED
  BY <1>2, <1>3 DEF B!CallKnows, B!Closes

(* The call in service goes on with locals that it may have. *)
Serves(c, q) == v4' = [v4 EXCEPT ![c] = q] /\ B!CallKnows(q)
Served(c) == \E q \in B!Locals : Serves(c, q)

(* A row whose controller, device and lease agree. *)
Agrees(r) == (r.controller = "user" <=> r.device # None) /\ (r.lease = "held" => r.device # None)

(* Row x becomes r, which agrees unless a stale controller was written; a lease that *)
(* runs is respected.                                                                *)
Writes(x, r) ==
  /\ v1' = [v1 EXCEPT ![x] = r]
  /\ v6' \in {v6, v6 \ {x}, v6 \cup {x}}
  /\ r.status = "none" => r.lease = "none"
  /\ x \notin v6' => Agrees(r)
  /\ x \notin v6 /\ x \notin v6' /\ v1[x].lease = "held" => B!StaysOrReturned(x)
(* At most one row is written, in such a way. *)
Written == \E x \in BrowserKeys : \E r \in B!Sees : Writes(x, r)

(* The targets stay within the slots. *)
SlotsKept ==
  /\ B!IsFiniteSet(v2') /\ B!Cardinality(v2') <= BrowserSlots
  /\ v2' \subseteq v5' /\ v5' \subseteq BrowserTargets /\ v3' \subseteq BrowserKeys

(* What the invariant says of the rows. *)
LEMMA RowTyped ==
  ASSUME B!BrowserInv, NEW x \in BrowserKeys
  PROVE  /\ v1 \in [BrowserKeys -> B!Sees] /\ v1[x] \in B!Sees /\ v6 \subseteq BrowserKeys
         /\ (x \notin v6 => Agrees(v1[x])) /\ (v1[x].status = "none" => v1[x].lease = "none")
<1>1. v1 \in [BrowserKeys -> B!Sees] /\ v1[x] \in B!Sees /\ v6 \subseteq BrowserKeys
  <2>1. v1 \in [BrowserKeys -> B!Sees] /\ v6 \subseteq BrowserKeys
    BY DEF B!BrowserInv, B!TypeOK
  <2>2. QED
    BY <2>1
<1>2. ASSUME x \notin v6 PROVE Agrees(v1[x])
  <2>1. B!HolderRecorded /\ x \in BrowserKeys \ v6
    BY <1>2 DEF B!BrowserInv
  <2>2. (v1[x].controller = "user" <=> v1[x].device # None) /\ (v1[x].lease = "held" => v1[x].device # None)
    BY <2>1 DEF B!HolderRecorded
  <2>3. QED
    BY <2>2 DEF Agrees
<1>3. v1[x].status = "none" => v1[x].lease = "none"
  BY DEF B!BrowserInv, B!Exists
<1>4. QED
  BY <1>1, <1>2, <1>3

(* A row that is left with its controller and device is left with its holder. *)
LEMMA HolderStays ==
  ASSUME B!BrowserInv, NEW x \in BrowserKeys, x \notin v6, v1[x].lease = "held",
         v1'[x].controller = v1[x].controller, v1'[x].device = v1[x].device
  PROVE  B!StaysOrReturned(x)
BY RowTyped DEF B!StaysOrReturned, Agrees

(* A step of a call that goes on and writes at most one row in such a way keeps the *)
(* invariant and the leases.                                                        *)
LEMMA ServiceKeeps ==
  ASSUME B!BrowserInv, NEW c \in BrowserCallers, Served(c), Written, SlotsKept, v7' = v7
  PROVE  B!BrowserInv' /\ B!LeaseKept
<1>0. /\ B!TypeOK /\ v1 \in [BrowserKeys -> B!Sees] /\ v4 \in [BrowserCallers -> B!Locals]
      /\ v6 \subseteq BrowserKeys /\ \A x \in BrowserCallers : B!CallKnows(v4[x])
  BY DEF B!BrowserInv, B!TypeOK
<1>1. PICK q \in B!Locals : Serves(c, q)
  BY DEF Served
<1>2. PICK x \in BrowserKeys, r \in B!Sees : Writes(x, r)
  BY DEF Written
<1>3. /\ v4' \in [BrowserCallers -> B!Locals] /\ v4'[c] = q
      /\ \A y \in BrowserCallers \ {c} : v4'[y] = v4[y]
  BY <1>0, <1>1 DEF Serves
<1>4. /\ v1' \in [BrowserKeys -> B!Sees] /\ v1'[x] = r
      /\ \A s \in BrowserKeys \ {x} : v1'[s] = v1[s]
  BY <1>0, <1>2 DEF Writes
<1>5. v6' \subseteq BrowserKeys /\ \A s \in BrowserKeys \ {x} : s \in v6' <=> s \in v6
  BY <1>0, <1>2 DEF Writes
<1>6. B!TypeOK'
  BY <1>0, <1>3, <1>4, <1>5 DEF B!TypeOK, SlotsKept
<1>7. B!IsFiniteSet(v2)'
  BY DEF SlotsKept
<1>8. (\A y \in BrowserCallers : B!CallKnows(v4[y]))'
  BY <1>0, <1>1, <1>3 DEF B!CallKnows, B!Closes, Serves
<1>9. B!HolderRecorded'
  <2>1. \A s \in BrowserKeys \ v6' : Agrees(v1'[s])
    BY <1>2, <1>4, <1>5, RowTyped DEF Writes
  <2>2. QED
    BY <2>1 DEF B!HolderRecorded, Agrees
<1>10. B!LeaseKept
  <2> SUFFICES ASSUME NEW s \in BrowserKeys, v1[s].lease = "held", s \notin v6, s \notin v6'
               PROVE  B!StaysOrReturned(s)
    BY DEF B!LeaseKept
  <2>1. CASE s = x
    BY <1>2, <2>1 DEF Writes
  <2>2. CASE s # x
    BY <1>4, <2>2, HolderStays
  <2>3. QED
    BY <2>1, <2>2
<1>11. (\A s \in BrowserKeys : ~B!Exists(s) => v1[s].lease = "none")'
  BY <1>2, <1>4, RowTyped DEF B!Exists, Writes
<1>12. QED
  BY <1>6, <1>7, <1>8, <1>9, <1>10, <1>11 DEF B!BrowserInv

(* Writing nothing is such a write. *)
LEMMA RowStays ==
  ASSUME B!BrowserInv, UNCHANGED <<v1, v6>> PROVE Written
<1>1. PICK x \in BrowserKeys : TRUE
  BY OwnerAssumption
<1>2. /\ v1 \in [BrowserKeys -> B!Sees] /\ v1[x] \in B!Sees /\ (x \notin v6 => Agrees(v1[x]))
      /\ v1[x].status = "none" => v1[x].lease = "none"
  BY RowTyped
<1>3. v1' = [v1 EXCEPT ![x] = v1[x]]
  BY <1>2
<1>4. Writes(x, v1[x])
  BY <1>2, <1>3, HolderStays DEF Writes
<1>5. QED
  BY <1>2, <1>4 DEF Written

(* Targets that nobody opens or closes. *)
LEMMA SlotsStay ==
  ASSUME B!BrowserInv, UNCHANGED <<v2, v5>>, v3' \subseteq BrowserKeys PROVE SlotsKept
BY DEF B!BrowserInv, B!TypeOK, SlotsKept

(* The types of what a call works with. *)
LEMMA InServiceKnown ==
  ASSUME B!BrowserInv, NEW c \in BrowserCallers
  PROVE  /\ v4 \in [BrowserCallers -> B!Locals] /\ v4[c] \in B!Locals /\ v4[c].session \in BrowserKeys
         /\ v1 \in [BrowserKeys -> B!Sees] /\ v1[v4[c].session] \in B!Sees /\ v4[c].saw \in B!Sees
         /\ v3 \subseteq BrowserKeys /\ B!S(c) = v4[c].session /\ B!Saw(c) = v4[c].saw
         /\ v4[c].target \in BrowserTargets \cup {None} /\ B!CallKnows(v4[c])
BY DEF B!BrowserInv, B!TypeOK, B!Locals, B!S, B!Saw

(* A call may be answered. *)
LEMMA AnswerServes == ASSUME NEW c \in BrowserCallers, B!Answer(c) PROVE Served(c)
<1>1. Serves(c, B!Idle)
  BY IdleLocals DEF B!Answer, Serves
<1>2. QED
  BY <1>1, IdleLocals DEF Served

(* A call may go on; the Bot's to a close only from one. *)
LEMMA GotoServes ==
  ASSUME B!BrowserInv, NEW c \in BrowserCallers,
         NEW step \in B!CallSteps \ {"create", "takeover", "taking", "act", "close", "waiting"},
         B!Goto(c, step),
         v4[c].who = BotCaller /\ step \in {"closing", "closed"} => B!Closes(v4[c])
  PROVE  Served(c)
<1> DEFINE q == [v4[c] EXCEPT !.at = step]
<1>1. v4 \in [BrowserCallers -> B!Locals] /\ v4[c] \in B!Locals /\ B!CallKnows(v4[c])
  BY InServiceKnown
<1>2. q \in B!Locals /\ q.at = step /\ q.saw = v4[c].saw /\ q.who = v4[c].who
  BY <1>1 DEF B!Locals
<1>3. v4' = [v4 EXCEPT ![c] = q]
  BY <1>1 DEF B!Goto
<1> HIDE DEF q
<1>4. B!CallKnows(q)
  BY <1>1, <1>2 DEF B!CallKnows, B!Closes
<1>5. QED
  BY <1>2, <1>3, <1>4 DEF Serves, Served

(* A call may wait for the owner. *)
LEMMA WaitServes ==
  ASSUME B!BrowserInv, NEW c \in BrowserCallers, NEW step \in {"opening", "running", "closing"},
         v4' = [v4 EXCEPT ![c].at = "waiting", ![c].next = step],
         step = "closing" => B!Closes(v4[c])
  PROVE  Served(c)
<1> DEFINE q == [v4[c] EXCEPT !.at = "waiting", !.next = step]
<1>1. v4 \in [BrowserCallers -> B!Locals] /\ v4[c] \in B!Locals /\ B!CallKnows(v4[c])
  BY InServiceKnown
<1>2. /\ q \in B!Locals /\ q.at = "waiting" /\ q.next = step
      /\ q.saw = v4[c].saw /\ q.who = v4[c].who
  BY <1>1, BrowserNames DEF B!Locals
<1>3. v4' = [v4 EXCEPT ![c] = q]
  BY <1>1
<1> HIDE DEF q
<1>4. B!CallKnows(q)
  BY <1>1, <1>2 DEF B!CallKnows, B!Closes
<1>5. QED
  BY <1>2, <1>3, <1>4 DEF Serves, Served

(* A call may go on with a row as it is; the Bot closes only one that it controls. *)
LEMMA GoWithServes ==
  ASSUME B!BrowserInv, NEW c \in BrowserCallers, NEW s \in BrowserKeys,
         NEW step \in B!CallSteps \ {"create", "takeover", "act", "close", "waiting"}, B!GoWith(c, step, s),
         v4[c].who = BotCaller => step # "taking" /\ v1[s].controller = "bot"
  PROVE  Served(c)
<1> DEFINE r == v1[s]
           q == [v4[c] EXCEPT !.at = step, !.session = s, !.saw = r]
<1>1. v4 \in [BrowserCallers -> B!Locals] /\ v4[c] \in B!Locals /\ r \in B!Sees
  BY DEF B!BrowserInv, B!TypeOK
<1>2. v4' = [v4 EXCEPT ![c] = q]
  BY <1>1 DEF B!GoWith
<1>r. r = v1[s]
  OBVIOUS
<1> HIDE DEF r
<1>3. q \in B!Locals /\ q.at = step /\ q.saw = r /\ q.who = v4[c].who
  BY <1>1 DEF B!Locals
<1> HIDE DEF q
<1>4. B!CallKnows(q)
  BY <1>3, <1>r DEF B!CallKnows, B!Closes
<1>5. QED
  BY <1>2, <1>3, <1>4 DEF Serves, Served

(* A call that only goes on keeps the invariant and the leases. *)
LEMMA QuietlyServes ==
  ASSUME B!BrowserInv, NEW c \in BrowserCallers, Served(c), UNCHANGED <<B!Rows, v2, v3, B!Same>>
  PROVE  B!BrowserInv' /\ B!LeaseKept
<1>1. UNCHANGED <<v1, v2, v3, v5, v6, v7>>
  BY DEF B!Same, B!Rows
<1>2. v3' \subseteq BrowserKeys
  BY <1>1 DEF B!BrowserInv, B!TypeOK
<1>3. QED
  BY <1>1, <1>2, RowStays, SlotsStay, ServiceKeeps

(* The requests of devices that read a row and check it. *)
LEMMA DeviceReadsKeep ==
  ASSUME B!BrowserInv, NEW c \in BrowserCallers,
         B!TakeoverReads(c) \/ B!ReturnReads(c) \/ B!ExecuteReads(c) \/ B!CloseReads(c)
  PROVE  B!BrowserInv' /\ B!LeaseKept
<1>1. v4[c].at \in {"takeover", "return", "act", "close"} /\ UNCHANGED <<B!Rows, v2, v3, B!Same>>
  BY DEF B!At, B!TakeoverReads, B!ReturnReads, B!ExecuteReads, B!CloseReads
<1>2. /\ B!S(c) \in BrowserKeys
      /\ v4[c].at \in {"takeover", "act", "close"} => v4[c].who # BotCaller
  BY InServiceKnown DEF B!CallKnows
<1>3. \/ B!Answer(c) \/ (v4[c].at = "return" /\ B!Goto(c, "returning"))
      \/ /\ v4[c].at \in {"takeover", "act", "close"}
         /\ \E step \in {"taking", "asking", "running", "closed", "closing"} : B!GoWith(c, step, B!S(c))
  BY DEF B!At, B!TakeoverReads, B!ReturnReads, B!ExecuteReads, B!CloseReads
<1>4. Served(c)
  <2>1. CASE v4[c].at = "return" /\ B!Goto(c, "returning")
    BY <1>1, <2>1, GotoServes, BrowserNames
  <2>2. CASE /\ v4[c].at \in {"takeover", "act", "close"}
             /\ \E step \in {"taking", "asking", "running", "closed", "closing"} : B!GoWith(c, step, B!S(c))
    BY <1>1, <1>2, <2>2, GoWithServes, BrowserNames
  <2>3. QED
    BY <1>3, <2>1, <2>2, AnswerServes
<1>5. QED
  BY <1>1, <1>4, QuietlyServes

(* An action at the runtime ends, stalls, asks or waits. *)
LEMMA RuntimeKeeps ==
  ASSUME B!BrowserInv, NEW c \in BrowserCallers, B!ExecuteRuntime(c)
  PROVE  B!BrowserInv' /\ B!LeaseKept
<1>1. UNCHANGED <<B!Rows, v2, v3, B!Same>>
  BY DEF B!ExecuteRuntime
<1>2. \/ B!Answer(c) \/ (\E step \in {"completing", "stalling", "asking"} : B!Goto(c, step))
      \/ v4' = [v4 EXCEPT ![c].at = "waiting", ![c].next = "running"]
  BY DEF B!ExecuteRuntime
<1>3. Served(c)
  <2>1. CASE \E step \in {"completing", "stalling", "asking"} : B!Goto(c, step)
    BY <2>1, GotoServes, BrowserNames
  <2>2. CASE v4' = [v4 EXCEPT ![c].at = "waiting", ![c].next = "running"]
    BY <2>2, WaitServes
  <2>3. QED
    BY <1>2, <2>1, <2>2, AnswerServes
<1>4. QED
  BY <1>1, <1>3, QuietlyServes

(* The steps of the Bot's tools up to the runtime. *)
LEMMA BotReadsKeep ==
  ASSUME B!BrowserInv, NEW c \in BrowserCallers,
         \/ B!CallProviderTool(c) \/ B!EnsureProviderSession(c) \/ B!AwaitCapabilityApproval(c)
         \/ B!CloseForProvider(c)
  PROVE  B!BrowserInv' /\ B!LeaseKept
<1>1. UNCHANGED <<B!Rows, v2, v3, B!Same>>
  BY DEF B!CallProviderTool, B!EnsureProviderSession, B!AwaitCapabilityApproval, B!CloseForProvider
<1>2. \/ B!Answer(c) \/ B!Goto(c, "ensuring")
      \/ \E s \in B!BotsOwn : B!GoWith(c, "running", s) \/ B!GoWith(c, "closing", s)
      \/ \E s \in BrowserKeys : ~B!Exists(s) /\ v4[c].at = "ensuring" /\ B!GoWith(c, "opening", s)
      \/ v4[c].at = "waiting" /\ B!Goto(c, v4[c].next)
  BY DEF B!At, B!CallProviderTool, B!EnsureProviderSession, B!AwaitCapabilityApproval, B!CloseForProvider
<1>3. CASE B!Goto(c, "ensuring")
  BY <1>1, <1>3, GotoServes, QuietlyServes, BrowserNames
<1>4. CASE \E s \in B!BotsOwn : B!GoWith(c, "running", s) \/ B!GoWith(c, "closing", s)
  <2>1. PICK s \in BrowserKeys, step \in {"running", "closing"} : B!GoWith(c, step, s) /\ v1[s].controller = "bot"
    BY <1>4 DEF B!BotsOwn
  <2>2. Served(c)
    BY <1>1, <2>1, GoWithServes, BrowserNames
  <2>3. QED
    BY <1>1, <2>2, QuietlyServes
<1>5. CASE \E s \in BrowserKeys : ~B!Exists(s) /\ v4[c].at = "ensuring" /\ B!GoWith(c, "opening", s)
  <2>1. PICK s \in BrowserKeys : B!GoWith(c, "opening", s)
    BY <1>5
  <2> DEFINE r == v1[s]
             q == [v4[c] EXCEPT !.at = "opening", !.session = s, !.saw = r]
  <2>2. v4 \in [BrowserCallers -> B!Locals] /\ v4[c] \in B!Locals /\ r \in B!Sees
    BY DEF B!BrowserInv, B!TypeOK
  <2>3. v4' = [v4 EXCEPT ![c] = q]
    BY <2>1, <2>2 DEF B!GoWith
  <2> HIDE DEF r
  <2>4. q \in B!Locals /\ q.at = "opening"
    BY <2>2, BrowserNames DEF B!Locals
  <2> HIDE DEF q
  <2>5. Served(c)
    BY <2>3, <2>4 DEF B!CallKnows, B!Closes, Serves, Served
  <2>6. QED
    BY <1>1, <2>5, QuietlyServes
<1>6. CASE v4[c].at = "waiting" /\ B!Goto(c, v4[c].next)
  <2>1. v4[c].next \in {"opening", "running", "closing"}
    BY <1>6, InServiceKnown DEF B!Locals, B!CallKnows
  <2>2. PICK step \in {"opening", "running", "closing"} : step = v4[c].next /\ B!Goto(c, step)
    BY <1>6, <2>1
  <2>3. step = "closing" => B!Closes(v4[c])
    BY <1>6, <2>2 DEF B!Closes
  <2>4. Served(c)
    BY <2>2, <2>3, GotoServes, BrowserNames
  <2>5. QED
    BY <1>1, <2>4, QuietlyServes
<1>7. CASE B!Answer(c)
  BY <1>1, <1>7, AnswerServes, QuietlyServes
<1>8. QED
  BY <1>2, <1>3, <1>4, <1>5, <1>6, <1>7

(* A creation claims its key, fails, or asks for approval. *)
LEMMA OpeningKeeps ==
  ASSUME B!BrowserInv, NEW c \in BrowserCallers, B!CreateClaims(c) \/ B!OpenFails(c) \/ B!OpenAsks(c)
  PROVE  B!BrowserInv' /\ B!LeaseKept
<1>1. UNCHANGED <<v1, v2, v5, v6, v7>>
  BY DEF B!CreateClaims, B!OpenFails, B!OpenAsks, B!Same, B!Rows
<1>2. v3' \in {v3, v3 \cup {B!S(c)}, v3 \ {B!S(c)}}
  BY DEF B!CreateClaims, B!OpenFails, B!OpenAsks
<1>3. v3' \subseteq BrowserKeys
  BY <1>2, InServiceKnown
<1>4. \/ B!Answer(c) \/ B!Goto(c, "opening") \/ B!Goto(c, "parking")
      \/ v4' = [v4 EXCEPT ![c].at = "waiting", ![c].next = "opening"]
  BY DEF B!CreateClaims, B!OpenFails, B!OpenAsks
<1>5. Served(c)
  <2>1. CASE B!Goto(c, "opening") \/ B!Goto(c, "parking")
    BY <2>1, GotoServes, BrowserNames
  <2>2. CASE v4' = [v4 EXCEPT ![c].at = "waiting", ![c].next = "opening"]
    BY <2>2, WaitServes
  <2>3. QED
    BY <1>4, <2>1, <2>2, AnswerServes
<1>6. QED
  BY <1>1, <1>3, <1>5, RowStays, SlotsStay, ServiceKeeps

(* A target is opened only while a slot is free. *)
LEMMA OpenTargetKeeps ==
  ASSUME B!BrowserInv, NEW c \in BrowserCallers, NEW t \in BrowserTargets, B!OpenTarget(c, t)
  PROVE  B!BrowserInv' /\ B!LeaseKept
<1>1. /\ B!Cardinality(v2) < BrowserSlots /\ v5' = v5 \cup {t} /\ v2' = v2 \cup {t}
      /\ v4' = [v4 EXCEPT ![c].at = "activating", ![c].target = t] /\ UNCHANGED <<v1, v3, v6, v7>>
  BY DEF B!OpenTarget, B!Rows
<1>2. IsFiniteSet(v2) /\ v2 \subseteq v5 /\ v5 \subseteq BrowserTargets /\ v3 \subseteq BrowserKeys
  BY TargetCounts DEF B!BrowserInv, B!TypeOK
<1>3. Cardinality(v2) < BrowserSlots
  BY <1>1, TargetCounts
<1>4. IsFiniteSet(v2') /\ Cardinality(v2') <= BrowserSlots
  <2>1. IsFiniteSet(v2 \cup {t}) /\ Cardinality(v2) \in Nat
        /\ (Cardinality(v2 \cup {t}) = Cardinality(v2) \/ Cardinality(v2 \cup {t}) = Cardinality(v2) + 1)
    BY <1>2, FS_AddElement, FS_CardinalityType
  <2>2. QED
    BY <1>1, <1>3, <2>1, OwnerAssumption
<1>5. SlotsKept
  <2>1. B!IsFiniteSet(v2') /\ B!Cardinality(v2') <= BrowserSlots
    BY <1>4, TargetCounts
  <2>2. QED
    BY <1>1, <1>2, <2>1 DEF SlotsKept
<1> DEFINE q == [v4[c] EXCEPT !.at = "activating", !.target = t]
<1>6. v4 \in [BrowserCallers -> B!Locals] /\ v4[c] \in B!Locals
  BY InServiceKnown
<1>7. q \in B!Locals /\ q.at = "activating" /\ v4' = [v4 EXCEPT ![c] = q]
  BY <1>1, <1>6, BrowserNames DEF B!Locals
<1> HIDE DEF q
<1>8. Served(c)
  BY <1>7 DEF B!CallKnows, B!Closes, Serves, Served
<1>9. QED
  BY <1>1, <1>5, <1>8, RowStays, ServiceKeeps

(* A closed target gives its slot back. *)
LEMMA CloseTargetKeeps ==
  ASSUME B!BrowserInv, NEW c \in BrowserCallers, B!CloseTarget(c)
  PROVE  B!BrowserInv' /\ B!LeaseKept
<1>1. /\ v4[c].at = "closing" /\ v2' \in {v2, v2 \ {B!Saw(c).target}} /\ UNCHANGED <<v1, v3, v5, v6, v7>>
  BY DEF B!CloseTarget, B!At, B!Same, B!Rows
<1>2. B!Closes(v4[c])
  BY <1>1 DEF B!Closes
<1>3. \/ B!Answer(c) \/ B!Goto(c, "closed") \/ B!Goto(c, "asking")
      \/ v4' = [v4 EXCEPT ![c].at = "waiting", ![c].next = "closing"]
  BY DEF B!CloseTarget
<1>4. Served(c)
  <2>1. CASE B!Goto(c, "closed") \/ B!Goto(c, "asking")
    BY <1>2, <2>1, GotoServes, BrowserNames
  <2>2. CASE v4' = [v4 EXCEPT ![c].at = "waiting", ![c].next = "closing"]
    BY <1>2, <2>2, WaitServes
  <2>3. QED
    BY <1>3, <2>1, <2>2, AnswerServes
<1>5. /\ IsFiniteSet(v2) /\ Cardinality(v2) <= BrowserSlots /\ v2 \subseteq v5 /\ v5 \subseteq BrowserTargets
      /\ v3 \subseteq BrowserKeys
  BY TargetCounts DEF B!BrowserInv, B!TypeOK
<1>6. IsFiniteSet(v2') /\ Cardinality(v2') <= BrowserSlots
  <2>1. v2' \subseteq v2
    BY <1>1
  <2>2. IsFiniteSet(v2') /\ Cardinality(v2') <= Cardinality(v2) /\ Cardinality(v2') \in Nat /\ Cardinality(v2) \in Nat
    BY <1>5, <2>1, FS_Subset, FS_CardinalityType
  <2>3. QED
    BY <1>5, <2>2, OwnerAssumption
<1>7. SlotsKept
  <2>1. B!IsFiniteSet(v2') /\ B!Cardinality(v2') <= BrowserSlots
    BY <1>6, TargetCounts
  <2>2. QED
    BY <1>1, <1>5, <2>1 DEF SlotsKept
<1>8. QED
  BY <1>1, <1>4, <1>7, RowStays, ServiceKeeps

(* A call writes its controller back: the row keeps its holder unless it was stale. *)
LEMMA RowWrittenBack ==
  ASSUME B!BrowserInv, NEW c \in BrowserCallers, NEW k \in {"bot", "user"}, k = B!Saw(c).controller,
         NEW st \in {"active", "awaiting_approval", "closed"}, B!WriteBack(c, k, st)
  PROVE  Written
<1> DEFINE x == B!S(c)
           r == [v1[x] EXCEPT !.controller = k, !.status = st]
<1>1. x \in BrowserKeys
  BY InServiceKnown
<1>2. v1 \in [BrowserKeys -> B!Sees] /\ v1[x] \in B!Sees /\ (x \notin v6 => Agrees(v1[x])) /\ v6 \subseteq BrowserKeys
  BY <1>1, RowTyped
<1>3. /\ v1' = [v1 EXCEPT ![x].controller = k, ![x].status = st]
      /\ v6' = IF k = v1[x].controller THEN v6 ELSE v6 \cup {x}
  BY DEF B!WriteBack, B!UpdateBrowserSession
<1> HIDE DEF x
<1>4. /\ r \in B!Sees /\ r.controller = k /\ r.status = st
      /\ r.device = v1[x].device /\ r.lease = v1[x].lease
  BY <1>2 DEF B!Sees
<1>5. v1' = [v1 EXCEPT ![x] = r]
  BY <1>2, <1>3
<1> HIDE DEF r
<1>6. v6' \in {v6, v6 \ {x}, v6 \cup {x}}
  BY <1>3
<1>7. ASSUME x \notin v6' PROVE x \notin v6 /\ k = v1[x].controller
  BY <1>3, <1>7
<1>8. x \notin v6' => Agrees(r)
  BY <1>2, <1>4, <1>7 DEF Agrees
<1>9. ASSUME x \notin v6', v1[x].lease = "held" PROVE B!StaysOrReturned(x)
  <2>1. v1'[x] = r
    BY <1>1, <1>2, <1>5
  <2>2. QED
    BY <1>1, <1>4, <1>7, <1>9, <2>1, HolderStays
<1>10. Writes(x, r)
  BY <1>4, <1>5, <1>6, <1>8, <1>9 DEF Writes
<1>11. QED
  BY <1>1, <1>4, <1>10 DEF Written

(* activate_browser_session leaves the holder. *)
LEMMA RowActivated ==
  ASSUME B!BrowserInv, NEW x \in BrowserKeys, NEW t \in BrowserTargets \cup {None},
         B!ActivateBrowserSession(x, t), v6' = v6
  PROVE  \E r \in B!Sees : Writes(x, r)
<1> DEFINE r == [v1[x] EXCEPT !.target = t, !.status = "active"]
<1>1. v1 \in [BrowserKeys -> B!Sees] /\ v1[x] \in B!Sees /\ (x \notin v6 => Agrees(v1[x]))
  BY RowTyped
<1>2. /\ r \in B!Sees /\ r.controller = v1[x].controller /\ r.status = "active"
      /\ r.device = v1[x].device /\ r.lease = v1[x].lease
  BY <1>1 DEF B!Sees
<1>3. v1' = [v1 EXCEPT ![x] = r]
  BY <1>1 DEF B!ActivateBrowserSession
<1> HIDE DEF r
<1>4. v1'[x] = r
  BY <1>1, <1>3
<1>5. x \notin v6 /\ v1[x].lease = "held" => B!StaysOrReturned(x)
  BY <1>2, <1>4, HolderStays
<1>6. x \notin v6 => Agrees(r)
  BY <1>1, <1>2 DEF Agrees
<1>7. Writes(x, r)
  BY <1>2, <1>3, <1>5, <1>6 DEF Writes
<1>8. QED
  BY <1>2, <1>7

(* A row is created for a session that has none, without a device. *)
LEMMA RowCreated ==
  ASSUME B!BrowserInv, NEW x \in BrowserKeys, NEW t \in BrowserTargets \cup {None}, ~B!Exists(x),
         NEW st \in {"active", "awaiting_approval"}, B!CreateBrowserSession(x, st, t), v6' = v6
  PROVE  \E r \in B!Sees : Writes(x, r)
<1> DEFINE r == [B!Absent EXCEPT !.status = st, !.target = t]
<1>1. r \in B!Sees /\ r.controller = "bot" /\ r.device = None /\ r.lease = "none"
  BY AbsentRow DEF B!Sees
<1>2. v1' = [v1 EXCEPT ![x] = r]
  BY DEF B!CreateBrowserSession
<1> HIDE DEF r
<1>3. v1[x].lease # "held"
  BY RowTyped DEF B!Exists
<1>4. Writes(x, r)
  BY <1>1, <1>2, <1>3 DEF Writes, Agrees
<1>5. QED
  BY <1>1, <1>4

(* claim_browser_takeover: the device whose lease runs is the only one to get it. *)
LEMMA RowClaimed ==
  ASSUME B!BrowserInv, NEW x \in BrowserKeys, NEW d \in BrowserDevices, B!ClaimBrowserTakeover(x, d)
  PROVE  Written
<1> DEFINE y == [v1[x] EXCEPT !.controller = "user", !.status = "active"]
           r == [y EXCEPT !.device = d, !.lease = "held"]
<1>1. /\ v1 \in [BrowserKeys -> B!Sees] /\ v1[x] \in B!Sees /\ (x \notin v6 => Agrees(v1[x]))
      /\ d # None
  BY RowTyped, OwnerAssumption
<1>2. y \in B!Sees /\ y.controller = "user" /\ y.status = "active"
  BY <1>1 DEF B!Sees
<1>3. CASE B!Claimable(x, d)
  <2>1. v1' = [v1 EXCEPT ![x] = r] /\ v6' = v6 \ {x}
    BY <1>1, <1>3 DEF B!ClaimBrowserTakeover, B!Holds
  <2> HIDE DEF y
  <2>2. r \in B!Sees /\ r.controller = "user" /\ r.status = "active" /\ r.device = d
    BY <1>2 DEF B!Sees
  <2> HIDE DEF r
  <2>3. v1'[x] = r
    BY <1>1, <2>1
  <2>4. x \notin v6 /\ v1[x].lease = "held" => v1[x].device = d
    BY <1>1, <1>3 DEF B!Claimable, Agrees
  <2>5. x \notin v6 /\ v1[x].lease = "held" => B!StaysOrReturned(x)
    BY <2>2, <2>3, <2>4 DEF B!StaysOrReturned
  <2>6. Agrees(r)
    BY <1>1, <2>2 DEF Agrees
  <2>7. Writes(x, r)
    BY <2>1, <2>2, <2>5, <2>6 DEF Writes
  <2>8. QED
    BY <2>2, <2>7 DEF Written
<1>4. CASE ~B!Claimable(x, d)
  <2>1. UNCHANGED <<v1, v6>>
    BY <1>4 DEF B!ClaimBrowserTakeover
  <2>2. QED
    BY <2>1, RowStays
<1>5. QED
  BY <1>3, <1>4

(* release_browser_takeover clears controller, device and lease together. *)
LEMMA RowReleased ==
  ASSUME B!BrowserInv, NEW c \in BrowserCallers, v4[c].at = "returning",
         B!ReleaseBrowserTakeover(B!S(c), v4[c].who)
  PROVE  Written
<1> DEFINE x == B!S(c)
           y == [v1[x] EXCEPT !.controller = "bot", !.status = "active"]
           r == [y EXCEPT !.device = None, !.lease = "none"]
<1>1. x \in BrowserKeys
  BY InServiceKnown
<1>2. v1 \in [BrowserKeys -> B!Sees] /\ v1[x] \in B!Sees /\ (x \notin v6 => Agrees(v1[x]))
  BY <1>1, RowTyped
<1>3. y \in B!Sees /\ y.controller = "bot" /\ y.status = "active"
  BY <1>2 DEF B!Sees
<1>4. CASE v1[x].controller # "user" \/ v1[x].device = v4[c].who
  <2>1. v1' = [v1 EXCEPT ![x] = r] /\ v6' = v6 \ {x}
    BY <1>2, <1>4 DEF B!ReleaseBrowserTakeover
  <2> HIDE DEF y
  <2>2. r \in B!Sees /\ r.controller = "bot" /\ r.status = "active" /\ r.device = None /\ r.lease = "none"
    BY <1>3 DEF B!Sees
  <2> HIDE DEF r
  <2>3. x \notin v6 /\ v1[x].lease = "held" => v4[c].who = v1[x].device
    BY <1>2, <1>4 DEF Agrees
  <2>4. x \notin v6 /\ v1[x].lease = "held" => B!StaysOrReturned(x)
    BY <2>3 DEF B!StaysOrReturned, B!At
  <2>5. Agrees(r)
    BY <2>2 DEF Agrees
  <2>6. Writes(x, r)
    BY <2>1, <2>2, <2>4, <2>5 DEF Writes
  <2>7. QED
    BY <1>1, <2>2, <2>6 DEF Written
<1>5. CASE ~(v1[x].controller # "user" \/ v1[x].device = v4[c].who)
  <2>1. UNCHANGED <<v1, v6>>
    BY <1>5 DEF B!ReleaseBrowserTakeover
  <2>2. QED
    BY <2>1, RowStays
<1>6. QED
  BY <1>4, <1>5

(* A lost row is the Bot's, with no device. *)
LEMMA LostRow ==
  ASSUME NEW r \in B!Sees
  PROVE  /\ B!Lost(r) \in B!Sees /\ B!Lost(r).controller = "bot" /\ B!Lost(r).status = "failed"
         /\ B!Lost(r).device = None /\ B!Lost(r).lease = "none"
<1> DEFINE y == [r EXCEPT !.target = None, !.controller = "bot", !.status = "failed"]
           z == [y EXCEPT !.device = None, !.lease = "none"]
<1>1. y \in B!Sees /\ y.controller = "bot" /\ y.status = "failed"
  BY DEF B!Sees
<1>2. B!Lost(r) = z
  BY DEF B!Lost
<1> HIDE DEF y
<1>3. z \in B!Sees /\ z.controller = "bot" /\ z.status = "failed" /\ z.device = None /\ z.lease = "none"
  BY <1>1 DEF B!Sees
<1> HIDE DEF z
<1>4. QED
  BY <1>2, <1>3

(* fail_stalled_browser_session loses the row or leaves a closed one. *)
LEMMA RowFailed ==
  ASSUME B!BrowserInv, NEW x \in BrowserKeys, B!FailStalledBrowserSession(x)
  PROVE  Written
<1>1. CASE UNCHANGED <<v1, v6>>
  BY <1>1, RowStays
<1>2. CASE v1' = [v1 EXCEPT ![x] = B!Lost(v1[x])] /\ v6' = v6 \ {x}
  <2>1. PICK r \in B!Sees : /\ r = B!Lost(v1[x]) /\ r.controller = "bot" /\ r.status = "failed"
                            /\ r.device = None /\ r.lease = "none"
    BY RowTyped, LostRow
  <2>2. v1' = [v1 EXCEPT ![x] = r] /\ v1'[x] = r
    BY <1>2, <2>1, RowTyped
  <2>3. B!StaysOrReturned(x) /\ Agrees(r)
    BY <2>1, <2>2 DEF B!StaysOrReturned, Agrees
  <2>4. Writes(x, r)
    BY <1>2, <2>1, <2>2, <2>3 DEF Writes
  <2>5. QED
    BY <2>4 DEF Written
<1>3. QED
  BY <1>1, <1>2 DEF B!FailStalledBrowserSession

(* A step that writes a row in such a way and answers. *)
LEMMA AnswersKeep ==
  ASSUME B!BrowserInv, NEW c \in BrowserCallers, B!Answer(c), Written, UNCHANGED <<v2, v3, B!Same>>
  PROVE  B!BrowserInv' /\ B!LeaseKept
<1>1. UNCHANGED <<v2, v3, v5, v7>> /\ v3' \subseteq BrowserKeys
  BY InServiceKnown DEF B!Same
<1>2. QED
  BY <1>1, AnswerServes, SlotsStay, ServiceKeeps

(* The requests that end with a write of the row. *)
LEMMA RowWritesKeep ==
  ASSUME B!BrowserInv, NEW c \in BrowserCallers,
         \/ B!PendingSession(c) \/ B!Takeover(c) \/ B!AskApproval(c) \/ B!ReturnToBot(c)
         \/ B!CompleteAction(c) \/ B!FailStalledSession(c) \/ B!Close(c)
  PROVE  B!BrowserInv' /\ B!LeaseKept
<1>1. B!Answer(c) /\ UNCHANGED <<v2, v3, B!Same>>
  BY DEF B!PendingSession, B!Takeover, B!AskApproval, B!ReturnToBot, B!CompleteAction,
         B!FailStalledSession, B!Close
<1>2. B!S(c) \in BrowserKeys /\ B!Saw(c) \in B!Sees /\ B!S(c) = v4[c].session
  BY InServiceKnown
<1>3. B!Saw(c).controller \in {"bot", "user"}
  BY <1>2 DEF B!Sees
<1>4. CASE B!PendingSession(c)
  <2>1. \/ UNCHANGED <<v1, v6>>
        \/ ~B!Exists(B!S(c)) /\ B!CreateBrowserSession(B!S(c), "awaiting_approval", None) /\ v6' = v6
    BY <1>4 DEF B!PendingSession
  <2>2. Written
    BY <1>2, <2>1, RowStays, RowCreated DEF Written
  <2>3. QED
    BY <1>1, <2>2, AnswersKeep
<1>5. CASE B!Takeover(c)
  <2>1. v4[c].at = "taking" /\ B!ClaimBrowserTakeover(B!S(c), v4[c].who)
    BY <1>5 DEF B!Takeover, B!At
  <2>2. v4[c].who \in BrowserDevices
    BY <2>1, InServiceKnown DEF B!CallKnows, B!Locals
  <2>3. Written
    BY <1>2, <2>1, <2>2, RowClaimed
  <2>4. QED
    BY <1>1, <2>3, AnswersKeep
<1>6. CASE B!AskApproval(c) \/ B!CompleteAction(c)
  <2>1. \E st \in {"active", "awaiting_approval"} : B!WriteBack(c, B!Saw(c).controller, st)
    BY <1>6 DEF B!AskApproval, B!CompleteAction
  <2>2. Written
    BY <1>3, <2>1, RowWrittenBack
  <2>3. QED
    BY <1>1, <2>2, AnswersKeep
<1>7. CASE B!ReturnToBot(c)
  <2>1. Written
    BY <1>7, RowReleased DEF B!ReturnToBot, B!At
  <2>2. QED
    BY <1>1, <2>1, AnswersKeep
<1>8. CASE B!FailStalledSession(c)
  <2>1. Written
    BY <1>2, <1>8, RowFailed DEF B!FailStalledSession
  <2>2. QED
    BY <1>1, <2>1, AnswersKeep
<1>9. CASE B!Close(c)
  <2>1. B!Closes(v4[c]) /\ B!WriteBack(c, IF v4[c].who = BotCaller THEN "bot" ELSE B!Saw(c).controller, "closed")
    BY <1>9 DEF B!Close, B!At, B!Closes
  <2>2. v4[c].who = BotCaller => B!Saw(c).controller = "bot"
    BY <2>1, InServiceKnown DEF B!CallKnows
  <2>3. B!WriteBack(c, B!Saw(c).controller, "closed")
    BY <2>1, <2>2
  <2>4. Written
    BY <1>3, <2>3, RowWrittenBack
  <2>5. QED
    BY <1>1, <2>4, AnswersKeep
<1>10. QED
  BY <1>4, <1>5, <1>6, <1>7, <1>8, <1>9

(* activate_created_session, after which the Bot works with the row it wrote. *)
LEMMA ActivationKeeps ==
  ASSUME B!BrowserInv, NEW c \in BrowserCallers, B!ActivateCreatedSession(c)
  PROVE  B!BrowserInv' /\ B!LeaseKept
<1>1. UNCHANGED <<v2, v3, v5, v6, v7>> /\ v3' \subseteq BrowserKeys
  BY InServiceKnown DEF B!ActivateCreatedSession, B!Same
<1>2. /\ v4 \in [BrowserCallers -> B!Locals] /\ v4[c] \in B!Locals /\ B!S(c) \in BrowserKeys
      /\ B!S(c) = v4[c].session /\ v4[c].target \in BrowserTargets \cup {None}
  BY InServiceKnown
<1>3. CASE v1' = v1 /\ B!Answer(c)
  BY <1>1, <1>3, AnswerServes, RowStays, SlotsStay, ServiceKeeps
<1>4. CASE \/ B!ActivateBrowserSession(B!S(c), v4[c].target)
           \/ ~B!Exists(B!S(c)) /\ B!CreateBrowserSession(B!S(c), "active", v4[c].target)
  <2>1. PICK r \in B!Sees : Writes(B!S(c), r)
    BY <1>1, <1>2, <1>4, RowActivated, RowCreated
  <2>2. Written
    BY <1>2, <2>1 DEF Written
  <2>3. v1'[B!S(c)] = r
    BY <1>2, <2>1, RowTyped DEF Writes
  <2>4. CASE B!Answer(c)
    BY <1>1, <2>2, <2>4, AnswerServes, SlotsStay, ServiceKeeps
  <2>5. CASE v4' = [v4 EXCEPT ![c].at = "running", ![c].saw = v1'[B!S(c)], ![c].next = "none"]
    <3> DEFINE q == [v4[c] EXCEPT !.at = "running", !.saw = r, !.next = "none"]
    <3>1. v4' = [v4 EXCEPT ![c].at = "running", ![c].saw = r, ![c].next = "none"]
      BY <2>3, <2>5
    <3>2. v4' = [v4 EXCEPT ![c] = q]
      BY <1>2, <3>1
    <3>3. q \in B!Locals /\ q.at = "running"
      BY <1>2, BrowserNames DEF B!Locals
    <3> HIDE DEF q
    <3>4. Served(c)
      BY <3>2, <3>3 DEF B!CallKnows, B!Closes, Serves, Served
    <3>5. QED
      BY <1>1, <2>2, <3>4, SlotsStay, ServiceKeeps
  <2>6. B!Answer(c) \/ v4' = [v4 EXCEPT ![c].at = "running", ![c].saw = v1'[B!S(c)], ![c].next = "none"]
    BY DEF B!ActivateCreatedSession
  <2>7. QED
    BY <2>4, <2>5, <2>6
<1>5. QED
  BY <1>3, <1>4 DEF B!ActivateCreatedSession

(* A call arrives. *)
LEMMA BrowserArrives ==
  ASSUME B!BrowserInv, NEW c \in BrowserCallers, NEW request \in B!Requests,
         NEW who \in BrowserDevices \cup {BotCaller}, NEW s \in BrowserKeys, B!Arrive(c, request, who, s)
  PROVE  B!BrowserInv' /\ B!LeaseKept
<1> DEFINE q == [B!Idle EXCEPT !.at = request, !.who = who, !.session = s]
<1>1. /\ v4' = [v4 EXCEPT ![c] = q] /\ v7 < BrowserCalls /\ v7' = v7 + 1
      /\ who = BotCaller => request \in {"bot_act", "bot_close"}
      /\ UNCHANGED <<v1, v2, v3, v5, v6>>
  BY DEF B!Arrive, B!At, B!Rows
<1>2. B!TypeOK /\ v4 \in [BrowserCallers -> B!Locals]
  BY DEF B!BrowserInv, B!TypeOK
<1>3. q \in B!Locals /\ q.at = request /\ q.who = who
  BY IdleLocals, BrowserNames DEF B!Locals
<1> HIDE DEF q
<1>4. B!CallKnows(q)
  BY <1>1, <1>3, BrowserNames DEF B!CallKnows, B!Closes
<1>5. /\ v4' \in [BrowserCallers -> B!Locals] /\ v4'[c] = q
      /\ \A x \in BrowserCallers \ {c} : v4'[x] = v4[x]
  BY <1>1, <1>2, <1>3
<1>6. v7' \in 0..BrowserCalls
  BY <1>1, <1>2, OwnerAssumption DEF B!TypeOK
<1>7. B!TypeOK'
  BY <1>1, <1>2, <1>5, <1>6 DEF B!TypeOK
<1>8. (\A x \in BrowserCallers : B!CallKnows(v4[x]))'
  BY <1>4, <1>5 DEF B!CallKnows, B!Closes, B!BrowserInv
<1>9. /\ B!IsFiniteSet(v2)' /\ B!HolderRecorded'
      /\ (\A x \in BrowserKeys : ~B!Exists(x) => v1[x].lease = "none")'
  BY <1>1 DEF B!BrowserInv, B!HolderRecorded, B!Exists
<1>10. B!LeaseKept
  BY <1>1, HolderStays DEF B!LeaseKept
<1>11. QED
  BY <1>7, <1>8, <1>9, <1>10 DEF B!BrowserInv

(* A lease that runs out leaves controller and device. *)
LEMMA LeaseRunsOut ==
  ASSUME B!BrowserInv, NEW s \in BrowserKeys, B!LeaseExpires(s)
  PROVE  B!BrowserInv' /\ B!LeaseKept
<1> DEFINE r == [v1[s] EXCEPT !.lease = "expired"]
<1>1. v1[s].lease = "held" /\ UNCHANGED <<v2, v3, v4, v5, v6, v7>>
  BY DEF B!LeaseExpires, B!Same
<1>2. B!TypeOK /\ v1 \in [BrowserKeys -> B!Sees] /\ v1[s] \in B!Sees
  BY RowTyped DEF B!BrowserInv
<1>3. v1' = [v1 EXCEPT ![s] = r]
  BY <1>2 DEF B!LeaseExpires
<1>4. /\ r \in B!Sees /\ r.controller = v1[s].controller /\ r.device = v1[s].device
      /\ r.status = v1[s].status /\ r.lease = "expired"
  BY <1>2 DEF B!Sees
<1> HIDE DEF r
<1>5. /\ v1' \in [BrowserKeys -> B!Sees]
      /\ \A x \in BrowserKeys : /\ v1'[x].controller = v1[x].controller /\ v1'[x].device = v1[x].device
                                /\ v1'[x].status = v1[x].status
                                /\ \/ v1'[x].lease = v1[x].lease
                                   \/ v1'[x].lease = "expired" /\ v1[x].lease = "held"
  BY <1>1, <1>2, <1>3, <1>4
<1>6. B!TypeOK'
  BY <1>1, <1>2, <1>5 DEF B!TypeOK
<1>7. (\A x \in BrowserCallers : B!CallKnows(v4[x]))' /\ B!IsFiniteSet(v2)'
  BY <1>1 DEF B!BrowserInv, B!CallKnows, B!Closes
<1>8. (\A x \in BrowserKeys : ~B!Exists(x) => v1[x].lease = "none")'
  BY <1>5 DEF B!BrowserInv, B!Exists
<1>9. B!HolderRecorded'
  BY <1>1, <1>5 DEF B!BrowserInv, B!HolderRecorded
<1>10. B!LeaseKept
  BY <1>5, HolderStays DEF B!LeaseKept
<1>11. QED
  BY <1>6, <1>7, <1>8, <1>9, <1>10 DEF B!BrowserInv

(* A restart loses the open rows, all targets and all calls. *)
LEMMA BrowserRestarts == B!BrowserInv /\ B!Restart => B!BrowserInv' /\ B!LeaseKept
<1> SUFFICES ASSUME B!BrowserInv, B!Restart PROVE B!BrowserInv' /\ B!LeaseKept
  OBVIOUS
<1>1. /\ v1' = [s \in BrowserKeys |-> IF B!Interrupted(s) THEN B!Lost(v1[s]) ELSE v1[s]]
      /\ v6' = {s \in v6 : ~B!Interrupted(s)}
      /\ v2' = {} /\ v4' = [c \in BrowserCallers |-> B!Idle] /\ UNCHANGED <<v3, v5, v7>>
  BY DEF B!Restart, B!RecoverInterruptedBrowserSessions, B!Same
<1>2. B!TypeOK /\ v6 \subseteq BrowserKeys
  BY DEF B!BrowserInv, B!TypeOK
<1>3. ASSUME NEW s \in BrowserKeys
      PROVE  /\ v1'[s] \in B!Sees
             /\ \/ v1'[s] = v1[s] /\ (s \in v6' <=> s \in v6)
                \/ /\ v1'[s].controller = "bot" /\ v1'[s].status = "failed" /\ v1'[s].device = None
                   /\ v1'[s].lease = "none"
  BY <1>1, RowTyped, LostRow
<1>4. v1' \in [BrowserKeys -> B!Sees] /\ v6' \subseteq BrowserKeys
  BY <1>1, <1>2, <1>3
<1>5. IsFiniteSet(v2') /\ Cardinality(v2') = 0
  BY <1>1, FS_EmptySet
<1>6. B!IsFiniteSet(v2)' /\ B!Cardinality(v2)' <= BrowserSlots
  <2>1. B!IsFiniteSet(v2') /\ B!Cardinality(v2') <= BrowserSlots
    BY <1>5, TargetCounts, OwnerAssumption
  <2>2. QED
    BY <2>1
<1>7. v4' \in [BrowserCallers -> B!Locals] /\ \A x \in BrowserCallers : v4'[x] = B!Idle
  BY <1>1, IdleLocals
<1>8. B!TypeOK'
  BY <1>1, <1>2, <1>4, <1>6, <1>7 DEF B!TypeOK
<1>9. (\A x \in BrowserCallers : B!CallKnows(v4[x]))'
  BY <1>7, IdleLocals DEF B!CallKnows, B!Closes
<1>10. (\A x \in BrowserKeys : ~B!Exists(x) => v1[x].lease = "none")'
  BY <1>3 DEF B!BrowserInv, B!Exists
<1>11. B!HolderRecorded'
  BY <1>3 DEF B!BrowserInv, B!HolderRecorded
<1>12. B!LeaseKept
  <2> SUFFICES ASSUME NEW s \in BrowserKeys, v1[s].lease = "held", s \notin v6 PROVE B!StaysOrReturned(s)
    BY DEF B!LeaseKept
  <2>1. CASE v1'[s] = v1[s]
    BY <2>1, HolderStays
  <2>2. CASE v1'[s].status = "failed"
    BY <2>2 DEF B!StaysOrReturned
  <2>3. QED
    BY <1>3, <2>1, <2>2
<1>13. QED
  BY <1>6, <1>8, <1>9, <1>10, <1>11, <1>12 DEF B!BrowserInv

(* No browser is open at the start. *)
LEMMA BrowserInit == B!Init => B!BrowserInv
<1> SUFFICES ASSUME B!Init PROVE B!BrowserInv
  OBVIOUS
<1>1. /\ v1 = [s \in BrowserKeys |-> B!Absent] /\ v2 = {} /\ v3 = {} /\ v5 = {}
      /\ v4 = [c \in BrowserCallers |-> B!Idle] /\ v6 = {} /\ v7 = 0
  BY DEF B!Init
<1>2. IsFiniteSet(v2) /\ Cardinality(v2) = 0
  BY <1>1, FS_EmptySet
<1>3. B!IsFiniteSet(v2) /\ B!Cardinality(v2) <= BrowserSlots /\ v7 \in 0..BrowserCalls
  BY <1>1, <1>2, TargetCounts, OwnerAssumption
<1>4. B!TypeOK
  BY <1>1, <1>3, AbsentRow, IdleLocals DEF B!TypeOK
<1>5. \A x \in BrowserCallers : B!CallKnows(v4[x])
  BY <1>1, IdleLocals
<1>6. B!HolderRecorded /\ \A x \in BrowserKeys : ~B!Exists(x) => v1[x].lease = "none"
  BY <1>1, AbsentRow DEF B!HolderRecorded
<1>7. QED
  BY <1>3, <1>4, <1>5, <1>6 DEF B!BrowserInv

(* Steps that change nothing. *)
LEMMA BrowserStays == B!BrowserInv /\ UNCHANGED B!vars => B!BrowserInv' /\ B!LeaseKept
<1> SUFFICES ASSUME B!BrowserInv, UNCHANGED B!vars PROVE B!BrowserInv' /\ B!LeaseKept
  OBVIOUS
<1>1. UNCHANGED <<v1, v2, v3, v4, v5, v6, v7>>
  BY DEF B!vars
<1>2. B!TypeOK' /\ B!IsFiniteSet(v2)'
  BY <1>1 DEF B!BrowserInv, B!TypeOK
<1>3. (\A x \in BrowserCallers : B!CallKnows(v4[x]))'
  BY <1>1 DEF B!BrowserInv, B!CallKnows, B!Closes
<1>4. (\A x \in BrowserKeys : ~B!Exists(x) => v1[x].lease = "none")' /\ B!HolderRecorded'
  BY <1>1 DEF B!BrowserInv, B!Exists, B!HolderRecorded
<1>5. B!LeaseKept
  BY <1>1, HolderStays DEF B!LeaseKept
<1>6. QED
  BY <1>2, <1>3, <1>4, <1>5 DEF B!BrowserInv

(* Every step keeps the invariant of the browser and the leases. *)
LEMMA BrowserStep == B!BrowserInv /\ [B!Next]_(B!vars) => B!BrowserInv' /\ B!LeaseKept
<1> SUFFICES ASSUME B!BrowserInv, [B!Next]_(B!vars) PROVE B!BrowserInv' /\ B!LeaseKept
  OBVIOUS
<1>1. CASE UNCHANGED B!vars
  BY <1>1, BrowserStays
<1>2. ASSUME NEW c \in BrowserCallers,
             \E request \in B!Requests, who \in BrowserDevices \cup {BotCaller}, s \in BrowserKeys :
               B!Arrive(c, request, who, s)
      PROVE  B!BrowserInv' /\ B!LeaseKept
  BY <1>2, BrowserArrives
<1>3. ASSUME NEW c \in BrowserCallers, B!HandlesRequest(c) PROVE B!BrowserInv' /\ B!LeaseKept
  <2>1. CASE B!CreateClaims(c) \/ B!OpenFails(c) \/ B!OpenAsks(c)
    BY <2>1, OpeningKeeps
  <2>2. CASE \E t \in BrowserTargets : B!OpenTarget(c, t)
    BY <2>2, OpenTargetKeeps
  <2>3. CASE B!ActivateCreatedSession(c)
    BY <2>3, ActivationKeeps
  <2>4. CASE B!TakeoverReads(c) \/ B!ReturnReads(c) \/ B!ExecuteReads(c) \/ B!CloseReads(c)
    BY <2>4, DeviceReadsKeep
  <2>5. CASE \/ B!PendingSession(c) \/ B!Takeover(c) \/ B!AskApproval(c) \/ B!ReturnToBot(c)
             \/ B!CompleteAction(c) \/ B!FailStalledSession(c) \/ B!Close(c)
    BY <2>5, RowWritesKeep
  <2>6. CASE B!ExecuteRuntime(c)
    BY <2>6, RuntimeKeeps
  <2>7. CASE B!CloseTarget(c)
    BY <2>7, CloseTargetKeeps
  <2>8. CASE \/ B!CallProviderTool(c) \/ B!EnsureProviderSession(c) \/ B!AwaitCapabilityApproval(c)
             \/ B!CloseForProvider(c)
    BY <2>8, BotReadsKeep
  <2>9. QED
    BY <1>3, <2>1, <2>2, <2>3, <2>4, <2>5, <2>6, <2>7, <2>8 DEF B!HandlesRequest
<1>4. CASE \E s \in BrowserKeys : B!LeaseExpires(s)
  BY <1>4, LeaseRunsOut
<1>5. CASE B!Restart
  BY <1>5, BrowserRestarts
<1>6. QED
  BY <1>1, <1>2, <1>3, <1>4, <1>5 DEF B!Next

(* The invariant, for the behaviours of the browser. *)
BrowserInvHere == component = "browser" => B!BrowserInv

(* It holds in every behaviour. *)
LEMMA BrowserHolds == OwnerSpec => []BrowserInvHere
<1>1. OwnerInit => BrowserInvHere
  BY BrowserInit DEF OwnerInit, BrowserInvHere
<1>2. BrowserInvHere /\ [OwnerNext]_all => BrowserInvHere'
  <2> SUFFICES ASSUME BrowserInvHere, [OwnerNext]_all, component' = "browser" PROVE B!BrowserInv'
    BY DEF BrowserInvHere
  <2>1. component = "browser" /\ [B!Next]_(B!vars)
    BY DEF OwnerNext, all, B!vars
  <2>2. QED
    BY <2>1, BrowserStep DEF BrowserInvHere
<1>3. QED
  BY <1>1, <1>2, PTL DEF OwnerSpec

(* A device whose lease runs keeps its browser, however requests, tool calls, stalls  *)
(* and restarts interleave, until it returns it itself or the browser is lost; unless *)
(* a call has written back a controller it read before (complete_action).             *)
THEOREM LeaseRespectedAlways == OwnerSpec => LeaseRespected
<1>1. BrowserInvHere /\ [OwnerNext]_all => [component = "browser" => B!LeaseKept]_all
  <2> SUFFICES ASSUME BrowserInvHere, [OwnerNext]_all, component = "browser" PROVE B!LeaseKept
    OBVIOUS
  <2>1. [B!Next]_(B!vars)
    BY DEF OwnerNext, all, B!vars
  <2>2. QED
    BY <2>1, BrowserStep DEF BrowserInvHere
<1>2. QED
  BY <1>1, BrowserHolds, PTL DEF OwnerSpec, LeaseRespected

(* A browser is in a person's hands exactly while a device is recorded that can     *)
(* return it, unless a call has written back such a controller.                     *)
THEOREM HolderRecordedAlways == OwnerSpec => [](component = "browser" => B!HolderRecorded)
<1>1. BrowserInvHere => (component = "browser" => B!HolderRecorded)
  BY DEF BrowserInvHere, B!BrowserInv
<1>2. QED
  BY <1>1, BrowserHolds, PTL

-----------------------------------------------------------------------------
(* All components of the composition. *)

(* The inductive invariants that the theorems of OwnerSideProofs rest on. *)
RequestsHere ==
  /\ KeysInvHere /\ CommandInvHere /\ KeptInvHere /\ ValuesInvHere /\ DoneInvHere

LEMMA RequestsHold == OwnerSpec => []RequestsHere
<1>1. OwnerInit => RequestsHere
  BY VcsInit, DevicesInit, AttachmentsInit, SecretsInit, RecordsInit
     DEF OwnerInit, RequestsHere, KeysInvHere, CommandInvHere, KeptInvHere, ValuesInvHere, DoneInvHere
<1>2. RequestsHere /\ [OwnerNext]_all => RequestsHere'
  <2> SUFFICES ASSUME RequestsHere, [OwnerNext]_all PROVE RequestsHere'
    OBVIOUS
  <2>1. KeysInvHere'
    <3>1. component' = "workspaces" => component = "workspaces" /\ [W!Next]_W!vars
      BY DEF OwnerNext, all, W!vars
    <3>2. QED
      BY <3>1, VcsStep DEF RequestsHere, KeysInvHere
  <2>2. CommandInvHere'
    <3>1. component' = "devices" => component = "devices" /\ [D!Next]_D!vars
      BY DEF OwnerNext, all, D!vars
    <3>2. QED
      BY <3>1, DevicesStep DEF RequestsHere, CommandInvHere
  <2>3. KeptInvHere'
    <3>1. component' = "attachments" => component = "attachments" /\ [F!Next]_F!vars
      BY DEF OwnerNext, all, F!vars
    <3>2. QED
      BY <3>1, AttachmentsStep DEF RequestsHere, KeptInvHere
  <2>4. ValuesInvHere'
    <3>1. component' = "secrets" => component = "secrets" /\ [S!Next]_S!vars
      BY DEF OwnerNext, all, S!vars
    <3>2. QED
      BY <3>1, SecretsStep DEF RequestsHere, ValuesInvHere
  <2>5. DoneInvHere'
    <3>1. component' = "records" => component = "records" /\ [O!Next]_(O!vars)
      BY DEF OwnerNext, all, O!vars, O!rows
    <3>2. QED
      BY <3>1, RecordsStep DEF RequestsHere, DoneInvHere
  <2>6. QED
    BY <2>1, <2>2, <2>3, <2>4, <2>5 DEF RequestsHere
<1>3. QED
  BY <1>1, <1>2, PTL DEF OwnerSpec

(* Whichever part of the owner's side works, and however requests, devices, tools and *)
(* restarts interleave, every row, claim, queue, frame and call of it is one that the *)
(* code can hold, for every value of the constants.                                   *)
THEOREM OwnerTypesCorrect == OwnerSpec => []OwnerTypeOK
<1>1. /\ component = "plugins" /\ PluginsInvHere => P!TypeOK
      /\ component = "browser" /\ BrowserInvHere => B!TypeOK
  BY DEF PluginsInvHere, P!PluginsInv, BrowserInvHere, B!BrowserInv
<1>2. RequestsHere =>
        /\ component = "workspaces" => W!TypeOK
        /\ component = "records" => O!TypeOK
        /\ component = "devices" => D!TypeOK
        /\ component = "attachments" => F!TypeOK
        /\ component = "secrets" => S!TypeOK
  BY DEF RequestsHere, KeysInvHere, W!KeysInv, DoneInvHere, O!DoneInv, CommandInvHere, D!EndsInv,
         KeptInvHere, F!KeptInv, ValuesInvHere, S!ValuesInv
<1>3. ViewsHere =>
        /\ component = "timeline" => T!TypeOK
        /\ component = "group_view" => G!TypeOK
        /\ component = "unread" => U!TypeOK
  BY DEF ViewsHere, T!TimelineInv, G!GroupViewInv, U!RosterInv
<1>4. component = "commands" /\ CommandsInvHere => C!TypeOK
  BY CommandsTypes DEF CommandsInvHere
<1>5. component = "android" /\ AndroidInvHere => N!TypeOK
  BY DEF AndroidInvHere, N!AndroidInv
<1> DEFINE Known == component \in {"plugins", "browser", "workspaces", "records", "devices",
                     "attachments", "secrets", "timeline", "group_view", "unread", "commands",
                     "android"}
<1>6. OwnerSpec => []Known
  <2>1. OwnerInit => Known
    BY DEF OwnerInit
  <2>2. Known /\ [OwnerNext]_all => Known'
    BY DEF OwnerNext, all
  <2>3. QED
    BY <2>1, <2>2, PTL DEF OwnerSpec
<1>7. /\ Known /\ PluginsInvHere /\ BrowserInvHere /\ RequestsHere /\ ViewsHere
      /\ CommandsInvHere /\ AndroidInvHere
      => OwnerTypeOK
  BY <1>1, <1>2, <1>3, <1>4, <1>5 DEF OwnerTypeOK
<1>8. QED
  BY <1>6, <1>7, PluginsHold, BrowserHolds, RequestsHold, ViewsHold, CommandsInvHolds,
     AndroidInvHolds, PTL
=============================================================================
