------------------------------- MODULE Unread -------------------------------
(***************************************************************************)
(* The direct chat of one Bot as the clients see it without opening it:    *)
(* the unread counts of the chat and of the Bot, and the reactions of its  *)
(* message.  Each handler writes, reads the rows back and publishes what   *)
(* it read, in transactions of their own (chats.rs create_direct,          *)
(* mark_read, set_reaction; bots.rs mark_read; provider_turn.rs finish).   *)
(***************************************************************************)
EXTENDS Naturals, Sequences

CONSTANTS Handlers,
          Keys, NoKey,  \* idempotency keys; a turn has none
          NoChat,       \* the count of a chat that does not exist
          MaxUnread     \* bound on the responses that are counted

VARIABLES rows,     \* the counts of the chat and of the Bot, and whether the
                    \* message has the reaction
          shown,    \* what the last event said of each of them
          handler,  \* what each handler does, and the rows it has still to publish
          seen,     \* the row it has read and not yet published
          claims,   \* idempotency_keys: key and mutation
          late,     \* history: handlers whose row was changed since they read it
          behind    \* history: rows whose last event was late, or that a handler was
                    \* cut off before it told of

vars == <<rows, shown, handler, seen, claims, late, behind>>

Parts == {"chat", "bot", "reaction"}
Counts == 0..MaxUnread
RowSets == [chat : Counts \cup {NoChat}, bot : Counts, reaction : BOOLEAN]
Ops == {"open", "finish", "read_chat", "read_bot", "react", "unreact"}
HandlerRows == [at : {"idle", "write", "read", "publish"}, op : Ops, key : Keys \cup {NoKey},
                replayed : BOOLEAN, left : Seq(Parts)]
Idle == [at |-> "idle", op |-> "open", key |-> NoKey, replayed |-> FALSE, left |-> <<>>]
Start == [chat |-> NoChat, bot |-> 0, reaction |-> FALSE]

TypeOK ==
  /\ rows \in RowSets /\ shown \in RowSets
  /\ handler \in [Handlers -> HandlerRows] /\ seen \in [Handlers -> RowSets]
  /\ claims \subseteq Keys \X Ops
  /\ late \subseteq Handlers /\ behind \subseteq Parts

Init ==
  /\ rows = Start /\ shown = Start
  /\ handler = [h \in Handlers |-> Idle] /\ seen = [h \in Handlers |-> Start]
  /\ claims = {} /\ late = {} /\ behind = {}

Exists == rows.chat # NoChat

\* What a mutation publishes, in this order.
Publishes(op) ==
  CASE op = "open"                -> <<"chat">>
    [] op = "finish"              -> <<"reaction", "chat", "bot">>
    [] op = "read_chat"           -> <<"chat", "bot">>
    [] op = "read_bot"            -> <<"bot">>
    [] op \in {"react", "unreact"} -> <<"reaction">>

\* A key that was claimed for another mutation is refused.
Claim(h, op, key) ==
  /\ handler[h] = Idle /\ (op \in {"open", "read_bot"} \/ Exists)
  /\ \A c \in claims : c[1] = key => c[2] = op
  /\ claims' = claims \cup {<<key, op>>}
  /\ handler' = [handler EXCEPT ![h] = [at |-> "write", op |-> op, key |-> key,
                   replayed |-> <<key, op>> \in claims, left |-> Publishes(op)]]
  /\ UNCHANGED <<rows, shown, seen, late, behind>>

\* A turn has come to its end; one that is stopped is not counted.
FinishBegins(h) ==
  /\ handler[h] = Idle /\ Exists
  /\ handler' = [handler EXCEPT ![h] = [at |-> "write", op |-> "finish", key |-> NoKey,
                   replayed |-> FALSE, left |-> Publishes("finish")]]
  /\ UNCHANGED <<rows, shown, seen, claims, late, behind>>

-----------------------------------------------------------------------------
(* The writes.                                                             *)

\* h goes on to publish, unless it has nothing to tell.
Wrote(h, op, tells) ==
  /\ handler[h].at = "write" /\ handler[h].op = op
  /\ handler' = [handler EXCEPT ![h] = IF tells THEN [@ EXCEPT !.at = "read"] ELSE Idle]
  /\ UNCHANGED <<shown, seen, claims, behind>>

Store(new) ==
  /\ rows' = new
  /\ late' = late \cup {g \in Handlers : /\ handler[g].at = "publish"
                                       /\ LET part == Head(handler[g].left)
                                          IN  new[part] # rows[part]}

\* Get or create: a repeat does it again and does not publish.
CreateDirectChat(h) ==
  /\ Wrote(h, "open", ~handler[h].replayed)
  /\ Store(IF Exists THEN rows ELSE [rows EXCEPT !.chat = 0])

\* Chat and Bot in one transaction.
IncrementChatUnread(h) ==
  /\ Wrote(h, "finish", TRUE)
  /\ rows.chat < MaxUnread /\ rows.bot < MaxUnread
  /\ Store([rows EXCEPT !.chat = @ + 1, !.bot = @ + 1])

\* Faulty variant: a repeat marks the chat again, and is not told of.
MarkChatReadAgain(h) ==
  /\ Wrote(h, "read_chat", rows.chat # 0 /\ ~handler[h].replayed)
  /\ Store([rows EXCEPT !.chat = 0, !.bot = 0])

\* The Bot is marked with its chat, and only if the chat had something unread.
MarkChatRead(h) ==
  LET changed == rows.chat # 0 /\ ~handler[h].replayed
  IN  /\ Wrote(h, "read_chat", changed)
      /\ Store(IF changed THEN [rows EXCEPT !.chat = 0, !.bot = 0] ELSE rows)

\* The chat keeps its count.  A repeat marks and publishes again.
MarkBotRead(h) ==
  /\ Wrote(h, "read_bot", TRUE)
  /\ Store([rows EXCEPT !.bot = 0])

SetMessageReaction(h) ==
  \E op \in {"react", "unreact"} :
     /\ Wrote(h, op, ~handler[h].replayed)
     /\ Store(IF handler[h].replayed THEN rows ELSE [rows EXCEPT !.reaction = op = "react"])

-----------------------------------------------------------------------------
(* The events.                                                             *)

Look(h) ==
  /\ handler[h].at = "read"
  /\ LET part == Head(handler[h].left)
     IN  seen' = [seen EXCEPT ![h][part] = rows[part]]
  /\ handler' = [handler EXCEPT ![h].at = "publish"]
  /\ UNCHANGED <<rows, shown, claims, late, behind>>

Publish(h) ==
  LET part == Head(handler[h].left)
      left == Tail(handler[h].left)
  IN  /\ handler[h].at = "publish"
      /\ shown' = [shown EXCEPT ![part] = seen[h][part]]
      /\ seen' = [seen EXCEPT ![h] = Start]
      /\ handler' = [handler EXCEPT ![h] = IF left = <<>> THEN Idle
                       ELSE [@ EXCEPT !.at = "read", !.left = left]]
      /\ behind' = IF h \in late THEN behind \cup {part} ELSE behind \ {part}
      /\ late' = late \ {h}
      /\ UNCHANGED <<rows, claims>>

\* What a handler has yet to tell: what it wrote, and the chat that its claim keeps
\* every repeat from telling of.
Untold(h) ==
  {part \in Parts : /\ \E i \in DOMAIN handler[h].left : handler[h].left[i] = part
                    /\ handler[h].at = "write" => handler[h].op = "open" /\ ~handler[h].replayed}

\* A fault or the end of the process cuts a handler off between two transactions.
CutOff(h) ==
  /\ handler[h] # Idle
  /\ handler' = [handler EXCEPT ![h] = Idle]
  /\ seen' = [seen EXCEPT ![h] = Start]
  /\ behind' = behind \cup Untold(h)
  /\ late' = late \ {h}
  /\ UNCHANGED <<rows, shown, claims>>

Next ==
  \E h \in Handlers :
     \/ \E op \in Ops \ {"finish"}, key \in Keys : Claim(h, op, key)
     \/ FinishBegins(h)
     \/ CreateDirectChat(h) \/ IncrementChatUnread(h) \/ MarkChatRead(h)
     \/ MarkBotRead(h) \/ SetMessageReaction(h)
     \/ Look(h) \/ Publish(h) \/ CutOff(h)

Spec == Init /\ [][Next]_vars

-----------------------------------------------------------------------------
(* However handlers cross and repeat each other: once they are through,    *)
(* the clients were last told of each row what it is.  Two things excuse   *)
(* it, for the row alone and until it is told of again: another handler    *)
(* changed it between the read behind its last event and that event, or a  *)
(* handler was cut off before it told (chats.rs, bots.rs, provider_turn.rs *)
(* finish: write, read back and publish are transactions of their own).    *)
LastEventTells ==
  (\A h \in Handlers : handler[h] = Idle) =>
     \A part \in Parts \ behind : shown[part] = rows[part]

(* What keeps it.  A read that nobody has made late is of the row as it is, and of     *)
(* every other change somebody has yet to tell.                                        *)
Tells(h, part) ==
  /\ part \in Untold(h)
  /\ ~(handler[h].at = "publish" /\ part = Head(handler[h].left) /\ h \in late)

ReadsHold ==
  \A h \in Handlers : handler[h].at = "publish" =>
     h \in late \/ seen[h][Head(handler[h].left)] = rows[Head(handler[h].left)]

ChangesAreTold ==
  \A part \in Parts \ behind : shown[part] = rows[part] \/ \E h \in Handlers : Tells(h, part)

\* Only handlers of a chat that exists tell of it, and as long as it does not, whoever
\* holds the first claim on its creation is still to create it.
ChatsAreCreated ==
  /\ \A h \in Handlers :
        /\ handler[h].at \notin {"idle", "write"} /\ "chat" \in Untold(h) => Exists
        /\ handler[h].at = "write" /\ handler[h].op \notin {"open", "read_bot"} => Exists
        /\ handler[h].at = "write" /\ handler[h].op = "open" => \E c \in claims : c[2] = "open"
  /\ \A c \in claims : c[2] = "open" =>
        \/ Exists \/ "chat" \in behind
        \/ \E h \in Handlers : /\ handler[h].at = "write" /\ handler[h].op = "open"
                                /\ ~handler[h].replayed

Handling ==
  /\ late \subseteq {h \in Handlers : handler[h].at = "publish"}
  /\ \A h \in Handlers :
        IF handler[h].at = "idle" THEN handler[h] = Idle
        ELSE /\ handler[h].left # <<>>
             /\ handler[h].at = "write" => handler[h].left = Publishes(handler[h].op)

RosterInv == TypeOK /\ Handling /\ ReadsHold /\ ChangesAreTold /\ ChatsAreCreated
=============================================================================
