----------------------------- MODULE EventFeed -----------------------------
(***************************************************************************)
(* What the event stream promises one client, without sockets, queues,     *)
(* cursors and retention: the owner's events form one growing sequence,    *)
(* and each part of the client's picture shows exactly a prefix of it,     *)
(* which grows by the next event or jumps forward with a snapshot.  A part *)
(* that a snapshot could not read is blank, and promises nothing until     *)
(* another snapshot.                                                       *)
(***************************************************************************)
EXTENDS Naturals

CONSTANT Parts     (* parts of a picture *)

VARIABLES latest,  (* number of events there are                  *)
          shown,   (* events that each part of the picture shows  *)
          blank    (* parts that the last snapshot could not read *)

feed_vars == <<latest, shown, blank>>

FeedInit ==
  /\ latest = 0
  /\ shown = [p \in 1 .. Parts |-> {}]
  /\ blank = {}

Happen == latest' = latest + 1 /\ UNCHANGED <<shown, blank>>

(* The next event joins every part; parts that are ahead of it show it already. *)
Learn ==
  /\ \E e \in 1 .. latest :
       /\ \A p \in (1 .. Parts) \ blank : 1 .. (e - 1) \subseteq shown[p]
       /\ shown' = [p \in 1 .. Parts |-> shown[p] \cup {e}]
  /\ UNCHANGED <<latest, blank>>

(* A snapshot never takes a part that it could read back behind what it showed. *)
Jump ==
  /\ blank' \subseteq 1 .. Parts
  /\ \E e \in [1 .. Parts -> 0 .. latest] :
       /\ shown' = [p \in 1 .. Parts |-> IF p \in blank' THEN {} ELSE 1 .. e[p]]
       /\ \A p \in (1 .. Parts) \ blank' : shown[p] \subseteq shown'[p]
  /\ UNCHANGED latest

FeedNext == Happen \/ Learn \/ Jump

FeedSpec == FeedInit /\ [][FeedNext]_feed_vars
=============================================================================
