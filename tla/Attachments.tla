----------------------------- MODULE Attachments -----------------------------
(***************************************************************************)
(* Attachments and generated artifacts: a file a client announces, uploads *)
(* and finalizes, and one a Bot makes (crates/homebot-server/src/          *)
(* attachments.rs and artifacts.rs, over crates/homebot-storage).          *)
(*                                                                         *)
(* Files of equal content are one object, named by its digest.  A file is  *)
(* "good" when it has the digest its row declares.                         *)
(***************************************************************************)
EXTENDS Naturals

CONSTANTS Files,      (* attachments, each announced under a key of its own   *)
          Artifacts,  (* artifacts that a turn makes, all of one content      *)
          Uploads,    (* uploads at a time                                    *)
          Finals,     (* finalizations at a time                              *)
          NoFile

VARIABLES
  row,        (* attachments.status, or "none"                                 *)
  expired,    (* rows whose expires_at_ms has passed                           *)
  partial,    (* partials/<id>: "none" or "good"; nothing else gets that name  *)
  object,     (* whether objects/<digest> is there; all files are of one digest*)
  upload,     (* the locals of each upload                                     *)
  final,      (* the locals of each finalization                               *)
  generated,  (* whether generated/<digest> is there                           *)
  making,     (* the locals of each artifact                                   *)
  artifacts,  (* rows of artifacts                                             *)
  crashed

vars == <<row, expired, partial, object, upload, final, generated, making, artifacts, crashed>>
made == <<generated, making, artifacts>>

UploadRow == [at : {"idle", "receiving", "good", "cleared"}, of : Files \cup {NoFile}]
FinalRow == [at : {"idle", "checking", "verified", "moving", "marking"}, of : Files \cup {NoFile}]

TypeOK ==
  /\ row \in [Files -> {"none", "pending", "ready"}] /\ expired \subseteq Files
  /\ partial \in [Files -> {"none", "good"}] /\ object \in BOOLEAN
  /\ upload \in [Uploads -> UploadRow] /\ final \in [Finals -> FinalRow]
  /\ generated \in BOOLEAN /\ making \in [Artifacts -> {"none", "writing", "inserting", "done"}]
  /\ artifacts \subseteq Artifacts /\ crashed \in BOOLEAN

Idle == [at |-> "idle", of |-> NoFile]

Init ==
  /\ row = [f \in Files |-> "none"] /\ expired = {}
  /\ partial = [f \in Files |-> "none"] /\ object = FALSE
  /\ upload = [u \in Uploads |-> Idle] /\ final = [c \in Finals |-> Idle]
  /\ generated = FALSE /\ making = [a \in Artifacts |-> "none"] /\ artifacts = {}
  /\ crashed = FALSE

-----------------------------------------------------------------------------
(* The row and its key in one transaction; a repeated key gets the row as it is. *)
ClaimAttachmentCreate(f) == row' = [row EXCEPT ![f] = IF @ = "none" THEN "pending" ELSE @]

CreateAttachment(f) ==
  /\ ClaimAttachmentCreate(f)
  /\ UNCHANGED <<expired, partial, object, upload, final, made, crashed>>

Expire(f) ==
  /\ row[f] # "none" /\ f \notin expired /\ expired' = expired \cup {f}
  /\ UNCHANGED <<row, partial, object, upload, final, made, crashed>>

Pending(f) == row[f] = "pending" /\ f \notin expired

(* upload_attachment: into a temporary file of its own... *)
BeginUpload(u, f) ==
  /\ upload[u] = Idle /\ Pending(f)
  /\ upload' = [upload EXCEPT ![u] = [at |-> "receiving", of |-> f]]
  /\ UNCHANGED <<row, expired, partial, object, final, made, crashed>>

(* ...which is removed again if it breaks off or is not what was announced... *)
Receive(u) ==
  /\ upload[u].at = "receiving"
  /\ upload' \in {[upload EXCEPT ![u].at = "good"], [upload EXCEPT ![u] = Idle]}
  /\ UNCHANGED <<row, expired, partial, object, final, made, crashed>>

(* ...and takes the place of an earlier one, in two steps. *)
RemovePartial(u) ==
  /\ upload[u].at = "good" /\ upload' = [upload EXCEPT ![u].at = "cleared"]
  /\ partial' = [partial EXCEPT ![upload[u].of] = "none"]
  /\ UNCHANGED <<row, expired, object, final, made, crashed>>

RenameUpload(u) ==
  /\ upload[u].at = "cleared" /\ upload' = [upload EXCEPT ![u] = Idle]
  /\ partial' = [partial EXCEPT ![upload[u].of] = "good"]
  /\ UNCHANGED <<row, expired, object, final, made, crashed>>

-----------------------------------------------------------------------------
(* finalize_attachment: a repeated key goes on like a new one. *)
Finalize(c, f) ==
  /\ final[c] = Idle /\ row[f] # "none"
  /\ IF Pending(f) THEN final' = [final EXCEPT ![c] = [at |-> "checking", of |-> f]]
     ELSE UNCHANGED final      (* ready: answered as it is; expired: refused *)
  /\ UNCHANGED <<row, expired, partial, object, upload, made, crashed>>

Fails(c) == final' = [final EXCEPT ![c] = Idle]
Goes(c, at) == final' = [final EXCEPT ![c].at = at]

(* digest_file of the partial: what another finalization has moved away was not uploaded. *)
Verify(c) ==
  /\ final[c].at = "checking"
  /\ IF partial[final[c].of] = "good" THEN Goes(c, "verified") ELSE Fails(c)
  /\ UNCHANGED <<row, expired, partial, object, upload, made, crashed>>

(* The object may be there already, of this file or of another with the same content. *)
LookForObject(c) ==
  /\ final[c].at = "verified"
  /\ IF object
     THEN partial' = [partial EXCEPT ![final[c].of] = "none"] /\ Goes(c, "marking")
     ELSE Goes(c, "moving") /\ UNCHANGED partial
  /\ UNCHANGED <<row, expired, object, upload, made, crashed>>

MoveObject(c) ==
  LET f == final[c].of
  IN /\ final[c].at = "moving"
     /\ \/ /\ partial[f] # "none" /\ object' = TRUE /\ partial' = [partial EXCEPT ![f] = "none"]
           /\ Goes(c, "marking")
        \/ Fails(c) /\ UNCHANGED <<object, partial>>
     /\ UNCHANGED <<row, expired, upload, made, crashed>>

(* mark_attachment_ready: one statement, which looks at status and expiry again. *)
MarkReady(c) ==
  /\ final[c].at = "marking" /\ Fails(c)
  /\ row' \in {row, IF Pending(final[c].of) THEN [row EXCEPT ![final[c].of] = "ready"] ELSE row}
  /\ UNCHANGED <<expired, partial, object, upload, made, crashed>>

-----------------------------------------------------------------------------
(* persist_generated_artifact: two of equal content may write it both. *)
BeginArtifact(a) ==
  /\ making[a] = "none"
  /\ making' = [making EXCEPT ![a] = IF generated THEN "inserting" ELSE "writing"]
  /\ UNCHANGED <<row, expired, partial, object, upload, final, generated, artifacts, crashed>>

WriteArtifact(a) ==
  /\ making[a] = "writing"
  /\ \/ generated' = TRUE /\ making' = [making EXCEPT ![a] = "inserting"]
     \/ making' = [making EXCEPT ![a] = "done"] /\ UNCHANGED generated
  /\ UNCHANGED <<row, expired, partial, object, upload, final, artifacts, crashed>>

(* The chat may be gone by now: then the content stays without a row. *)
InsertArtifact(a) ==
  /\ making[a] = "inserting" /\ making' = [making EXCEPT ![a] = "done"]
  /\ artifacts' \in {artifacts, artifacts \cup {a}}
  /\ UNCHANGED <<row, expired, partial, object, upload, final, generated, crashed>>

(* Temporary files are left behind, and nothing collects them. *)
Restart ==
  /\ ~crashed /\ crashed' = TRUE
  /\ upload' = [u \in Uploads |-> Idle] /\ final' = [c \in Finals |-> Idle]
  /\ making' = [a \in Artifacts |-> IF making[a] = "none" THEN "none" ELSE "done"]
  /\ UNCHANGED <<row, expired, partial, object, generated, artifacts>>

Next ==
  \/ \E f \in Files : \/ CreateAttachment(f) \/ Expire(f)
                      \/ (\E u \in Uploads : BeginUpload(u, f)) \/ (\E c \in Finals : Finalize(c, f))
  \/ \E u \in Uploads : Receive(u) \/ RemovePartial(u) \/ RenameUpload(u)
  \/ \E c \in Finals : Verify(c) \/ LookForObject(c) \/ MoveObject(c) \/ MarkReady(c)
  \/ \E a \in Artifacts : BeginArtifact(a) \/ WriteArtifact(a) \/ InsertArtifact(a)
  \/ Restart

Spec == Init /\ [][Next]_vars

-----------------------------------------------------------------------------
(* A ready attachment and a stored artifact have their content, whichever uploads and    *)
(* finalizations of equal files cross, and wherever the server dies (finalize_attachment,*)
(* complete_pending_attachment and persist_generated_artifact).                          *)
ReadyHasContent ==
  /\ \A f \in Files : row[f] = "ready" => object
  /\ artifacts # {} => generated

(* The invariant behind it: whoever is about to write a row has seen the content. *)
KeptInv ==
  /\ TypeOK /\ ReadyHasContent
  /\ \A c \in Finals : final[c].at = "marking" => object
  /\ \A a \in Artifacts : making[a] = "inserting" => generated
===============================================================================
