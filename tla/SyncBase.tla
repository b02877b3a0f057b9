------------------------------ MODULE SyncBase ------------------------------
(* What the central and the desktop half of the ledger synchronisation have  *)
(* in common: the entities that travel, the operations a device sends and    *)
(* the verdicts the centre stores.                                           *)
EXTENDS Integers, Sequences, FiniteSets

CONSTANTS
  Devices,       \* linked_devices
  Entities,      \* the rows of the seven synchronised tables, by (table, id)
  SoftEntities,  \* those of a table whose EntitySpec has softDelete: true
  Parent,        \* Parent[e]: the row e's EntitySpec.dependency column names
  Scope,         \* Scope[d]: the rows in the branches device d may write
  Contents,      \* business columns of a row, as far as two rows differ
  Deleted,       \* the content of a row whose deleted_at is set
  MaxSeq,        \* bound: operations one device issues
  NoDevice, NoEntity, NoContent, NoRow, NoResult, NoConflict

ASSUME BaseAssumption ==
  /\ SoftEntities \subseteq Entities
  /\ NoEntity \notin Entities /\ NoDevice \notin Devices
  /\ Parent \in [Entities -> Entities \cup {NoEntity}]
  /\ Scope \in [Devices -> SUBSET Entities]
  /\ Deleted \in Contents /\ NoContent \notin Contents
  /\ MaxSeq \in Nat

Sources == Devices \cup {NoDevice}

(* Print documents, rows no other row is attached to, are the only ones a    *)
(* screen deletes for good.                                                  *)
ErasableOnScreen(e) == e \notin SoftEntities /\ Parent[e] = NoEntity

(* Only the tables with a soft delete have a deleted_at column.              *)
ContentsOf(e) == IF e \in SoftEntities THEN Contents ELSE Contents \ {Deleted}

Alive(table, e) == table[e] # NoRow /\ table[e].content # Deleted

(* What the ledger screens of a node may make of a row: rows of the hard     *)
(* tables are only inserted, a deleted row and the rows of a deleted session *)
(* are left alone, and a session goes when its rows are gone (cancelSession  *)
(* moves them away first).                                                   *)
ScreenMayWrite(table, e, content) ==
  /\ Parent[e] # NoEntity => Alive(table, Parent[e])
  /\ IF table[e] = NoRow THEN content # Deleted ELSE e \in SoftEntities /\ Alive(table, e)
  /\ content = Deleted => \A c \in Entities : Parent[c] = e => ~Alive(table, c)

(* A row of a synchronised table: sync_version, sync_origin_device_id and    *)
(* sync_last_device_sequence (null is 0: sequences start at 1).              *)
Row == [content: Contents, version: Nat, origin: Sources, lastSeq: Nat]

(* operation_id is unique and so is (device_id, device_sequence): the pair   *)
(* stands for both.                                                          *)
OpIds == Devices \X (1 .. MaxSeq)

(* PushOperation; requestHash is the hash of the payload and stands for it.  *)
Operation == [device: Devices, seq: 1 .. MaxSeq, entity: Entities,
              type: {"UPSERT", "DELETE"}, payload: Contents, base: Nat]

IdOf(op) == <<op.device, op.seq>>

Verdicts == {"ACCEPTED", "PERMISSION_REJECTED", "DEPENDENCY_PENDING",
             "CONFLICT", "CENTRAL_PROCESSING_FAILED"}

Result == [status: Verdicts, entity: Entities, hash: Contents, version: Nat,
           content: Contents \cup {NoContent}]

Conflict == [status: {"OPEN", "RESOLVED"}, entity: Entities,
             content: Contents, version: Nat]

FeedEntry == [entity: Entities, version: Nat, content: Contents \cup {NoContent},
              source: Sources, tombstone: BOOLEAN]

ASSUME SentinelAssumption ==
  NoRow \notin Row /\ NoResult \notin Result /\ NoConflict \notin Conflict

=============================================================================
