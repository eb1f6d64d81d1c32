------------------------------ MODULE SigningKeys ------------------------------
(***************************************************************************)
(* The registry of keys that sign Evidence and audit events                *)
(* (server/app/services/signing_key_service.py), and verification by it.   *)
(*                                                                         *)
(* A process starts with one key and its identifier configured, and puts   *)
(* them into the table signing_keys before it serves.  A rotation is a     *)
(* start with another configuration; during a deploy old and new processes *)
(* run, and start, side by side.                                           *)
(***************************************************************************)
EXTENDS Naturals, FiniteSets

CONSTANTS
  Process,   \* server processes
  KeyId,     \* EVIDENCE_SIGNING_KEY_ID
  Key,       \* EVIDENCE_SIGNING_KEY_B64; its public half stands for both
  Configs,   \* the configurations operators start processes with
  Record,    \* signed records, a bound on their number
  Absent     \* no row, no key

ASSUME KeyAssumption ==
  /\ Configs \subseteq [id : KeyId, key : Key]
  /\ Absent \notin Key \cup KeyId

VARIABLES
  registry,  \* signing_keys.public_key_b64 of each key id; Absent: no such row
  retired,   \* the rows with retired_at set
  process,   \* each process: where its start has come to, and its configuration
  record,    \* key_id and signing key of each record; Absent: not made yet
  parted,    \* history: records of processes whose key the registry did not have
  raced      \* history: two registrations overlapped

keysVars == <<registry, retired, process, record, parted, raced>>

-----------------------------------------------------------------------------
(* State *)

Config == [id : KeyId, key : Key]

Registered == { i \in KeyId : registry[i] # Absent }

(* SigningKey.retired_at is None *)
Active == Registered \ retired

(* found: the rows it has set retired_at of, uncommitted.  stale: another  *)
(* registration has committed since this one looked its key id up.         *)
Down == [step |-> "down", config |-> Absent, found |-> {}, stale |-> FALSE]

Processes == [step : {"starting", "missing", "retiring", "up"}, config : Config,
              found : SUBSET KeyId, stale : BOOLEAN]

KeysInit ==
  /\ registry = [i \in KeyId |-> Absent]
  /\ retired = {}
  /\ process = [p \in Process |-> Down]
  /\ record = [r \in Record |-> Absent]
  /\ parted = {}
  /\ raced = FALSE

Stands(p, step) == process[p].step = step

Becomes(p, x) == process' = [process EXCEPT ![p] = x]

Serves(p) == Becomes(p, [process[p] EXCEPT !.step = "up", !.found = {}, !.stale = FALSE])

-----------------------------------------------------------------------------
(* Starting *)

(* In production a process without a key refuses to start.                 *)
Boot(p) ==
  /\ Stands(p, "down")
  /\ \E c \in Configs : Becomes(p, [Down EXCEPT !.step = "starting", !.config = c])
  /\ UNCHANGED <<registry, retired, record, parted, raced>>

(* ensure_current_key_registered: a key id that has its row is left alone, *)
(* also one whose row holds another key (signing_key_mismatch).            *)
LookUp(p) ==
  /\ Stands(p, "starting")
  /\ IF registry[process[p].config.id] # Absent
       THEN Serves(p)
       ELSE Becomes(p, [process[p] EXCEPT !.step = "missing"])
  /\ UNCHANGED <<registry, retired, record, parted, raced>>

(* The UPDATE that retires what is active sees the rows committed before.  *)
RetireActive(p) ==
  /\ Stands(p, "missing")
  /\ Becomes(p, [process[p] EXCEPT !.step = "retiring", !.found = Active])
  /\ UNCHANGED <<registry, retired, record, parted, raced>>

(* Every other start that has come to its look-up is now stale.            *)
Commits(p) ==
  process' = [q \in Process |->
                IF q = p THEN [process[p] EXCEPT !.step = "up", !.found = {}, !.stale = FALSE]
                ELSE IF process[q].step \in {"missing", "retiring"}
                  THEN [process[q] EXCEPT !.stale = TRUE]
                ELSE process[q]]

(* Only the new row; nothing is retired.                                   *)
RegisterOnly(p) ==
  LET c == process[p].config
  IN  /\ Stands(p, "retiring")
      /\ \/ /\ registry[c.id] = Absent
            /\ registry' = [registry EXCEPT ![c.id] = c.key]
            /\ raced' = (raced \/ process[p].stale)
            /\ Commits(p)
         \/ /\ registry[c.id] # Absent
            /\ Serves(p)
            /\ UNCHANGED <<registry, raced>>
      /\ UNCHANGED <<retired, record, parted>>

(* The INSERT and the commit.  If another process has inserted the same    *)
(* key id, the primary key refuses the row and all is rolled back.         *)
Register(p) ==
  LET c == process[p].config
  IN  /\ Stands(p, "retiring")
      /\ \/ /\ registry[c.id] = Absent
            /\ registry' = [registry EXCEPT ![c.id] = c.key]
            /\ retired' = retired \cup process[p].found
            /\ raced' = (raced \/ process[p].stale)
            /\ Commits(p)
         \/ /\ registry[c.id] # Absent
            /\ Serves(p)
            /\ UNCHANGED <<registry, retired, raced>>
      /\ UNCHANGED <<record, parted>>

(* The database does not answer: logged, and the process serves all the    *)
(* same (_register_current_signing_key).                                   *)
RegistrationFails(p) ==
  /\ process[p].step \in {"starting", "missing", "retiring"}
  /\ Serves(p)
  /\ UNCHANGED <<registry, retired, record, parted, raced>>

Stop(p) ==
  /\ ~Stands(p, "down")
  /\ Becomes(p, Down)
  /\ UNCHANGED <<registry, retired, record, parted, raced>>

-----------------------------------------------------------------------------
(* Signing and verifying *)

(* append_evidence and _append_audit_event sign with the configured key    *)
(* and write its identifier beside the signature.                          *)
Sign(p, r) ==
  LET c == process[p].config
  IN  /\ Stands(p, "up")
      /\ record[r] = Absent
      /\ record' = [record EXCEPT ![r] = c]
      /\ parted' = IF registry[c.id] = c.key THEN parted ELSE parted \cup {r}
      /\ UNCHANGED <<registry, retired, process, raced>>

(* The configured key, whoever signed.                                     *)
PublicKeyCurrent(p, id) == process[p].config.key

(* get_public_key_for_key_id, or the configured key without a row.         *)
PublicKey(p, id) == IF registry[id] # Absent THEN registry[id] ELSE process[p].config.key

(* verify_evidence, verify_audit_event: an Ed25519 signature is valid      *)
(* under the public half of the key that made it, and no other.            *)
Verifies(p, r) == PublicKey(p, record[r].id) = record[r].key

KeysNext ==
  \E p \in Process :
    \/ Boot(p) \/ LookUp(p) \/ RetireActive(p) \/ Register(p) \/ RegistrationFails(p)
    \/ Stop(p)
    \/ \E r \in Record : Sign(p, r)

KeysSpec == KeysInit /\ [][KeysNext]_keysVars

-----------------------------------------------------------------------------
(* Properties *)

(* Type correctness.                                                       *)
KeysTypeOK ==
  /\ registry \in [KeyId -> Key \cup {Absent}]
  /\ retired \subseteq KeyId
  /\ process \in [Process -> Processes \cup {Down}]
  /\ record \in [Record -> Config \cup {Absent}]
  /\ parted \subseteq Record
  /\ raced \in BOOLEAN

(* A record signed under a registered key verifies in every process, what- *)
(* ever is configured there, through any rotations, roll-backs, failed and *)
(* overlapping registrations, and reuse of a key id; and one signed under  *)
(* a key that its row contradicts verifies in none (rows are only ever     *)
(* added, verify_evidence asks the registry first).                        *)
StaysVerifiable ==
  \A p \in Process, r \in Record :
    Stands(p, "up") /\ record[r] # Absent =>
      /\ r \notin parted => Verifies(p, r)
      /\ record[r].id \in Registered /\ registry[record[r].id] # record[r].key => ~Verifies(p, r)

(* Once a key is registered one is active, and only one unless two         *)
(* registrations overlapped: the UPDATE of one does not see the row the    *)
(* other inserts.                                                          *)
OneActiveKey ==
  /\ Registered # {} => Active # {}
  /\ ~raced => Cardinality(Active) <= 1
=============================================================================
