----------------------------- MODULE StartupProofs -----------------------------
(***************************************************************************)
(* Proofs about the two tables that a process finds, or fills, as it       *)
(* starts (main.lifespan): the signing keys and the organization with its  *)
(* owner; for any processes, configurations, keys, boots, requests, users  *)
(* and settings.                                                           *)
(*                                                                         *)
(* SigningKeys.  A record that parted does not list was signed under a key *)
(* its row held, and a row, once there, never changes (RowInv).  One       *)
(* active key follows from what a registration has found to retire: all    *)
(* that is active, as long as no other has committed since (KeyInv).       *)
(*                                                                         *)
(* Console.  What a boot or request has loaded stays there, and settings   *)
(* that are not stale are those of now (TypeInv).  As long as no first     *)
(* boots have overlapped, a boot that would make a second organization is  *)
(* stale, so that there is one, all users are of it, and an address that   *)
(* the index lets in is nobody else's (OwnerInv).                          *)
(***************************************************************************)
EXTENDS SigningKeys, Console, FiniteSetTheorems, TLAPS

-----------------------------------------------------------------------------
(* The signing keys *)

RowInv ==
  \A r \in Record :
    record[r] # Absent /\ r \notin parted => registry[record[r].id] = record[r].key

KeyInv ==
  /\ retired \subseteq Registered
  /\ \A p \in Process :
       /\ process[p].found \subseteq Registered
       /\ Stands(p, "retiring") /\ ~process[p].stale => process[p].found = Active
  /\ Registered # {} => Active # {}
  /\ ~raced => \A x, y \in Active : x = y

-----------------------------------------------------------------------------

LEMMA ProcessesType ==
  /\ \A c \in Configs : [Down EXCEPT !.step = "starting", !.config = c] \in Processes
  /\ \A x \in Processes :
       /\ [x EXCEPT !.step = "up", !.found = {}, !.stale = FALSE] \in Processes
       /\ [x EXCEPT !.step = "missing"] \in Processes
       /\ [x EXCEPT !.step = "retiring", !.found = Active] \in Processes
       /\ [x EXCEPT !.stale = TRUE] \in Processes
<1>1. ASSUME NEW c \in Configs
      PROVE  [Down EXCEPT !.step = "starting", !.config = c] \in Processes
  BY KeyAssumption DEF Processes, Config, Down
<1>2. ASSUME NEW x \in Processes
      PROVE  [x EXCEPT !.step = "up", !.found = {}, !.stale = FALSE] \in Processes
  BY DEF Processes
<1>3. ASSUME NEW x \in Processes PROVE [x EXCEPT !.step = "missing"] \in Processes
  BY DEF Processes
<1>4. ASSUME NEW x \in Processes
      PROVE  [x EXCEPT !.step = "retiring", !.found = Active] \in Processes
  BY DEF Processes, Active, Registered
<1>5. ASSUME NEW x \in Processes PROVE [x EXCEPT !.stale = TRUE] \in Processes
  BY DEF Processes
<1>6. QED  BY <1>1, <1>2, <1>3, <1>4, <1>5

(* Type correctness.                                                       *)
THEOREM KeysTypeCorrect == KeysSpec => []KeysTypeOK
<1> USE KeyAssumption DEF KeysTypeOK
<1>1. KeysInit => KeysTypeOK
  BY DEF KeysInit
<1>2. KeysTypeOK /\ [KeysNext]_keysVars => KeysTypeOK'
  <2> SUFFICES ASSUME KeysTypeOK, [KeysNext]_keysVars PROVE KeysTypeOK'
    OBVIOUS
  <2>1. ASSUME NEW p \in Process, ~Stands(p, "down") PROVE process[p] \in Processes
    BY <2>1 DEF Stands, Down
  <2>2. ASSUME NEW p \in Process, Boot(p) PROVE KeysTypeOK'
    BY <2>2, ProcessesType DEF Boot, Becomes
  <2>3. ASSUME NEW p \in Process, LookUp(p) PROVE KeysTypeOK'
    BY <2>1, <2>3, ProcessesType DEF LookUp, Becomes, Serves, Stands
  <2>4. ASSUME NEW p \in Process, RetireActive(p) PROVE KeysTypeOK'
    BY <2>1, <2>4, ProcessesType DEF RetireActive, Becomes, Stands
  <2>5. ASSUME NEW p \in Process, Register(p) PROVE KeysTypeOK'
    <3>1. process[p] \in Processes
      BY <2>1, <2>5 DEF Register, Stands
    <3>2. /\ process[p].config \in Config
          /\ process[p].found \subseteq KeyId
      BY <3>1 DEF Processes
    <3>3. ASSUME Commits(p) PROVE process' \in [Process -> Processes \cup {Down}]
      <4>1. ASSUME NEW q \in Process, process[q].step \in {"missing", "retiring"}
            PROVE  process[q] \in Processes
        BY <2>1, <4>1 DEF Stands
      <4>2. QED  BY <3>1, <3>3, <4>1, ProcessesType DEF Commits
    <3>4. registry' \in [KeyId -> Key \cup {Absent}] /\ retired' \subseteq KeyId
      BY <2>5, <3>2 DEF Register, Config
    <3>5. process' \in [Process -> Processes \cup {Down}]
      BY <2>5, <3>1, <3>3, ProcessesType DEF Register, Serves, Becomes
    <3>6. QED  BY <2>5, <3>4, <3>5 DEF Register, Processes
  <2>6. ASSUME NEW p \in Process, RegistrationFails(p) PROVE KeysTypeOK'
    BY <2>1, <2>6, ProcessesType DEF RegistrationFails, Becomes, Serves, Stands
  <2>7. ASSUME NEW p \in Process, Stop(p) PROVE KeysTypeOK'
    BY <2>7 DEF Stop, Becomes
  <2>8. ASSUME NEW p \in Process, NEW r \in Record, Sign(p, r) PROVE KeysTypeOK'
    <3>1. process[p].config \in Config
      BY <2>1, <2>8 DEF Sign, Stands, Processes
    <3>2. QED  BY <2>8, <3>1 DEF Sign
  <2>9. CASE UNCHANGED keysVars
    BY <2>9 DEF keysVars
  <2>10. QED  BY <2>2, <2>3, <2>4, <2>5, <2>6, <2>7, <2>8, <2>9 DEF KeysNext
<1>3. QED  BY <1>1, <1>2, PTL DEF KeysSpec

(* A row of the registry is never changed or taken away.                   *)
LEMMA RowsStay ==
  ASSUME KeysTypeOK, [KeysNext]_keysVars, NEW i \in Registered
  PROVE  registry'[i] = registry[i] /\ i \in Registered'
<1>1. registry'[i] = registry[i]
  <2>1. CASE UNCHANGED registry
    BY <2>1
  <2>2. ASSUME NEW p \in Process, Register(p) PROVE registry'[i] = registry[i]
    BY <2>2 DEF Register, KeysTypeOK, Registered
  <2>3. QED
    BY <2>1, <2>2 DEF KeysNext, keysVars, Boot, LookUp, RetireActive, RegistrationFails, Stop, Sign
<1>2. QED  BY <1>1 DEF Registered

-----------------------------------------------------------------------------

LEMMA RowInvariant == KeysSpec => []RowInv
<1>1. KeysInit => RowInv
  BY DEF KeysInit, RowInv
<1>2. KeysTypeOK /\ RowInv /\ [KeysNext]_keysVars => RowInv'
  <2> SUFFICES ASSUME KeysTypeOK, RowInv, [KeysNext]_keysVars, NEW r \in Record,
                      record'[r] # Absent, r \notin parted'
               PROVE  registry'[record'[r].id] = record'[r].key
    BY DEF RowInv
  <2>1. CASE record'[r] = record[r] /\ r \notin parted
    <3>1. record[r] \in Config /\ registry[record[r].id] = record[r].key
      BY <2>1 DEF RowInv, KeysTypeOK
    <3>2. record[r].id \in Registered
      BY <3>1, KeyAssumption DEF Config, Registered
    <3>3. QED  BY <2>1, <3>1, <3>2, RowsStay
  <2>2. ASSUME NEW p \in Process, NEW x \in Record, Sign(p, x)
        PROVE  registry'[record'[r].id] = record'[r].key
    <3>1. CASE x # r
      BY <2>1, <2>2, <3>1 DEF Sign, KeysTypeOK
    <3>2. CASE x = r
      BY <2>2, <3>2 DEF Sign, KeysTypeOK
    <3>3. QED  BY <3>1, <3>2
  <2>3. QED
    BY <2>1, <2>2 DEF KeysNext, keysVars, Boot, LookUp, RetireActive, Register, RegistrationFails, Stop
<1>3. QED  BY <1>1, <1>2, KeysTypeCorrect, PTL DEF KeysSpec

(* What was signed under a registered key verifies for good, in every      *)
(* process (verify_evidence, get_public_key_for_key_id).                   *)
THEOREM RecordsVerify == KeysSpec => []StaysVerifiable
<1>1. KeysTypeOK /\ RowInv => StaysVerifiable
  <2> SUFFICES ASSUME KeysTypeOK, RowInv, NEW p \in Process, NEW r \in Record, record[r] # Absent
               PROVE  /\ r \notin parted => Verifies(p, r)
                      /\ record[r].id \in Registered /\ registry[record[r].id] # record[r].key
                           => ~Verifies(p, r)
    BY DEF StaysVerifiable
  <2>1. record[r] \in Config
    BY DEF KeysTypeOK
  <2>2. record[r].key # Absent
    BY <2>1, KeyAssumption DEF Config
  <2>3. QED  BY <2>1, <2>2 DEF RowInv, Verifies, PublicKey, Registered
<1>2. QED  BY <1>1, KeysTypeCorrect, RowInvariant, PTL

-----------------------------------------------------------------------------

LEMMA KeyInvariant == KeysSpec => []KeyInv
<1>1. KeysInit => KeyInv
  BY DEF KeysInit, KeyInv, Down, Registered, Active, Stands
<1>2. KeysTypeOK /\ KeyInv /\ [KeysNext]_keysVars => KeyInv'
  <2> SUFFICES ASSUME KeysTypeOK, KeyInv, [KeysNext]_keysVars PROVE KeyInv'
    OBVIOUS
  <2> USE DEF Stands
  <2>1. ASSUME NEW p \in Process, NEW x, Becomes(p, x), UNCHANGED <<registry, retired, raced>>,
               x.found \subseteq Registered,
               x.step = "retiring" /\ ~x.stale => x.found = Active
        PROVE  KeyInv'
    <3>1. ASSUME NEW q \in Process
          PROVE  /\ process'[q].found \subseteq Registered
                 /\ process'[q].step = "retiring" /\ ~process'[q].stale => process'[q].found = Active
      BY <2>1 DEF Becomes, KeyInv, KeysTypeOK
    <3>2. Registered' = Registered /\ Active' = Active
      BY <2>1 DEF Registered, Active
    <3>3. QED  BY <2>1, <3>1, <3>2 DEF KeyInv
  <2>2. ASSUME NEW p \in Process, Serves(p), UNCHANGED <<registry, retired, raced>>,
               process[p] \in Processes
        PROVE  KeyInv'
    <3>1. [process[p] EXCEPT !.step = "up", !.found = {}, !.stale = FALSE].found = {}
          /\ [process[p] EXCEPT !.step = "up", !.found = {}, !.stale = FALSE].step = "up"
      BY <2>2 DEF Processes
    <3>2. QED  BY <2>1, <2>2, <3>1 DEF Serves
  <2>3. ASSUME NEW p \in Process, process[p].step # "down" PROVE process[p] \in Processes
    BY <2>3 DEF KeysTypeOK, Down
  <2>4. ASSUME NEW p \in Process, Boot(p) PROVE KeyInv'
    <3>1. PICK c \in Configs : Becomes(p, [Down EXCEPT !.step = "starting", !.config = c])
      BY <2>4 DEF Boot
    <3>2. /\ [Down EXCEPT !.step = "starting", !.config = c].found = {}
          /\ [Down EXCEPT !.step = "starting", !.config = c].step = "starting"
      BY DEF Down
    <3>3. QED  BY <2>1, <2>4, <3>1, <3>2 DEF Boot
  <2>5. ASSUME NEW p \in Process, LookUp(p) PROVE KeyInv'
    <3>1. process[p] \in Processes
      BY <2>3, <2>5 DEF LookUp
    <3>2. /\ [process[p] EXCEPT !.step = "missing"].found = process[p].found
          /\ [process[p] EXCEPT !.step = "missing"].step = "missing"
      BY <3>1 DEF Processes
    <3>3. process[p].found \subseteq Registered
      BY DEF KeyInv
    <3>4. CASE Serves(p)
      BY <2>2, <2>5, <3>1, <3>4 DEF LookUp
    <3>5. CASE Becomes(p, [process[p] EXCEPT !.step = "missing"])
      BY <2>1, <2>5, <3>2, <3>3, <3>5 DEF LookUp
    <3>6. QED  BY <2>5, <3>4, <3>5 DEF LookUp
  <2>6. ASSUME NEW p \in Process, RetireActive(p) PROVE KeyInv'
    <3>1. process[p] \in Processes
      BY <2>3, <2>6 DEF RetireActive
    <3>2. [process[p] EXCEPT !.step = "retiring", !.found = Active].found = Active
      BY <3>1 DEF Processes
    <3>3. Active \subseteq Registered
      BY DEF Active
    <3>4. QED  BY <2>1, <2>6, <3>2, <3>3 DEF RetireActive
  <2>7. ASSUME NEW p \in Process, Register(p) PROVE KeyInv'
    <3>1. process[p] \in Processes
      BY <2>3, <2>7 DEF Register
    <3>2. CASE Serves(p) /\ UNCHANGED <<registry, retired, raced>>
      BY <2>2, <3>1, <3>2
    <3>3. ASSUME registry[process[p].config.id] = Absent,
                 registry' = [registry EXCEPT ![process[p].config.id] = process[p].config.key],
                 retired' = retired \cup process[p].found,
                 raced' = (raced \/ process[p].stale),
                 Commits(p)
          PROVE  KeyInv'
      <4> DEFINE i == process[p].config.id
      <4>1. i \in KeyId /\ process[p].config.key # Absent
        BY <3>1, KeyAssumption DEF Processes, Config
      <4>2. Registered' = Registered \cup {i} /\ i \notin Registered
        BY <3>3, <4>1 DEF Registered, KeysTypeOK
      <4>3. process[p].found \subseteq Registered /\ retired \subseteq Registered
        BY DEF KeyInv
      <4>4. i \in Active' /\ Active' \subseteq Active \cup {i}
        BY <3>3, <4>2, <4>3 DEF Active
      <4>5. ASSUME NEW q \in Process
            PROVE  /\ process'[q].found \subseteq Registered'
                   /\ ~(process'[q].step = "retiring" /\ ~process'[q].stale)
        <5>1. CASE q = p
          BY <3>1, <3>3, <5>1 DEF Commits, Processes
        <5>2. CASE q # p /\ process[q].step \in {"missing", "retiring"}
          <6>1. process'[q] = [process[q] EXCEPT !.stale = TRUE]
            BY <3>3, <5>2 DEF Commits
          <6>2. process[q] \in Processes
            BY <2>3, <5>2
          <6>3. process'[q].found = process[q].found /\ process'[q].stale = TRUE
            BY <6>1, <6>2 DEF Processes
          <6>4. QED  BY <4>2, <6>3 DEF KeyInv
        <5>3. CASE q # p /\ process[q].step \notin {"missing", "retiring"}
          <6>1. process'[q] = process[q]
            BY <3>3, <5>3 DEF Commits
          <6>2. QED  BY <4>2, <5>3, <6>1 DEF KeyInv
        <5>4. QED  BY <5>1, <5>2, <5>3
      <4>6. ASSUME ~raced' PROVE Active' = {i}
        <5>1. process[p].found = Active
          BY <2>7, <3>3, <4>6 DEF KeyInv, Register
        <5>2. QED  BY <3>3, <4>2, <4>3, <4>4, <5>1 DEF Active
      <4>7. retired' \subseteq Registered'
        BY <3>3, <4>2, <4>3
      <4> HIDE DEF i
      <4>8. QED  BY <4>4, <4>5, <4>6, <4>7 DEF KeyInv
    <3>4. QED  BY <2>7, <3>2, <3>3 DEF Register
  <2>8. ASSUME NEW p \in Process, RegistrationFails(p) PROVE KeyInv'
    BY <2>2, <2>3, <2>8 DEF RegistrationFails
  <2>9. ASSUME NEW p \in Process, Stop(p) PROVE KeyInv'
    BY <2>1, <2>9 DEF Stop, Down
  <2>10. ASSUME NEW p \in Process, NEW r \in Record, Sign(p, r) PROVE KeyInv'
    BY <2>10 DEF Sign, KeyInv, Active, Registered
  <2>11. CASE UNCHANGED keysVars
    BY <2>11 DEF keysVars, KeyInv, Active, Registered
  <2>12. QED
    BY <2>4, <2>5, <2>6, <2>7, <2>8, <2>9, <2>10, <2>11 DEF KeysNext
<1>3. QED  BY <1>1, <1>2, KeysTypeCorrect, PTL DEF KeysSpec

(* Registration leaves one key active, and never none, unless two overlap  *)
(* (ensure_current_key_registered).                                        *)
THEOREM OneKeyActive == KeysSpec => []OneActiveKey
<1>1. KeyInv => OneActiveKey
  <2> SUFFICES ASSUME KeyInv, ~raced PROVE Cardinality(Active) <= 1
    BY DEF KeyInv, OneActiveKey
  <2>1. CASE Active = {}
    BY <2>1, FS_EmptySet
  <2>2. CASE Active # {}
    <3>1. PICK x \in Active : TRUE
      BY <2>2
    <3>2. Active = {x}
      BY <3>1 DEF KeyInv
    <3>3. QED  BY <3>2, FS_Singleton
  <2>3. QED  BY <2>1, <2>2
<1>2. QED  BY <1>1, KeyInvariant, PTL

-----------------------------------------------------------------------------
(* The organization: rows and tasks *)

(* What a boot or request has loaded is of the kind its operation writes,  *)
(* and still there: nobody takes rows away.  Settings that are not stale   *)
(* are those of now.                                                       *)
Fits(t, now, there) ==
  \/ t = Idle
  \/ /\ t \in Tasks
     /\ t.op # "boot" => t.step = "loaded" /\ now[t.org] # NoSettings
     /\ t.op = "settings" => t.settings \in Settings /\ t.updates \in Updates
     /\ t.op = "settings" /\ ~t.stale => t.settings = now[t.org]
     /\ t.op \in {"setup", "role", "status"} => t.user \in there
     /\ t.op \in {"setup", "create"} => t.value \in Email
     /\ t.op = "role" => t.value \in Role
     /\ t.op = "status" => t.value \in {"active", "disabled"}

TypeInv ==
  /\ TypeOK
  /\ \A w \in Worker : Fits(task[w], org, There)
  /\ \A u \in There : user[u].org \in Orgs

(* Once there is an organization, no boot that is not stale adds another.  *)
BootsKnow ==
  \A w \in Worker :
    task[w].op = "boot" /\ task[w].org \notin Orgs /\ Orgs # {} => task[w].stale

(* Until first boots overlap: one organization, an address is one user's,  *)
(* and an owner is there unless one was given another role.                *)
OwnerInv ==
  "boots overlapped" \notin mishap =>
    /\ \A o, p \in Orgs : o = p
    /\ \A u, v \in There : user[u].email = user[v].email => u = v
    /\ BootsKnow
    /\ "owner taken away" \notin mishap => \A o \in Orgs : Owners(o) # {}

LEMMA NoSettingsApart == NoSettings \notin Settings
<1>1. PICK f \in Field : TRUE
  BY ConsoleAssumption
<1>2. DOMAIN NoSettings = {}
  BY DEF NoSettings
<1>3. ASSUME NEW s \in Settings PROVE DOMAIN s = Field
  BY <1>3 DEF Settings
<1>4. QED  BY <1>1, <1>2, <1>3

LEMMA NoneApart == None \notin Users
BY ConsoleAssumption DEF Users, Role

(* What was loaded goes on fitting as long as rows stay, and other         *)
(* settings are those of a stale task.                                     *)
LEMMA FitsGoesOn ==
  ASSUME NEW t, NEW now, NEW then, NEW there, NEW later,
         Fits(t, now, there), there \subseteq later,
         \A o \in Org : now[o] # NoSettings => then[o] # NoSettings,
         t.op = "settings" /\ ~t.stale => then[t.org] = now[t.org]
  PROVE  Fits(t, then, later)
BY DEF Fits, Tasks

LEMMA OpsApart ==
  /\ Idle.op = "none" /\ Idle.step = "idle" /\ Idle.stale = FALSE
  /\ \A t \in Tasks : t.op \in Operation /\ t.op # "none" /\ t # Idle /\ t.org \in Org
BY DEF Idle, Tasks, Operation

(* A task that has come to a statement has loaded what it needs.           *)
LEMMA Loaded ==
  ASSUME TypeInv, NEW w \in Worker, task[w].op # "none"
  PROVE  /\ task[w] \in Tasks
         /\ Fits(task[w], org, There)
BY OpsApart DEF TypeInv, TypeOK

(* A step of w after which it stands at x.                                 *)
LEMMA OneGoes ==
  ASSUME TypeInv, NEW w \in Worker, NEW x, Goes(w, x), Fits(x, org', There'),
         There \subseteq There', UNCHANGED org
  PROVE  /\ \A v \in Worker : Fits(task'[v], org', There')
         /\ task' \in [Worker -> Tasks \cup {Idle}]
<1>1. ASSUME NEW v \in Worker PROVE Fits(task'[v], org', There')
  <2>1. CASE v = w
    BY <2>1 DEF Goes, TypeInv, TypeOK
  <2>2. CASE v # w
    <3>1. task'[v] = task[v] /\ Fits(task[v], org, There)
      BY <2>2 DEF Goes, TypeInv, TypeOK
    <3>2. QED  BY <3>1, FitsGoesOn
  <2>3. QED  BY <2>1, <2>2
<1>2. task' = [task EXCEPT ![w] = x] /\ x \in Tasks \cup {Idle}
  BY DEF Goes, Fits
<1>3. QED  BY <1>1, <1>2 DEF TypeInv, TypeOK

(* A commit of w that makes the others of its operation stale.             *)
LEMMA OneOvertakes ==
  ASSUME TypeInv, NEW w \in Worker, NEW op \in Operation, Overtakes(w, op), There \subseteq There',
         \A o \in Org : org[o] # NoSettings => org'[o] # NoSettings,
         \A v \in Worker : task[v].op = "settings" =>
           op = "settings" \/ org'[task[v].org] = org[task[v].org]
  PROVE  /\ \A v \in Worker : Fits(task'[v], org', There')
         /\ task' \in [Worker -> Tasks \cup {Idle}]
<1>1. ASSUME NEW v \in Worker PROVE Fits(task'[v], org', There')
  <2>1. CASE v = w
    BY <2>1 DEF Overtakes, Fits
  <2>2. CASE v # w /\ task[v].op = op
    <3>1. task'[v] = [task[v] EXCEPT !.stale = TRUE] /\ Fits(task[v], org, There)
      BY <2>2 DEF Overtakes, TypeInv
    <3>2. task[v] \in Tasks
      BY <2>2, <3>1, OpsApart DEF Fits, Operation
    <3>3. Fits(task'[v], org, There)
      BY <3>1, <3>2, OpsApart DEF Fits, Tasks
    <3>4. task'[v].stale = TRUE
      BY <3>1, <3>2 DEF Tasks
    <3>5. QED  BY <3>3, <3>4, FitsGoesOn
  <2>3. CASE v # w /\ task[v].op # op
    <3>1. task'[v] = task[v] /\ Fits(task[v], org, There)
      BY <2>3 DEF Overtakes, TypeInv
    <3>2. task[v].op = "settings" => org'[task[v].org] = org[task[v].org]
      BY <2>3
    <3>3. QED  BY <3>1, <3>2, FitsGoesOn
  <2>4. QED  BY <2>1, <2>2, <2>3
<1>2. QED  BY <1>1 DEF Overtakes, Fits

-----------------------------------------------------------------------------
(* Types *)

LEMMA RowOf ==
  ASSUME TypeInv
  PROVE  /\ \A u \in There : u \in User /\ user[u] \in Users /\ user[u].org \in Orgs
         /\ \A o \in Orgs : o \in Org /\ org[o] \in Settings
         /\ First \subseteq Orgs
BY DEF TypeInv, TypeOK, There, Orgs, First

(* What a step must keep for the types to go on.                           *)
LEMMA TypesGoOn ==
  ASSUME TypeInv,
         org' \in [Org -> Settings \cup {NoSettings}],
         user' \in [User -> Users \cup {None}],
         mishap' \subseteq Mishap,
         task' \in [Worker -> Tasks \cup {Idle}],
         \A w \in Worker : Fits(task'[w], org', There'),
         \A u \in There' : user'[u].org \in Orgs'
  PROVE  TypeInv'
BY DEF TypeInv, TypeOK

(* A statement that only reads.                                            *)
LEMMA ReadingFits ==
  ASSUME TypeInv, NEW w \in Worker, NEW x, Goes(w, x), OnlyReads, Fits(x, org, There)
  PROVE  TypeInv'
<1>1. There' = There /\ Orgs' = Orgs /\ UNCHANGED <<org, user, mishap>>
  BY DEF OnlyReads, There, Orgs
<1>2. Fits(x, org', There')
  BY <1>1
<1>3. QED  BY <1>1, <1>2, OneGoes, TypesGoOn DEF TypeInv, TypeOK

LEMMA BootReads ==
  ASSUME TypeInv, NEW w \in Worker, BootReadOrg(w) \/ BootReadOwner(w)
  PROVE  TypeInv'
<1>1. CASE BootReadOrg(w)
  <2>1. PICK o \in Org : Goes(w, [Idle EXCEPT !.op = "boot", !.step = "loaded", !.org = o])
    BY <1>1, RowOf DEF BootReadOrg
  <2> DEFINE x == [Idle EXCEPT !.op = "boot", !.step = "loaded", !.org = o]
  <2>2. x \in Tasks /\ x.op = "boot"
    BY DEF Idle, Tasks, Operation
  <2>3. Fits(x, org, There)
    BY <2>2 DEF Fits
  <2>4. OnlyReads /\ Goes(w, x)
    BY <1>1, <2>1 DEF BootReadOrg
  <2> HIDE DEF x
  <2>5. QED  BY <2>3, <2>4, ReadingFits
<1>2. CASE BootReadOwner(w)
  <2> DEFINE x == IF Owners(task[w].org) # {} THEN Idle ELSE [task[w] EXCEPT !.step = "ownerless"]
  <2>1. task[w] \in Tasks /\ task[w].op = "boot"
    BY <1>2, Loaded DEF BootReadOwner, At
  <2>2. [task[w] EXCEPT !.step = "ownerless"] \in Tasks
        /\ [task[w] EXCEPT !.step = "ownerless"].op = "boot"
    BY <2>1 DEF Tasks
  <2>3. Fits(x, org, There)
    BY <2>2 DEF Fits
  <2>4. OnlyReads /\ Goes(w, x)
    BY <1>2 DEF BootReadOwner
  <2> HIDE DEF x
  <2>5. QED  BY <2>3, <2>4, ReadingFits
<1>3. QED  BY <1>1, <1>2

LEMMA Aborts ==
  ASSUME TypeInv, NEW w \in Worker, Abort(w)
  PROVE  TypeInv'
<1>1. Fits(Idle, org, There)
  BY DEF Fits
<1>2. QED  BY <1>1, ReadingFits DEF Abort

LEMMA SettingsLoad ==
  ASSUME TypeInv, NEW w \in Worker, LoadSettings(w)
  PROVE  TypeInv'
<1>1. PICK o \in Orgs, u \in Updates :
        Goes(w, [Idle EXCEPT !.op = "settings", !.step = "loaded", !.org = o,
                             !.settings = org[o], !.updates = u])
  BY DEF LoadSettings
<1> DEFINE x == [Idle EXCEPT !.op = "settings", !.step = "loaded", !.org = o,
                             !.settings = org[o], !.updates = u]
<1>2. o \in Org /\ org[o] \in Settings /\ org[o] # NoSettings /\ u \in Updates
  BY RowOf, NoSettingsApart
<1>3. Goes(w, x)
  BY <1>1
<1>4. x \in Tasks
  BY <1>2, RowOf DEF Idle, Tasks, Operation
<1>5. /\ x.op = "settings" /\ x.step = "loaded" /\ x.org = o /\ x.settings = org[o]
      /\ x.updates = u
  BY DEF Idle
<1> HIDE DEF x
<1>6. Fits(x, org, There)
  BY <1>2, <1>4, <1>5 DEF Fits
<1>7. QED  BY <1>3, <1>6, ReadingFits DEF LoadSettings

LEMMA AddressLoads ==
  ASSUME TypeInv, NEW w \in Worker, LoadAddress(w)
  PROVE  TypeInv'
<1>1. PICK o \in Orgs, e \in Email :
        \/ \E u \in Owners(o) :
             Goes(w, [Idle EXCEPT !.op = "setup", !.step = "loaded", !.org = o, !.user = u,
                                  !.value = e])
        \/ Goes(w, [Idle EXCEPT !.op = "create", !.step = "loaded", !.org = o, !.value = e])
  BY DEF LoadAddress
<1>2. o \in Org /\ org[o] # NoSettings
  BY RowOf, NoSettingsApart
<1>3. ASSUME NEW u \in There,
             Goes(w, [Idle EXCEPT !.op = "setup", !.step = "loaded", !.org = o, !.user = u,
                                  !.value = e])
      PROVE  TypeInv'
  <2> DEFINE x == [Idle EXCEPT !.op = "setup", !.step = "loaded", !.org = o, !.user = u,
                                !.value = e]
  <2>1. Goes(w, x)
    BY <1>3
  <2>2. x \in Tasks
    BY <1>2, RowOf DEF Idle, Tasks, Operation
  <2>3. x.op = "setup" /\ x.step = "loaded" /\ x.org = o /\ x.user = u /\ x.value = e
    BY DEF Idle
  <2> HIDE DEF x
  <2>4. Fits(x, org, There)
    BY <1>2, <2>2, <2>3 DEF Fits
  <2>5. QED  BY <2>1, <2>4, ReadingFits DEF LoadAddress
<1>4. ASSUME Goes(w, [Idle EXCEPT !.op = "create", !.step = "loaded", !.org = o, !.value = e])
      PROVE  TypeInv'
  <2> DEFINE x == [Idle EXCEPT !.op = "create", !.step = "loaded", !.org = o, !.value = e]
  <2>1. Goes(w, x)
    BY <1>4
  <2>2. x \in Tasks
    BY <1>2, RowOf DEF Idle, Tasks, Operation
  <2>3. x.op = "create" /\ x.step = "loaded" /\ x.org = o /\ x.value = e
    BY DEF Idle
  <2> HIDE DEF x
  <2>4. Fits(x, org, There)
    BY <1>2, <2>2, <2>3 DEF Fits
  <2>5. QED  BY <2>1, <2>4, ReadingFits DEF LoadAddress
<1>5. QED  BY <1>1, <1>3, <1>4 DEF Owners

LEMMA UserLoads ==
  ASSUME TypeInv, NEW w \in Worker, LoadUser(w)
  PROVE  TypeInv'
<1>1. PICK o \in Orgs, u \in There :
        \/ \E r \in Role :
             Goes(w, [Idle EXCEPT !.op = "role", !.step = "loaded", !.org = o,
                                  !.user = u, !.row = user[u], !.value = r])
        \/ \E s \in {"active", "disabled"} :
             Goes(w, [Idle EXCEPT !.op = "status", !.step = "loaded", !.org = o,
                                  !.user = u, !.row = user[u], !.value = s])
  BY DEF LoadUser
<1>2. o \in Org /\ org[o] # NoSettings /\ u \in User /\ user[u] \in Users
  BY RowOf, NoSettingsApart
<1>3. ASSUME NEW r \in Role,
             Goes(w, [Idle EXCEPT !.op = "role", !.step = "loaded", !.org = o,
                                  !.user = u, !.row = user[u], !.value = r])
      PROVE  TypeInv'
  <2> DEFINE x == [Idle EXCEPT !.op = "role", !.step = "loaded", !.org = o,
                               !.user = u, !.row = user[u], !.value = r]
  <2>1. x \in Tasks
    BY <1>2 DEF Idle, Tasks, Operation
  <2>2. x.op = "role" /\ x.step = "loaded" /\ x.org = o /\ x.user = u /\ x.value = r
    BY DEF Idle
  <2>3. Goes(w, x)
    BY <1>3
  <2> HIDE DEF x
  <2>4. Fits(x, org, There)
    BY <1>2, <2>1, <2>2 DEF Fits
  <2>5. QED  BY <2>3, <2>4, ReadingFits DEF LoadUser
<1>4. ASSUME NEW s \in {"active", "disabled"},
             Goes(w, [Idle EXCEPT !.op = "status", !.step = "loaded", !.org = o,
                                  !.user = u, !.row = user[u], !.value = s])
      PROVE  TypeInv'
  <2> DEFINE x == [Idle EXCEPT !.op = "status", !.step = "loaded", !.org = o,
                               !.user = u, !.row = user[u], !.value = s]
  <2>1. x \in Tasks
    BY <1>2 DEF Idle, Tasks, Operation
  <2>2. x.op = "status" /\ x.step = "loaded" /\ x.org = o /\ x.user = u /\ x.value = s
    BY DEF Idle
  <2>3. Goes(w, x)
    BY <1>4
  <2> HIDE DEF x
  <2>4. Fits(x, org, There)
    BY <1>2, <2>1, <2>2 DEF Fits
  <2>5. QED  BY <2>3, <2>4, ReadingFits DEF LoadUser
<1>5. QED  BY <1>1, <1>3, <1>4

(* A commit that writes users only, and takes none away.                   *)
LEMMA UsersWritten ==
  ASSUME TypeInv, NEW w \in Worker, Goes(w, Idle), UNCHANGED org,
         user' \in [User -> Users \cup {None}], There \subseteq There',
         mishap' \subseteq Mishap, \A u \in There' : user'[u].org \in Orgs
  PROVE  TypeInv'
<1>1. Fits(Idle, org', There') /\ Orgs' = Orgs
  BY DEF Fits, Orgs
<1>2. QED  BY <1>1, OneGoes, TypesGoOn DEF TypeInv, TypeOK

(* One row written: of a user that is there, or a new one.                 *)
LEMMA OneUserWritten ==
  ASSUME TypeInv, NEW u \in User, NEW x \in Users, user' = [user EXCEPT ![u] = x]
  PROVE  /\ user' \in [User -> Users \cup {None}]
         /\ There' = There \cup {u}
         /\ x.org \in Orgs => \A v \in There' : user'[v].org \in Orgs
<1>1. There' = There \cup {u}
  BY NoneApart DEF There, TypeInv, TypeOK
<1>2. QED  BY <1>1 DEF TypeInv, TypeOK

LEMMA OwnerSaves ==
  ASSUME TypeInv, NEW w \in Worker, SaveOwner(w)
  PROVE  TypeInv'
<1> DEFINE t == task[w]
<1>1. t.user \in There /\ t.value \in Email
  BY Loaded, OpsApart DEF SaveOwner, At, Fits
<1>2. CASE UNCHANGED user
  <2>1. There' = There
    BY <1>2 DEF There
  <2>2. QED  BY <1>2, <2>1, RowOf, UsersWritten DEF SaveOwner, TypeInv, TypeOK
<1>3. CASE user' = [user EXCEPT ![t.user].email = t.value]
  <2> DEFINE x == [user[t.user] EXCEPT !.email = t.value]
  <2>1. user[t.user] \in Users /\ t.user \in User /\ user[t.user].org \in Orgs
    BY <1>1, RowOf
  <2>2. x \in Users /\ x.org = user[t.user].org
    BY <1>1, <2>1 DEF Users
  <2>3. user' = [user EXCEPT ![t.user] = x]
    BY <1>3
  <2> HIDE DEF x, t
  <2>4. /\ user' \in [User -> Users \cup {None}]
        /\ There \subseteq There' /\ \A v \in There' : user'[v].org \in Orgs
    BY <2>1, <2>2, <2>3, OneUserWritten
  <2>5. QED  BY <2>4, UsersWritten DEF SaveOwner, TypeInv, TypeOK
<1>4. QED  BY <1>2, <1>3 DEF SaveOwner

LEMMA UserSaves ==
  ASSUME TypeInv, NEW w \in Worker, SaveUser(w)
  PROVE  TypeInv'
<1> DEFINE t == task[w]
<1>1. t.org \in Orgs /\ t.value \in Email
  BY Loaded, OpsApart DEF SaveUser, At, Fits, Orgs
<1>2. CASE UNCHANGED user
  <2>1. There' = There
    BY <1>2 DEF There
  <2>2. QED  BY <1>2, <2>1, RowOf, UsersWritten DEF SaveUser, TypeInv, TypeOK
<1>3. ASSUME NEW u \in User \ There, NEW r \in Role,
             user' = [user EXCEPT ![u] =
               [org |-> t.org, email |-> t.value, role |-> r, status |-> "active"]]
      PROVE  TypeInv'
  <2> DEFINE x == [org |-> t.org, email |-> t.value, role |-> r, status |-> "active"]
  <2>1. x \in Users /\ x.org \in Orgs
    BY <1>1, RowOf DEF Users
  <2>2. user' = [user EXCEPT ![u] = x]
    BY <1>3
  <2> HIDE DEF x, t
  <2>3. /\ user' \in [User -> Users \cup {None}]
        /\ There \subseteq There' /\ \A v \in There' : user'[v].org \in Orgs
    BY <2>1, <2>2, OneUserWritten
  <2>4. QED  BY <2>3, UsersWritten DEF SaveUser, TypeInv, TypeOK
<1>4. QED  BY <1>2, <1>3 DEF SaveUser

(* A role or status written to a row.                                      *)
LEMMA ChangedRow ==
  ASSUME TypeInv, NEW w \in Worker, SaveUserChange(w)
  PROVE  LET t == task[w] IN
         /\ t.user \in There /\ Changed(t) \in Users
         /\ Changed(t).org = user[t.user].org /\ Changed(t).email = user[t.user].email
         /\ t.op = "status" => Changed(t).role = user[t.user].role
<1> DEFINE t == task[w]
<1>1. /\ t.op \in {"role", "status"} /\ t.user \in There
      /\ t.op = "role" => t.value \in Role
      /\ t.op = "status" => t.value \in {"active", "disabled"}
  BY Loaded, OpsApart DEF SaveUserChange, Fits
<1>2. user[t.user] \in Users
  BY <1>1, RowOf
<1>3. QED  BY <1>1, <1>2 DEF Changed, Users

LEMMA ChangeSaves ==
  ASSUME TypeInv, NEW w \in Worker, SaveUserChange(w)
  PROVE  TypeInv'
<1> DEFINE t == task[w]
           x == Changed(t)
<1>1. /\ t.user \in User /\ x \in Users /\ x.org \in Orgs
      /\ user' = [user EXCEPT ![t.user] = x]
  BY ChangedRow, RowOf DEF SaveUserChange
<1> HIDE DEF x, t
<1>2. /\ user' \in [User -> Users \cup {None}]
      /\ There \subseteq There' /\ \A v \in There' : user'[v].org \in Orgs
  BY <1>1, OneUserWritten
<1>3. mishap' \subseteq Mishap
  BY DEF SaveUserChange, Mishap, TypeInv, TypeOK
<1>4. QED  BY <1>2, <1>3, UsersWritten DEF SaveUserChange

LEMMA SettingsSave ==
  ASSUME TypeInv, NEW w \in Worker, SaveSettings(w)
  PROVE  TypeInv'
<1> DEFINE t == task[w]
           s == Merged(t.settings, org[t.org], t.updates)
<1>1. /\ t.org \in Org /\ org[t.org] # NoSettings
      /\ t.settings \in Settings /\ t.updates \in Updates
  BY Loaded, OpsApart DEF SaveSettings, At, Fits
<1>2. org[t.org] \in Settings
  BY <1>1 DEF TypeInv, TypeOK
<1>3. s \in Settings
  BY <1>1, <1>2 DEF Merged, Settings, Updates
<1>4. org' = [org EXCEPT ![t.org] = s]
  BY DEF SaveSettings
<1>5. Overtakes(w, "settings") /\ UNCHANGED <<user, mishap>>
  BY DEF SaveSettings
<1> HIDE DEF s, t
<1>6. org' \in [Org -> Settings \cup {NoSettings}]
  BY <1>3, <1>4 DEF TypeInv, TypeOK
<1>7. \A o \in Org : org[o] # NoSettings => org'[o] # NoSettings
  BY <1>3, <1>4, NoSettingsApart DEF TypeInv, TypeOK
<1>8. There' = There /\ Orgs \subseteq Orgs'
  BY <1>5, <1>7 DEF There, Orgs
<1>9. /\ \A v \in Worker : Fits(task'[v], org', There')
      /\ task' \in [Worker -> Tasks \cup {Idle}]
  BY <1>5, <1>7, <1>8, OneOvertakes DEF Operation
<1>10. \A u \in There' : user'[u].org \in Orgs'
  BY <1>5, <1>8, RowOf
<1>11. QED  BY <1>5, <1>6, <1>9, <1>10, TypesGoOn DEF TypeInv, TypeOK

(* What a first boot commits: its organization is there, with the settings *)
(* it had or the defaults, and a new user is its owner.                    *)
BootMade(w, u, x) ==
  LET o == task[w].org
  IN  /\ task[w] \in Tasks /\ o \in Org /\ ~Taken(o, OwnerEmail, None)
      /\ u \in User \ There
      /\ x \in Users /\ x.org = o /\ x.email = OwnerEmail /\ x.role = "owner"
      /\ user' = [user EXCEPT ![u] = x]
      /\ org' \in [Org -> Settings \cup {NoSettings}]
      /\ \A p \in Orgs : org'[p] = org[p]
      /\ Orgs' = Orgs \cup {o}
      /\ Overtakes(w, "boot")
      /\ mishap' = IF task[w].stale /\ o \notin Orgs
                     THEN mishap \cup {"boots overlapped"} ELSE mishap

LEMMA BootCommits ==
  ASSUME TypeInv, NEW w \in Worker, BootCommit(w)
  PROVE  \/ \E u, x : BootMade(w, u, x)
         \/ Goes(w, Idle) /\ UNCHANGED <<org, user, mishap>>
<1> DEFINE o == task[w].org
<1>1. task[w] \in Tasks /\ o \in Org
  BY Loaded, OpsApart DEF BootCommit, At
<1>2. SUFFICES ASSUME ~(Goes(w, Idle) /\ UNCHANGED <<org, user, mishap>>)
               PROVE  \E u, x : BootMade(w, u, x)
  OBVIOUS
<1>3. /\ ~Taken(o, OwnerEmail, None) /\ Overtakes(w, "boot")
      /\ mishap' = IF task[w].stale /\ o \notin Orgs
                     THEN mishap \cup {"boots overlapped"} ELSE mishap
      /\ org' = IF o \in Orgs THEN org
                ELSE [org EXCEPT ![o] = [f \in Field |-> Default]]
  BY <1>2 DEF BootCommit
<1>4. PICK u \in User \ There :
        user' = [user EXCEPT ![u] =
          [org |-> o, email |-> OwnerEmail, role |-> "owner", status |-> "active"]]
  BY <1>2 DEF BootCommit
<1> DEFINE x == [org |-> o, email |-> OwnerEmail, role |-> "owner", status |-> "active"]
<1>5. x \in Users /\ x.org = o /\ x.email = OwnerEmail /\ x.role = "owner"
  BY <1>1, ConsoleAssumption DEF Users, Role
<1>6. [f \in Field |-> Default] \in Settings
  BY ConsoleAssumption DEF Settings
<1>7. /\ org' \in [Org -> Settings \cup {NoSettings}]
      /\ \A p \in Orgs : org'[p] = org[p]
  BY <1>1, <1>3, <1>6 DEF TypeInv, TypeOK, Orgs
<1>8. Orgs' = Orgs \cup {o}
  <2>1. CASE o \in Orgs
    BY <1>3, <2>1 DEF Orgs
  <2>2. CASE o \notin Orgs
    BY <1>1, <1>3, <1>6, <2>2, NoSettingsApart DEF TypeInv, TypeOK, Orgs
  <2>3. QED  BY <2>1, <2>2
<1>9. user' = [user EXCEPT ![u] = x]
  BY <1>4
<1> HIDE DEF x
<1>10. BootMade(w, u, x)
  BY <1>1, <1>3, <1>5, <1>7, <1>8, <1>9 DEF BootMade
<1>11. QED  BY <1>10

LEMMA BootType ==
  ASSUME TypeInv, NEW w \in Worker, BootCommit(w)
  PROVE  TypeInv'
<1>1. CASE Goes(w, Idle) /\ UNCHANGED <<org, user, mishap>>
  <2>1. There' = There
    BY <1>1 DEF There
  <2>2. QED  BY <1>1, <2>1, RowOf, UsersWritten DEF TypeInv, TypeOK
<1>2. ASSUME NEW u, NEW x, BootMade(w, u, x) PROVE TypeInv'
  <2>1. /\ user' \in [User -> Users \cup {None}] /\ There' = There \cup {u}
    BY <1>2, OneUserWritten DEF BootMade
  <2>2. \A o \in Org : org[o] # NoSettings => org'[o] # NoSettings
    BY <1>2 DEF BootMade, Orgs
  <2>3. \A v \in Worker : task[v].op = "settings" => org'[task[v].org] = org[task[v].org]
    <3>1. ASSUME NEW v \in Worker, task[v].op = "settings" PROVE task[v].org \in Orgs
      BY <3>1, Loaded, OpsApart DEF Fits, Orgs
    <3>2. QED  BY <1>2, <3>1 DEF BootMade
  <2>4. /\ \A v \in Worker : Fits(task'[v], org', There')
        /\ task' \in [Worker -> Tasks \cup {Idle}]
    BY <1>2, <2>1, <2>2, <2>3, OneOvertakes DEF BootMade, Operation
  <2>5. mishap' \subseteq Mishap
    BY <1>2 DEF BootMade, Mishap, TypeInv, TypeOK
  <2>6. \A v \in There' : user'[v].org \in Orgs'
    <3>1. user'[u] = x /\ x.org \in Orgs'
      BY <1>2 DEF BootMade, TypeInv, TypeOK
    <3>2. \A v \in There \ {u} : user'[v] = user[v] /\ user[v].org \in Orgs'
      BY <1>2 DEF BootMade, TypeInv, TypeOK, There
    <3>3. QED  BY <2>1, <3>1, <3>2
  <2>7. QED  BY <1>2, <2>1, <2>4, <2>5, <2>6, TypesGoOn DEF BootMade
<1>3. QED  BY <1>1, <1>2, BootCommits

LEMMA TypeInvariant == Spec => []TypeInv
<1>1. Init => TypeInv
  <2> SUFFICES ASSUME Init PROVE TypeInv
    OBVIOUS
  <2>1. TypeOK
    BY DEF Init, TypeOK
  <2>2. There = {} /\ \A w \in Worker : Fits(task[w], org, There)
    BY DEF Init, There, Fits
  <2>3. QED  BY <2>1, <2>2 DEF TypeInv
<1>2. TypeInv /\ [Next]_vars => TypeInv'
  <2> SUFFICES ASSUME TypeInv, [Next]_vars PROVE TypeInv'
    OBVIOUS
  <2>1. CASE UNCHANGED vars
    BY <2>1 DEF vars, TypeInv, TypeOK, There, Orgs
  <2>2. CASE Next
    BY <2>2, BootReads, BootType, SettingsLoad, SettingsSave, AddressLoads, OwnerSaves,
       UserSaves, UserLoads, ChangeSaves, Aborts DEF Next
  <2>3. QED  BY <2>1, <2>2
<1>3. QED  BY <1>1, <1>2, PTL DEF Spec

(* Type correctness.                                                       *)
THEOREM ConsoleTypeCorrect == Spec => []TypeOK
BY TypeInvariant, PTL DEF TypeInv

-----------------------------------------------------------------------------
(* Changes *)

(* What differs afterwards in the settings is the field that was to be     *)
(* written, or was loaded before another update was saved.                 *)
LEMMA SettingsKept ==
  ASSUME TypeInv, [Next]_vars, NEW o \in Orgs, NEW f \in Field, org'[o][f] # org[o][f]
  PROVE  \E w \in Worker :
           task[w].op = "settings" /\ (f \in DOMAIN task[w].updates \/ task[w].stale)
<1>1. ASSUME NEW w \in Worker, SaveSettings(w)
      PROVE  task[w].op = "settings" /\ (f \in DOMAIN task[w].updates \/ task[w].stale)
  <2> DEFINE t == task[w]
  <2>1. /\ t.op = "settings" /\ t.org \in Org /\ t.updates \in Updates
        /\ ~t.stale => t.settings = org[t.org]
    BY <1>1, Loaded, OpsApart DEF SaveSettings, At, Fits
  <2>2. org' = [org EXCEPT ![t.org] = Merged(t.settings, @, t.updates)]
    BY <1>1 DEF SaveSettings
  <2>3. o \in Org /\ org[o] \in Settings
    BY RowOf
  <2>4. t.org = o /\ org'[o] = Merged(t.settings, org[o], t.updates)
    BY <2>1, <2>2, <2>3 DEF TypeInv, TypeOK
  <2> HIDE DEF t
  <2>5. ~t.stale => f \in DOMAIN t.updates
    BY <2>1, <2>4 DEF Merged
  <2>6. QED  BY <2>1, <2>5 DEF t
<1>2. ASSUME NEW w \in Worker, BootCommit(w) PROVE FALSE
  BY <1>2, BootCommits DEF BootMade
<1>3. UNCHANGED org \/ \E w \in Worker : SaveSettings(w) \/ BootCommit(w)
  BY DEF Next, vars, OnlyReads, BootReadOrg, BootReadOwner, LoadSettings, LoadAddress,
         SaveOwner, SaveUser, LoadUser, SaveUserChange, Abort
<1>4. QED  BY <1>1, <1>2, <1>3

(* What a row of a user becomes is what a request was to make of it.       *)
LEMMA UserKept ==
  ASSUME TypeInv, [Next]_vars, NEW u \in There, user'[u] # user[u]
  PROVE  \E w \in Worker :
           /\ task[w].user = u
           /\ \/ task[w].op = "role" /\ user'[u] = [user[u] EXCEPT !.role = task[w].value]
              \/ task[w].op = "status" /\ user'[u] = [user[u] EXCEPT !.status = task[w].value]
              \/ task[w].op = "setup" /\ user'[u] = [user[u] EXCEPT !.email = task[w].value]
<1>0. u \in User
  BY RowOf
<1>1. ASSUME NEW w \in Worker, SaveUserChange(w)
      PROVE  /\ task[w].user = u
             /\ \/ task[w].op = "role" /\ user'[u] = [user[u] EXCEPT !.role = task[w].value]
                \/ task[w].op = "status" /\ user'[u] = [user[u] EXCEPT !.status = task[w].value]
  <2>1. task[w].user = u /\ user'[u] = Changed(task[w])
    BY <1>0, <1>1 DEF SaveUserChange, TypeInv, TypeOK
  <2>2. task[w].op \in {"role", "status"}
    BY <1>1 DEF SaveUserChange
  <2>3. QED  BY <2>1, <2>2 DEF Changed
<1>2. ASSUME NEW w \in Worker, SaveOwner(w)
      PROVE  /\ task[w].user = u
             /\ task[w].op = "setup" /\ user'[u] = [user[u] EXCEPT !.email = task[w].value]
  BY <1>0, <1>2 DEF SaveOwner, At, TypeInv, TypeOK
<1>3. ASSUME NEW w \in Worker, SaveUser(w) PROVE FALSE
  BY <1>0, <1>3 DEF SaveUser, TypeInv, TypeOK
<1>4. ASSUME NEW w \in Worker, BootCommit(w) PROVE FALSE
  BY <1>0, <1>4, BootCommits DEF BootMade, TypeInv, TypeOK
<1>5. UNCHANGED user
      \/ \E w \in Worker : SaveUserChange(w) \/ SaveOwner(w) \/ SaveUser(w) \/ BootCommit(w)
  BY DEF Next, vars, OnlyReads, BootReadOrg, BootReadOwner, LoadSettings, LoadAddress,
         SaveSettings, LoadUser, Abort
<1>6. QED  BY <1>1, <1>2, <1>3, <1>4, <1>5

(* Nobody's change of the settings or of a user undoes another's, but for  *)
(* the settings' JSON value, which an update writes as it had loaded it    *)
(* (update_settings, update_user_role, update_user_status, setup_owner).   *)
THEOREM ChangesKept == Spec => NothingClobbered
<1>1. TypeInv /\ [Next]_vars =>
        [/\ \A o \in Orgs, f \in Field :
              org'[o][f] # org[o][f] =>
                \E w \in Worker : task[w].op = "settings"
                                  /\ (f \in DOMAIN task[w].updates \/ task[w].stale)
         /\ \A u \in There : user'[u] # user[u] =>
              \E w \in Worker :
                /\ task[w].user = u
                /\ \/ task[w].op = "role"
                      /\ user'[u] = [user[u] EXCEPT !.role = task[w].value]
                   \/ task[w].op = "status"
                      /\ user'[u] = [user[u] EXCEPT !.status = task[w].value]
                   \/ task[w].op = "setup"
                      /\ user'[u] = [user[u] EXCEPT !.email = task[w].value]]_vars
  BY SettingsKept, UserKept
<1>2. QED  BY <1>1, TypeInvariant, PTL DEF Spec, NothingClobbered

-----------------------------------------------------------------------------
(* The owner *)

LEMMA BootsGoOn ==
  ASSUME TypeInv, BootsKnow, Orgs' = Orgs, NEW w \in Worker, NEW x, Goes(w, x),
         x.op = "boot" /\ x.org \notin Orgs /\ Orgs # {} => x.stale
  PROVE  BootsKnow'
BY DEF BootsKnow, Goes, TypeInv, TypeOK

LEMMA BootsOvertaken ==
  ASSUME TypeInv, BootsKnow, NEW w \in Worker, Overtakes(w, "boot")
  PROVE  BootsKnow'
<1> SUFFICES ASSUME NEW v \in Worker, task'[v].op = "boot" PROVE task'[v].stale
  BY DEF BootsKnow
<1>1. v # w
  BY OpsApart DEF Overtakes
<1>2. CASE task[v].op = "boot"
  <2>1. task[v] \in Tasks /\ task'[v] = [task[v] EXCEPT !.stale = TRUE]
    BY <1>1, <1>2, Loaded DEF Overtakes
  <2>2. QED  BY <2>1 DEF Tasks
<1>3. CASE task[v].op # "boot"
  BY <1>1, <1>3 DEF Overtakes
<1>4. QED  BY <1>2, <1>3

(* A commit of w that writes x as the row of u, by which no other user has *)
(* the address.                                                            *)
UserWritten(w, u, x) ==
  /\ Goes(w, Idle) /\ UNCHANGED org
  /\ u \in User /\ x \in Users /\ user' = [user EXCEPT ![u] = x]
  /\ \A v \in There \ {u} : user[v].email # x.email
  /\ u \in There => x.org = user[u].org
  /\ u \in There /\ user[u].role = "owner" /\ x.role # "owner" =>
       "owner taken away" \in mishap'
  /\ mishap \subseteq mishap'

LEMMA OwnerInvariant == Spec => []OwnerInv
<1>1. Init => OwnerInv
  BY OpsApart DEF Init, OwnerInv, BootsKnow, Orgs, There
<1>2. TypeInv /\ TypeInv' /\ OwnerInv /\ [Next]_vars => OwnerInv'
  <2> SUFFICES ASSUME TypeInv, TypeInv', OwnerInv, [Next]_vars,
                      "boots overlapped" \notin mishap'
               PROVE  OwnerInv'
    BY DEF OwnerInv
  <2>1. "boots overlapped" \notin mishap
    BY BootCommits DEF Next, vars, OnlyReads, BootReadOrg, BootReadOwner, LoadSettings,
       LoadAddress, SaveSettings, SaveOwner, SaveUser, LoadUser, SaveUserChange, Abort, BootMade
  <2>2. /\ \A o, p \in Orgs : o = p
        /\ \A u, v \in There : user[u].email = user[v].email => u = v
        /\ BootsKnow
        /\ "owner taken away" \notin mishap => \A o \in Orgs : Owners(o) # {}
    BY <2>1 DEF OwnerInv, BootsKnow
  <2>4. ASSUME NEW w \in Worker, NEW x, Goes(w, x), UNCHANGED <<org, user, mishap>>,
               x.op = "boot" /\ x.org \notin Orgs /\ Orgs # {} => x.stale
        PROVE  OwnerInv'
    <3>1. Orgs' = Orgs /\ There' = There
      BY <2>4 DEF Orgs, There
    <3>2. \A o : Owners(o)' = Owners(o)
      BY <2>4, <3>1 DEF Owners
    <3>3. BootsKnow'
      BY <2>2, <2>4, <3>1, BootsGoOn
    <3>4. QED  BY <2>2, <2>4, <3>1, <3>2, <3>3 DEF OwnerInv, BootsKnow
  <2>5. ASSUME NEW w \in Worker, BootReadOrg(w) PROVE OwnerInv'
    <3>1. PICK o \in (IF Orgs # {} THEN First ELSE Org) :
            Goes(w, [Idle EXCEPT !.op = "boot", !.step = "loaded", !.org = o])
      BY <2>5 DEF BootReadOrg
    <3> DEFINE x == [Idle EXCEPT !.op = "boot", !.step = "loaded", !.org = o]
    <3>2. x.org = o
      BY DEF Idle
    <3>3. Goes(w, x)
      BY <3>1
    <3> HIDE DEF x
    <3>4. QED  BY <2>4, <2>5, <3>1, <3>2, <3>3, RowOf DEF BootReadOrg, OnlyReads
  <2>6. ASSUME NEW w \in Worker, BootReadOwner(w) PROVE OwnerInv'
    <3> DEFINE x == [task[w] EXCEPT !.step = "ownerless"]
    <3>1. task[w] \in Tasks
      BY <2>6, Loaded DEF BootReadOwner, At
    <3>2. x.op = task[w].op /\ x.org = task[w].org /\ x.stale = task[w].stale
      BY <3>1 DEF Tasks
    <3>3. x.op = "boot" /\ x.org \notin Orgs /\ Orgs # {} => x.stale
      BY <2>2, <3>2 DEF BootsKnow
    <3>4. Goes(w, Idle) \/ Goes(w, x)
      BY <2>6 DEF BootReadOwner
    <3> HIDE DEF x
    <3>5. QED  BY <2>4, <2>6, <3>3, <3>4, OpsApart DEF BootReadOwner, OnlyReads
  <2>7. ASSUME NEW w \in Worker, Abort(w) PROVE OwnerInv'
    BY <2>4, <2>7, OpsApart DEF Abort, OnlyReads
  <2>8. ASSUME NEW w \in Worker, LoadSettings(w) PROVE OwnerInv'
    <3>1. PICK o \in Orgs, u \in Updates :
            Goes(w, [Idle EXCEPT !.op = "settings", !.step = "loaded", !.org = o,
                                 !.settings = org[o], !.updates = u])
      BY <2>8 DEF LoadSettings
    <3> DEFINE x == [Idle EXCEPT !.op = "settings", !.step = "loaded", !.org = o,
                                 !.settings = org[o], !.updates = u]
    <3>2. x.op # "boot" /\ Goes(w, x)
      BY <3>1 DEF Idle
    <3> HIDE DEF x
    <3>3. QED  BY <2>4, <2>8, <3>2 DEF LoadSettings, OnlyReads
  <2>9. ASSUME NEW w \in Worker, LoadAddress(w) PROVE OwnerInv'
    <3>1. ASSUME NEW o, NEW u, NEW e,
                 Goes(w, [Idle EXCEPT !.op = "setup", !.step = "loaded", !.org = o, !.user = u,
                                      !.value = e])
          PROVE  OwnerInv'
      <4> DEFINE x == [Idle EXCEPT !.op = "setup", !.step = "loaded", !.org = o, !.user = u,
                                   !.value = e]
      <4>1. x.op # "boot" /\ Goes(w, x)
        BY <3>1 DEF Idle
      <4> HIDE DEF x
      <4>2. QED  BY <2>4, <2>9, <4>1 DEF LoadAddress, OnlyReads
    <3>2. ASSUME NEW o, NEW e,
                 Goes(w, [Idle EXCEPT !.op = "create", !.step = "loaded", !.org = o,
                                      !.value = e])
          PROVE  OwnerInv'
      <4> DEFINE x == [Idle EXCEPT !.op = "create", !.step = "loaded", !.org = o, !.value = e]
      <4>1. x.op # "boot" /\ Goes(w, x)
        BY <3>2 DEF Idle
      <4> HIDE DEF x
      <4>2. QED  BY <2>4, <2>9, <4>1 DEF LoadAddress, OnlyReads
    <3>3. QED  BY <2>9, <3>1, <3>2 DEF LoadAddress
  <2>10. ASSUME NEW w \in Worker, LoadUser(w) PROVE OwnerInv'
    <3>1. ASSUME NEW o, NEW u, NEW r,
                 Goes(w, [Idle EXCEPT !.op = "role", !.step = "loaded", !.org = o,
                                      !.user = u, !.row = user[u], !.value = r])
          PROVE  OwnerInv'
      <4> DEFINE x == [Idle EXCEPT !.op = "role", !.step = "loaded", !.org = o,
                                   !.user = u, !.row = user[u], !.value = r]
      <4>1. x.op # "boot" /\ Goes(w, x)
        BY <3>1 DEF Idle
      <4> HIDE DEF x
      <4>2. QED  BY <2>4, <2>10, <4>1 DEF LoadUser, OnlyReads
    <3>2. ASSUME NEW o, NEW u, NEW s,
                 Goes(w, [Idle EXCEPT !.op = "status", !.step = "loaded", !.org = o,
                                      !.user = u, !.row = user[u], !.value = s])
          PROVE  OwnerInv'
      <4> DEFINE x == [Idle EXCEPT !.op = "status", !.step = "loaded", !.org = o,
                                   !.user = u, !.row = user[u], !.value = s]
      <4>1. x.op # "boot" /\ Goes(w, x)
        BY <3>2 DEF Idle
      <4> HIDE DEF x
      <4>2. QED  BY <2>4, <2>10, <4>1 DEF LoadUser, OnlyReads
    <3>3. QED  BY <2>10, <3>1, <3>2 DEF LoadUser
  <2>11. \A u \in There, o \in Orgs : user[u].org = o
    BY <2>2, RowOf
  <2>12. ASSUME NEW w \in Worker, SaveSettings(w) PROVE OwnerInv'
    <3>1. /\ UNCHANGED <<user, mishap>> /\ Overtakes(w, "settings")
          /\ task[w].org \in Orgs
          /\ org' = [org EXCEPT ![task[w].org] = Merged(task[w].settings, @, task[w].updates)]
      BY <2>12, Loaded, OpsApart DEF SaveSettings, At, Fits, Orgs
    <3>2. org' \in [Org -> Settings \cup {NoSettings}]
      BY DEF TypeInv, TypeOK
    <3>3. Orgs' = Orgs
      <4>1. DOMAIN Merged(task[w].settings, org[task[w].org], task[w].updates) = Field
        BY DEF Merged
      <4>2. DOMAIN NoSettings # Field
        BY ConsoleAssumption DEF NoSettings
      <4>3. QED  BY <3>1, <4>1, <4>2 DEF Orgs, TypeInv, TypeOK
    <3>4. There' = There /\ \A o : Owners(o)' = Owners(o)
      BY <3>1 DEF There, Owners
    <3>5. BootsKnow'
      <4> SUFFICES ASSUME NEW v \in Worker, task'[v].op = "boot", task'[v].org \notin Orgs,
                          Orgs # {}
                   PROVE  task'[v].stale
        BY <3>3 DEF BootsKnow
      <4>1. v # w
        BY <3>1, OpsApart DEF Overtakes
      <4>2. task[v].op # "settings"
        <5>1. SUFFICES ASSUME task[v].op = "settings" PROVE FALSE
          OBVIOUS
        <5>2. task[v] \in Tasks /\ task'[v] = [task[v] EXCEPT !.stale = TRUE]
          BY <3>1, <4>1, <5>1, Loaded DEF Overtakes
        <5>3. QED  BY <5>1, <5>2 DEF Tasks
      <4>3. QED  BY <2>2, <3>1, <4>1, <4>2 DEF Overtakes, BootsKnow
    <3>6. QED  BY <2>2, <3>1, <3>3, <3>4, <3>5 DEF OwnerInv, BootsKnow
  <2>13. ASSUME NEW w \in Worker, NEW u, NEW x, UserWritten(w, u, x) PROVE OwnerInv'
    <3>0. /\ Goes(w, Idle) /\ UNCHANGED org
          /\ u \in User /\ x \in Users /\ user' = [user EXCEPT ![u] = x]
          /\ \A v \in There \ {u} : user[v].email # x.email
          /\ u \in There => x.org = user[u].org
          /\ u \in There /\ user[u].role = "owner" /\ x.role # "owner" =>
               "owner taken away" \in mishap'
          /\ mishap \subseteq mishap'
      BY <2>13 DEF UserWritten
    <3>1. Orgs' = Orgs /\ There' = There \cup {u}
      BY <3>0, OneUserWritten DEF Orgs
    <3>2. user'[u] = x /\ \A v \in There \ {u} : user'[v] = user[v]
      BY <3>0 DEF There, TypeInv, TypeOK
    <3>3. BootsKnow'
      BY <2>2, <3>0, <3>1, OpsApart, BootsGoOn
    <3>4. \A v, y \in There' : user'[v].email = user'[y].email => v = y
      <4> SUFFICES ASSUME NEW v \in There', NEW y \in There', user'[v].email = user'[y].email
                   PROVE  v = y
        OBVIOUS
      <4>1. CASE v # u /\ y # u
        BY <2>2, <3>1, <3>2, <4>1
      <4>2. CASE v = u
        BY <3>0, <3>1, <3>2, <4>2
      <4>3. CASE y = u
        BY <3>0, <3>1, <3>2, <4>3
      <4>4. QED  BY <4>1, <4>2, <4>3
    <3>5. ASSUME "owner taken away" \notin mishap', NEW o \in Orgs
          PROVE  Owners(o)' # {}
      <4>1. PICK v \in There : user[v].org = o /\ user[v].role = "owner"
        BY <2>2, <3>0, <3>5 DEF Owners
      <4>2. v \in There' /\ user'[v].org = o /\ user'[v].role = "owner"
        BY <3>0, <3>1, <3>2, <3>5, <4>1
      <4>3. v \in Owners(o)'
        BY <4>2 DEF Owners
      <4>4. QED  BY <4>3
    <3>6. QED  BY <2>2, <3>1, <3>3, <3>4, <3>5 DEF OwnerInv, BootsKnow
  <2>14. ASSUME NEW w \in Worker, SaveOwner(w) PROVE OwnerInv'
    <3> DEFINE t == task[w]
    <3>1. t.user \in There /\ t.value \in Email /\ t.org \in Orgs
      BY <2>14, Loaded, OpsApart DEF SaveOwner, At, Fits, Orgs
    <3>2. CASE UNCHANGED user
      BY <2>4, <2>14, <3>2, OpsApart DEF SaveOwner
    <3>3. CASE ~Taken(t.org, t.value, t.user)
               /\ user' = [user EXCEPT ![t.user].email = t.value]
      <4> DEFINE x == [user[t.user] EXCEPT !.email = t.value]
      <4>1. user[t.user] \in Users /\ t.user \in User
        BY <3>1, RowOf
      <4>2. /\ x \in Users /\ x.org = user[t.user].org /\ x.role = user[t.user].role
            /\ x.email = t.value
        BY <3>1, <4>1 DEF Users
      <4>3. user' = [user EXCEPT ![t.user] = x]
        BY <3>3
      <4>4. \A v \in There \ {t.user} : user[v].email # t.value
        BY <2>11, <3>1, <3>3 DEF Taken
      <4> HIDE DEF x, t
      <4>5. UserWritten(w, t.user, x)
        BY <2>14, <4>1, <4>2, <4>3, <4>4 DEF SaveOwner, UserWritten
      <4>6. QED  BY <2>13, <4>5
    <3>4. QED  BY <2>14, <3>2, <3>3 DEF SaveOwner
  <2>15. ASSUME NEW w \in Worker, SaveUser(w) PROVE OwnerInv'
    <3> DEFINE t == task[w]
    <3>1. t.value \in Email /\ t.org \in Orgs
      BY <2>15, Loaded, OpsApart DEF SaveUser, At, Fits, Orgs
    <3>2. CASE UNCHANGED user
      BY <2>4, <2>15, <3>2, OpsApart DEF SaveUser
    <3>3. ASSUME ~Taken(t.org, t.value, None), NEW u \in User \ There, NEW r \in Role,
                 user' = [user EXCEPT ![u] =
                   [org |-> t.org, email |-> t.value, role |-> r, status |-> "active"]]
          PROVE  OwnerInv'
      <4> DEFINE x == [org |-> t.org, email |-> t.value, role |-> r, status |-> "active"]
      <4>1. x \in Users /\ x.email = t.value
        BY <3>1, RowOf DEF Users
      <4>2. user' = [user EXCEPT ![u] = x]
        BY <3>3
      <4>3. \A v \in There : user[v].email # t.value
        BY <2>11, <3>1, <3>3, RowOf, ConsoleAssumption DEF Taken
      <4> HIDE DEF x, t
      <4>4. UserWritten(w, u, x)
        BY <2>15, <3>3, <4>1, <4>2, <4>3 DEF SaveUser, UserWritten
      <4>5. QED  BY <2>13, <4>4
    <3>4. QED  BY <2>15, <3>2, <3>3 DEF SaveUser
  <2>16. ASSUME NEW w \in Worker, SaveUserChange(w) PROVE OwnerInv'
    <3> DEFINE u == task[w].user
               x == Changed(task[w])
    <3>1. /\ u \in There /\ u \in User /\ x \in Users
          /\ x.org = user[u].org /\ x.email = user[u].email
          /\ user' = [user EXCEPT ![u] = x]
          /\ mishap' = IF user[u].role = "owner" /\ user'[u].role # "owner"
                         THEN mishap \cup {"owner taken away"} ELSE mishap
          /\ Goes(w, Idle) /\ UNCHANGED org
      BY <2>16, ChangedRow, RowOf DEF SaveUserChange
    <3> HIDE DEF u, x
    <3>2. user'[u] = x
      BY <3>1 DEF TypeInv, TypeOK
    <3>3. \A v \in There \ {u} : user[v].email # x.email
      BY <2>2, <3>1
    <3>4. UserWritten(w, u, x)
      BY <3>1, <3>2, <3>3 DEF UserWritten
    <3>5. QED  BY <2>13, <3>4
  <2>17. ASSUME NEW w \in Worker, BootCommit(w) PROVE OwnerInv'
    <3>1. CASE Goes(w, Idle) /\ UNCHANGED <<org, user, mishap>>
      BY <2>4, <3>1, OpsApart
    <3>2. ASSUME NEW u, NEW x, BootMade(w, u, x) PROVE OwnerInv'
      <4>0. PICK o \in Org : o = task[w].org
        BY <3>2 DEF BootMade
      <4>1. task[w].op = "boot"
        BY <2>17 DEF BootCommit, At
      <4>2. o \notin Orgs => Orgs = {}
        BY <2>2, <3>2, <4>0, <4>1 DEF BootMade, BootsKnow
      <4>3. Orgs' = {o} /\ \A v \in There : user[v].org = o
        BY <2>2, <3>2, <4>0, <4>2, RowOf DEF BootMade
      <4>4. There' = There \cup {u} /\ user'[u] = x /\ \A v \in There : user'[v] = user[v]
        BY <3>2, OneUserWritten DEF BootMade, There, TypeInv, TypeOK
      <4>5. \A v \in There : user[v].email # x.email
        BY <3>2, <4>0, <4>3, RowOf, ConsoleAssumption DEF BootMade, Taken
      <4>6. \A v, y \in There' : user'[v].email = user'[y].email => v = y
        <5> SUFFICES ASSUME NEW v \in There', NEW y \in There', user'[v].email = user'[y].email
                     PROVE  v = y
          OBVIOUS
        <5>1. CASE v # u /\ y # u
          BY <2>2, <4>4, <5>1
        <5>2. CASE v = u
          BY <4>4, <4>5, <5>2
        <5>3. CASE y = u
          BY <4>4, <4>5, <5>3
        <5>4. QED  BY <5>1, <5>2, <5>3
      <4>7. u \in Owners(o)'
        BY <3>2, <4>0, <4>4 DEF BootMade, Owners
      <4>8. BootsKnow'
        BY <2>2, <3>2, BootsOvertaken DEF BootMade
      <4>9. QED  BY <4>3, <4>6, <4>7, <4>8 DEF OwnerInv, BootsKnow
    <3>3. QED  BY <2>17, <3>1, <3>2, BootCommits
  <2>18. CASE UNCHANGED vars
    <3>1. Orgs' = Orgs /\ There' = There /\ \A o : Owners(o)' = Owners(o)
      BY <2>18 DEF vars, Orgs, There, Owners
    <3>2. QED  BY <2>2, <2>18, <3>1 DEF vars, OwnerInv, BootsKnow
  <2>19. QED
    BY <2>5, <2>6, <2>7, <2>8, <2>9, <2>10, <2>12, <2>14, <2>15, <2>16, <2>17, <2>18 DEF Next
<1>3. QED  BY <1>1, <1>2, TypeInvariant, PTL DEF Spec

LEMMA AtMostOne ==
  ASSUME NEW S, \A x, y \in S : x = y
  PROVE  Cardinality(S) <= 1
<1>1. CASE S = {}
  BY <1>1, FS_EmptySet
<1>2. CASE S # {}
  <2>1. PICK x \in S : S = {x}
    BY <1>2
  <2>2. QED  BY <2>1, FS_Singleton
<1>3. QED  BY <1>1, <1>2

LEMMA OnlyIsFirst ==
  ASSUME NEW o \in Nat, Orgs = {o}
  PROVE  o \in First
BY DEF First

(* Unless first boots overlap there is one organization, an address is one *)
(* user's, and an owner is there unless one was given another role         *)
(* (ensure_owner_bootstrapped, update_user_role).                          *)
THEOREM OwnerStands == Spec => []OwnerThere
<1>1. TypeInv /\ OwnerInv => OwnerThere
  <2> SUFFICES ASSUME TypeInv, OwnerInv, "boots overlapped" \notin mishap
               PROVE  /\ Cardinality(Orgs) <= 1
                      /\ \A u, v \in There : user[u].email = user[v].email => u = v
                      /\ Orgs # {} /\ "owner taken away" \notin mishap =>
                           \E o \in First : Owners(o) # {}
    BY DEF OwnerThere
  <2>1. Cardinality(Orgs) <= 1
    BY AtMostOne DEF OwnerInv
  <2>2. \A u, v \in There : user[u].email = user[v].email => u = v
    BY DEF OwnerInv
  <2>3. ASSUME "owner taken away" \notin mishap, NEW o \in Orgs
        PROVE  o \in First /\ Owners(o) # {}
    <3>1. Orgs = {o} /\ Owners(o) # {}
      BY <2>3 DEF OwnerInv
    <3>2. o \in Nat
      BY RowOf, ConsoleAssumption
    <3>3. QED  BY <3>1, <3>2, OnlyIsFirst
  <2>4. QED  BY <2>1, <2>2, <2>3
<1>2. QED  BY <1>1, TypeInvariant, OwnerInvariant, PTL
=============================================================================
