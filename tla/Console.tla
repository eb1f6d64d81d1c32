-------------------------------- MODULE Console --------------------------------
(***************************************************************************)
(* The organization and its people (server/app:                            *)
(* services/organization_service.py, routers/auth.py, users.py and         *)
(* organization.py).                                                       *)
(*                                                                         *)
(* A process makes an organization and its owner on the first boot.  A     *)
(* request of an owner, or of whoever holds the operator key, loads the    *)
(* rows it is about and writes them later, only the columns it has         *)
(* changed.  Boots and requests commit in between.                         *)
(***************************************************************************)
EXTENDS Naturals, FiniteSets

CONSTANTS
  Org,       \* organizations there may come to be, in the order of created_at
  User,      \* users there may come to be
  Email,     \* addresses
  OwnerEmail,\* settings.owner_email
  Field,     \* fields of the organization's settings
  Column,    \* those that have a column of their own
  Value,     \* what a field may hold
  Default,   \* and holds at first
  Worker,    \* boots and requests that overlap
  None

ASSUME ConsoleAssumption ==
  /\ Org \subseteq Nat
  /\ OwnerEmail \in Email
  /\ Column \subseteq Field /\ Field # {}
  /\ Default \in Value
  /\ None \notin Org \cup User \cup Email
  /\ None \notin [org : Org, email : Email, role : {"owner", "other"},
                  status : {"active", "disabled"}]

VARIABLES
  org,      \* organizations: the settings of each; NoSettings: no such row
  user,     \* users; None: no such row
  task,     \* boots and requests in progress
  mishap    \* history: first boots overlapped, an owner was given another role

vars == <<org, user, task, mishap>>

-----------------------------------------------------------------------------
(* State *)

(* Of the roles (permissions.py) the owner's holds every permission these  *)
(* operations ask for, and no other role holds any of them.                *)
Role == {"owner", "other"}

Users == [org : Org, email : Email, role : Role, status : {"active", "disabled"}]

Settings == [Field -> Value]

NoSettings == [f \in {} |-> Default]

Mishap == {"boots overlapped", "owner taken away"}

Operation == {"boot", "settings", "setup", "create", "role", "status"}

(* A boot or request: the rows it loaded and what it is to write.          *)
Idle == [op |-> "none", step |-> "idle", org |-> None, user |-> None, row |-> None,
         settings |-> NoSettings, updates |-> NoSettings, value |-> None, stale |-> FALSE]

(* The fields one call of update_settings changes, and to what.            *)
Updates == UNION { [F -> Value] : F \in (SUBSET Field) \ {{}} }

Tasks ==
  [op : Operation, step : {"loaded", "ownerless"}, org : Org, user : User \cup {None},
   row : Users \cup {None}, settings : Settings \cup {NoSettings},
   updates : Updates \cup {NoSettings},
   value : Email \cup Role \cup {"active", "disabled"} \cup {None},
   stale : BOOLEAN]

Init ==
  /\ org = [o \in Org |-> NoSettings]
  /\ user = [u \in User |-> None]
  /\ task = [w \in Worker |-> Idle]
  /\ mishap = {}

Orgs == { o \in Org : org[o] # NoSettings }

(* order_by(created_at).limit(1): the first organization, if there is one. *)
First == { o \in Orgs : \A p \in Orgs : o <= p }

There == { u \in User : user[u] # None }

Owners(o) == { u \in There : user[u].org = o /\ user[u].role = "owner" }

(* uq_users_organization_email *)
Taken(o, e, but) == \E u \in There \ {but} : user[u].org = o /\ user[u].email = e

At(w, op, step) == task[w].op = op /\ task[w].step = step

Goes(w, t) == task' = [task EXCEPT ![w] = t]

(* w ends, and the tasks of such an operation no longer know what is there.*)
Overtakes(w, op) ==
  task' = [x \in Worker |-> IF x = w THEN Idle
                            ELSE IF task[x].op = op THEN [task[x] EXCEPT !.stale = TRUE]
                            ELSE task[x]]

OnlyReads == UNCHANGED <<org, user, mishap>>

-----------------------------------------------------------------------------
(* The first boot *)

(* ensure_owner_bootstrapped looks for the organization, and adds one if   *)
(* there is none: its created_at is the start of the transaction.          *)
BootReadOrg(w) ==
  /\ task[w] = Idle
  /\ \E o \in (IF Orgs # {} THEN First
               ELSE { x \in Org : \A v \in Worker : task[v].op = "boot" => task[v].org < x }) :
       Goes(w, [Idle EXCEPT !.op = "boot", !.step = "loaded", !.org = o])
  /\ OnlyReads

(* An owner, if it finds one, is all it wants.                             *)
BootReadOwner(w) ==
  /\ At(w, "boot", "loaded")
  /\ Goes(w, IF Owners(task[w].org) # {} THEN Idle ELSE [task[w] EXCEPT !.step = "ownerless"])
  /\ OnlyReads

(* The owner and the organization are committed together.  If somebody has *)
(* the owner's address, both are rolled back, and the error is logged.     *)
BootCommit(w) ==
  LET o == task[w].org
  IN  /\ At(w, "boot", "ownerless")
      /\ \/ /\ ~Taken(o, OwnerEmail, None)
            /\ \E u \in User \ There :
                 user' = [user EXCEPT ![u] =
                   [org |-> o, email |-> OwnerEmail, role |-> "owner", status |-> "active"]]
            /\ org' = IF o \in Orgs THEN org
                      ELSE [org EXCEPT ![o] = [f \in Field |-> Default]]
            /\ Overtakes(w, "boot")
            /\ mishap' = IF task[w].stale /\ o \notin Orgs
                           THEN mishap \cup {"boots overlapped"} ELSE mishap
         \/ /\ Taken(o, OwnerEmail, None)
            /\ Goes(w, Idle)
            /\ UNCHANGED <<org, user, mishap>>

-----------------------------------------------------------------------------
(* Settings *)

(* get_current_organization takes the first for the operator key, and for  *)
(* a session or an API key its caller's own, any of those there are.  What *)
(* update_settings is to write is written only if it differs from what it  *)
(* has loaded, so a field that does not change is left out.                *)
LoadSettings(w) ==
  /\ task[w] = Idle
  /\ \E o \in Orgs, u \in Updates :
       /\ \A f \in DOMAIN u : u[f] # org[o][f]
       /\ Goes(w, [Idle EXCEPT !.op = "settings", !.step = "loaded", !.org = o,
                               !.settings = org[o], !.updates = u])
  /\ OnlyReads

(* The fields of one tab make up the new blob.                             *)
MergedOver(loaded, now, u) ==
  [x \in Field |-> IF x \in DOMAIN u THEN u[x] ELSE IF x \in Column THEN now[x] ELSE Default]

(* It writes columns, and the blob of all the fields without one if one of *)
(* them changes.                                                           *)
Merged(loaded, now, u) ==
  [x \in Field |-> IF x \in DOMAIN u THEN u[x]
                   ELSE IF x \in Column \/ DOMAIN u \subseteq Column THEN now[x]
                   ELSE loaded[x]]

SaveSettings(w) ==
  LET o == task[w].org
  IN  /\ At(w, "settings", "loaded")
      /\ org' = [org EXCEPT ![o] = Merged(task[w].settings, @, task[w].updates)]
      /\ Overtakes(w, "settings")
      /\ UNCHANGED <<user, mishap>>

-----------------------------------------------------------------------------
(* People *)

(* setup_owner takes one owner of the organization, whichever, and an      *)
(* address that no other of its users has; create_user an unused one.      *)
LoadAddress(w) ==
  /\ task[w] = Idle
  /\ \E o \in Orgs, e \in Email :
       \/ \E u \in Owners(o) :
            /\ ~Taken(o, e, u)
            /\ Goes(w, [Idle EXCEPT !.op = "setup", !.step = "loaded", !.org = o, !.user = u,
                                    !.value = e])
       \/ /\ ~Taken(o, e, None)
          /\ Goes(w, [Idle EXCEPT !.op = "create", !.step = "loaded", !.org = o, !.value = e])
  /\ OnlyReads

(* The claim of the account: an address and a password.  An address taken  *)
(* since is refused by the index.                                          *)
SaveOwner(w) ==
  LET t == task[w]
  IN  /\ At(w, "setup", "loaded")
      /\ user' = IF Taken(t.org, t.value, t.user) THEN user
                 ELSE [user EXCEPT ![t.user].email = t.value]
      /\ Goes(w, Idle)
      /\ UNCHANGED <<org, mishap>>

(* The address is not looked at again, nor by an index.                    *)
SaveUserUnchecked(w) ==
  LET t == task[w]
  IN  /\ At(w, "create", "loaded")
      /\ \E u \in User \ There, r \in Role :
           user' = [user EXCEPT ![u] =
             [org |-> t.org, email |-> t.value, role |-> r, status |-> "active"]]
      /\ Goes(w, Idle)
      /\ UNCHANGED <<org, mishap>>

(* A new user with a temporary password that its creator is told.          *)
SaveUser(w) ==
  LET t == task[w]
  IN  /\ At(w, "create", "loaded")
      /\ IF Taken(t.org, t.value, None) THEN UNCHANGED user
         ELSE \E u \in User \ There, r \in Role :
                user' = [user EXCEPT ![u] =
                  [org |-> t.org, email |-> t.value, role |-> r, status |-> "active"]]
      /\ Goes(w, Idle)
      /\ UNCHANGED <<org, mishap>>

(* update_user_role and update_user_status load the user, also the last    *)
(* owner.  One that changes nothing is left out, as above.                 *)
LoadUser(w) ==
  /\ task[w] = Idle
  /\ \E o \in Orgs, u \in There :
       /\ user[u].org = o
       /\ \/ \E r \in Role \ {user[u].role} :
                Goes(w, [Idle EXCEPT !.op = "role", !.step = "loaded", !.org = o,
                                   !.user = u, !.row = user[u], !.value = r])
          \/ \E s \in {"active", "disabled"} \ {user[u].status} :
               Goes(w, [Idle EXCEPT !.op = "status", !.step = "loaded", !.org = o,
                                    !.user = u, !.row = user[u], !.value = s])
  /\ OnlyReads

(* Whatever is asked for is written as a status.                           *)
ChangedRaw(t) == [user[t.user] EXCEPT !.status = t.value]

(* The row as it was loaded, written back whole.                           *)
ChangedWhole(t) ==
  IF t.op = "role" THEN [t.row EXCEPT !.role = t.value] ELSE [t.row EXCEPT !.status = t.value]

(* The row as it is, with the one column written.                          *)
Changed(t) ==
  IF t.op = "role" THEN [user[t.user] EXCEPT !.role = t.value]
  ELSE [user[t.user] EXCEPT !.status = t.value]

SaveUserChange(w) ==
  LET t == task[w]
  IN  /\ t.op \in {"role", "status"}
      /\ user' = [user EXCEPT ![t.user] = Changed(t)]
      /\ Goes(w, Idle)
      /\ mishap' = IF user[t.user].role = "owner" /\ user'[t.user].role # "owner"
                     THEN mishap \cup {"owner taken away"} ELSE mishap
      /\ UNCHANGED org

(* A statement fails, or the process stops.                                *)
Abort(w) ==
  /\ task[w] # Idle
  /\ Goes(w, Idle)
  /\ OnlyReads

Next ==
  \/ \E w \in Worker :
       \/ BootReadOrg(w) \/ BootReadOwner(w) \/ BootCommit(w)
       \/ LoadSettings(w) \/ SaveSettings(w)
       \/ LoadAddress(w) \/ SaveOwner(w) \/ SaveUser(w)
       \/ LoadUser(w) \/ SaveUserChange(w) \/ Abort(w)

Spec == Init /\ [][Next]_vars

-----------------------------------------------------------------------------
(* Properties *)

(* Type correctness.                                                       *)
TypeOK ==
  /\ org \in [Org -> Settings \cup {NoSettings}]
  /\ user \in [User -> Users \cup {None}]
  /\ task \in [Worker -> Tasks \cup {Idle}]
  /\ mishap \subseteq Mishap

(* Unless first boots overlap, there is one organization, and an address   *)
(* belongs to one user, so that login finds the account that was claimed;  *)
(* and it has an owner unless one was given another role.  (Boots whose    *)
(* transactions overlap make an organization each, whichever started first *)
(* is the one from then on, and the owners share an address.)              *)
OwnerThere ==
  "boots overlapped" \notin mishap =>
    /\ Cardinality(Orgs) <= 1
    /\ \A u, v \in There : user[u].email = user[v].email => u = v
    /\ Orgs # {} /\ "owner taken away" \notin mishap => \E o \in First : Owners(o) # {}

(* "updating one tab's fields never clobbers another's" (update_settings), *)
(* and a change of a user's role, status or address none but that: a       *)
(* disabled or demoted user does not come back by a request for something  *)
(* else that had loaded the row before.  Of the settings an update writes  *)
(* more than its fields only if another was saved since it loaded them.    *)
NothingClobbered ==
  [][/\ \A o \in Orgs, f \in Field :
          org'[o][f] # org[o][f] =>
            \E w \in Worker :
              task[w].op = "settings" /\ (f \in DOMAIN task[w].updates \/ task[w].stale)
     /\ \A u \in There : user'[u] # user[u] =>
          \E w \in Worker :
            /\ task[w].user = u
            /\ \/ task[w].op = "role" /\ user'[u] = [user[u] EXCEPT !.role = task[w].value]
               \/ task[w].op = "status" /\ user'[u] = [user[u] EXCEPT !.status = task[w].value]
               \/ task[w].op = "setup" /\ user'[u] = [user[u] EXCEPT !.email = task[w].value]]_vars
=============================================================================
