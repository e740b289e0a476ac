-------------------------------- MODULE Owners --------------------------------
(***************************************************************************)
(* The admin team (store.go's role management, handler/setup.go, admin.go's *)
(* team members): first-run setup, ADMIN_EMAILS at startup and at sign-in,  *)
(* and owners who invite, demote and remove one another at the same time.   *)
(* Each statement or transaction is a step.                                 *)
(***************************************************************************)
EXTENDS Naturals, FiniteSetsExt

CONSTANTS
  Users,
  Listed,     \* users in ADMIN_EMAILS
  First,      \* the first of them
  Changes,    \* requests of owners: invites and removals
  Setups,     \* calls of Initialize
  MaxBoots    \* bound: server starts

OwnersAssumption == First \in Users /\ Listed \subseteq Users /\ MaxBoots \in Nat

VARIABLES
  roles,      \* user -> role; "none" has no account yet
  changes,    \* request -> where it stands, its actor, target and role
  setups,     \* call -> where it stands
  logins,     \* user -> its sign-in, and whether it saw an owner
  boot,       \* the server that is starting
  installed,  \* setup_complete, or a product
  boots,
  owned,      \* history: there was an owner
  done        \* history: setups that went through

vars == <<roles, changes, setups, logins, boot, installed, boots, owned, done>>

Roles == {"none", "user", "admin", "owner"}
Seen == [pc : {"idle", "promote", "sync", "ensure"}, owner : BOOLEAN]
ChangeType == [pc : {"new", "set", "done"}, actor : Users, target : Users, role : {"user", "admin", "owner"}]

TypeOK ==
  /\ roles \in [Users -> Roles]
  /\ changes \in [Changes -> ChangeType]
  /\ setups \in [Setups -> {"new", "tx", "done"}]
  /\ logins \in [Users -> Seen] /\ boot \in Seen
  /\ installed \in BOOLEAN /\ boots \in 0..MaxBoots /\ owned \in BOOLEAN /\ done \in Nat

Idle == [pc |-> "idle", owner |-> FALSE]

\* A new install, or one from before setup existed whose admins never became
\* owner.
Init ==
  /\ roles \in {[u \in Users |-> "none"], [u \in Users |-> IF u = First THEN "none" ELSE "admin"]}
  /\ changes = [c \in Changes |-> [pc |-> "new", actor |-> First, target |-> First, role |-> "user"]]
  /\ setups = [s \in Setups |-> "new"] /\ logins = [u \in Users |-> Idle] /\ boot = Idle
  /\ installed = FALSE /\ boots = 0 /\ owned = FALSE /\ done = 0

-----------------------------------------------------------------------------
Is(role) == {u \in Users : roles[u] = role}
HasOwner == Is("owner") # {}
SetRoles(f) == roles' = f /\ owned' = (owned \/ \E u \in Users : f[u] = "owner")

SetupNeeded == ~installed /\ Is("owner") \cup Is("admin") = {}

\* Initialize asks first, outside its transaction.
CheckSetup(s) ==
  /\ setups[s] = "new"
  /\ setups' = [setups EXCEPT ![s] = IF SetupNeeded THEN "tx" ELSE "done"]
  /\ UNCHANGED <<roles, changes, logins, boot, installed, boots, owned, done>>

\* Under the setup lock: asked again, then the owner, the product and
\* setup_complete in one transaction.  A setup that finds the lock taken is
\* refused.
Initialize(s, u) ==
  /\ setups[s] = "tx" /\ (Listed # {} => u \in Listed)
  /\ setups' = [setups EXCEPT ![s] = "done"]
  /\ \/ /\ SetupNeeded
        /\ SetRoles([roles EXCEPT ![u] = "owner"]) /\ installed' = TRUE /\ done' = done + 1
     \/ UNCHANGED <<roles, installed, owned, done>>
  /\ UNCHANGED <<changes, logins, boot, boots>>

-----------------------------------------------------------------------------
(* ADMIN_EMAILS.  PromoteAdminEmail and EnsureOwner look for an owner and   *)
(* write in one statement, which does not see what commits meanwhile.       *)

\* loginUser: the account, and for a plain user in ADMIN_EMAILS the start of
\* PromoteAdminEmail.
Login(u) ==
  /\ logins[u] = Idle
  /\ roles' = [roles EXCEPT ![u] = IF @ = "none" THEN "user" ELSE @]
  /\ logins' = [logins EXCEPT ![u] = IF u \in Listed /\ roles'[u] = "user"
                                     THEN [pc |-> "promote", owner |-> HasOwner] ELSE Idle]
  /\ UNCHANGED <<changes, setups, boot, installed, boots, owned, done>>

PromoteAdminEmail(u) ==
  /\ logins[u].pc = "promote"
  /\ SetRoles([roles EXCEPT ![u] = IF @ # "user" THEN @ ELSE IF logins[u].owner THEN "admin" ELSE "owner"])
  /\ logins' = [logins EXCEPT ![u] = Idle]
  /\ UNCHANGED <<changes, setups, boot, installed, boots, done>>

StartServer ==
  /\ boot = Idle /\ boots < MaxBoots
  /\ boot' = [pc |-> IF Listed = {} THEN "ensure" ELSE "sync", owner |-> HasOwner]
  /\ boots' = boots + 1
  /\ UNCHANGED <<roles, changes, setups, logins, installed, owned, done>>

\* Listed users that are plain users become admins, the first one owner.
SyncAdminEmails ==
  /\ boot.pc = "sync"
  /\ SetRoles([u \in Users |-> IF u \in Listed /\ roles[u] = "user"
                               THEN IF u = First /\ ~boot.owner THEN "owner" ELSE "admin" ELSE roles[u]])
  /\ boot' = [pc |-> "ensure", owner |-> \E u \in Users : roles'[u] = "owner"]
  /\ UNCHANGED <<changes, setups, logins, installed, boots, done>>

EnsureOwner ==
  LET first == IF First \in Is("admin") THEN {First}
               ELSE IF Listed \cap Is("admin") # {} THEN Listed \cap Is("admin") ELSE Is("admin")
  IN
  /\ boot.pc = "ensure" /\ boot' = Idle
  /\ \/ ~boot.owner /\ \E u \in first : SetRoles([roles EXCEPT ![u] = "owner"])
     \/ (boot.owner \/ first = {}) /\ UNCHANGED <<roles, owned>>
  /\ UNCHANGED <<changes, setups, logins, installed, boots, done>>

-----------------------------------------------------------------------------
\* The handlers' own check: the actor is an owner, and not the target.
Asks(c, actor, target, role) ==
  /\ changes[c].pc = "new" /\ roles[actor] = "owner" /\ actor # target
  /\ changes' = [changes EXCEPT ![c] = [pc |-> "set", actor |-> actor, target |-> target, role |-> role]]
  /\ UNCHANGED <<setups, logins, boot, installed, boots, owned, done>>

\* An address not seen yet gets a plain account first (CreatePlaceholderUser).
InviteTeamMember(c, actor, target, role) ==
  /\ Asks(c, actor, target, role)
  /\ roles' = [roles EXCEPT ![target] = IF @ = "none" THEN "user" ELSE @]

RemoveTeamMember(c, actor, target) ==
  /\ roles[target] \in {"admin", "owner"}
  /\ Asks(c, actor, target, "user")
  /\ UNCHANGED roles

\* MUTANT: what the handler found before the lock is relied on.
Allowed_Asked(ch) == TRUE

\* SetRoleAtomic's checks, under the team lock.
Allowed(ch) ==
  roles[ch.actor] = "owner" /\ (roles[ch.target] = "owner" /\ ch.role # "owner" => Cardinality(Is("owner")) > 1)

SetRoleAtomic(c) ==
  LET ch == changes[c] IN
  /\ ch.pc = "set"
  /\ changes' = [changes EXCEPT ![c].pc = "done"]
  /\ \/ Allowed(ch) /\ SetRoles([roles EXCEPT ![ch.target] = ch.role])
     \/ ~Allowed(ch) /\ UNCHANGED <<roles, owned>>
  /\ UNCHANGED <<setups, logins, boot, installed, boots, done>>

-----------------------------------------------------------------------------
Next ==
  \/ \E s \in Setups : CheckSetup(s) \/ \E u \in Users : Initialize(s, u)
  \/ \E u \in Users : Login(u) \/ PromoteAdminEmail(u)
  \/ StartServer \/ SyncAdminEmails \/ EnsureOwner
  \/ \E c \in Changes : SetRoleAtomic(c)
  \/ \E c \in Changes, a, t \in Users :
       RemoveTeamMember(c, a, t) \/ \E role \in {"admin", "owner"} : InviteTeamMember(c, a, t, role)

Spec == Init /\ [][Next]_vars

-----------------------------------------------------------------------------
\* An install that has an owner never loses its last one, whatever owners,
\* sign-ins and starting servers do at once (SetRoleAtomic, ErrLastOwner), and
\* setup, which asks for no sign-in, goes through once.
OwnedForGood == (owned => HasOwner) /\ done <= 1

\* A setup that went through left the install set up.
OwnersInv == TypeOK /\ OwnedForGood /\ (done = 1 => installed)
=============================================================================
