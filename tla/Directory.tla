------------------------------ MODULE Directory ------------------------------
(***************************************************************************)
(* The users, roles and permissions of the server, in SQLite tables with   *)
(* foreign keys.  A start of the server imports the JSON files of an older *)
(* version, renames them, and creates what is missing of the default       *)
(* permissions, roles and the first administrator, step by step.  Then     *)
(* administrators edit: a request first looks whether the roles or         *)
(* permissions it names exist, and replaces a list in one transaction.     *)
(* Names, passwords, the audit log and tokens are not modelled.            *)
(***************************************************************************)
EXTENDS Naturals, FiniteSets

CONSTANTS
  Users, Roles, Permissions,
  Admin, AdminRole,            \* what seed.py creates first
  BasicPermissions,            \* of the other default roles
  LegacyUsers, LegacyRoles, LegacyPermissions,  \* what the JSON files hold
  MaxDirEdits,                 \* bound on requests of administrators
  MaxBoots                     \* bound on starts of the server

ASSUME DirectoryAssumption ==
  /\ Admin \in Users \ LegacyUsers
  /\ AdminRole \in Roles
  /\ LegacyUsers \subseteq Users /\ LegacyRoles \subseteq Roles
  /\ LegacyPermissions \subseteq Permissions
  /\ BasicPermissions \subseteq Permissions
  /\ MaxDirEdits \in Nat /\ MaxBoots \in Nat

VARIABLES
  users, roles, permissions,  \* the rows of the three tables
  userRoles, rolePermissions, \* the rows of the tables that link them
  files,        \* [Files -> the JSON file is absent, present or renamed]
  boot,         \* how far the start of the server has come
  request,      \* an edit whose names have been looked up, or NoRequest
  importFailed, \* an import was rolled back (history)
  brokenOff,    \* a start ended before the administrator had a role (history)
  dirEdits, boots

tables == <<users, roles, permissions, userRoles, rolePermissions>>
dirCounts == <<dirEdits, boots>>
directoryVars == <<tables, files, boot, request, importFailed, brokenOff,
                   dirCounts>>

Files == {"permissions", "roles", "users"}
BootSteps == {"import", "rename", "seed", "admin", "up"}
NoRequest == [op |-> "none"]
Requests == [op : {"user"}, of : Users, list : SUBSET Roles, new : BOOLEAN]
              \cup [op : {"role"}, of : Roles, list : SUBSET Permissions,
                    new : BOOLEAN]

(* The foreign keys: links name rows that are there.                       *)
LinksNameRows ==
  /\ userRoles \subseteq users \X roles
  /\ rolePermissions \subseteq roles \X permissions

DirectoryTypeOK ==
  /\ users \subseteq Users /\ roles \subseteq Roles
  /\ permissions \subseteq Permissions
  /\ LinksNameRows
  /\ files \in [Files -> {"absent", "present", "renamed"}]
  /\ boot \in BootSteps
  /\ request \in Requests \cup {NoRequest}
  /\ importFailed \in BOOLEAN /\ brokenOff \in BOOLEAN
  /\ dirEdits \in 0..MaxDirEdits /\ boots \in 0..MaxBoots

DirectoryInit ==
  /\ users = {} /\ roles = {} /\ permissions = {}
  /\ userRoles = {} /\ rolePermissions = {}
  /\ files \in [Files -> {"absent", "present"}]
  /\ boot = "import"
  /\ request = NoRequest
  /\ importFailed = FALSE /\ brokenOff = FALSE
  /\ dirEdits = 0 /\ boots = 0

-----------------------------------------------------------------------------
(* Every legacy user has every legacy role, which grants every legacy      *)
(* permission: more than that no property tells apart.                     *)
Imported(file, rows, legacy) ==
  IF rows = {} /\ files[file] = "present" THEN legacy ELSE {}
NewPermissions == Imported("permissions", permissions, LegacyPermissions)
NewRoles == Imported("roles", roles, LegacyRoles)
NewUsers == Imported("users", users, LegacyUsers)

(* One transaction.  A role that grants a missing permission breaks a      *)
(* foreign key, which INSERT OR IGNORE does not ignore, and rolls all back; *)
(* the link of a user to a missing role is left out.                       *)
ImportBreaks ==
  /\ NewRoles # {}
  /\ ~(LegacyPermissions \subseteq permissions \cup NewPermissions)
BootGoes(step) ==
  /\ boot' = step
  /\ UNCHANGED <<request, brokenOff, dirCounts>>

(* Mutant: the users are imported before the roles they name.              *)
ImportUsersFirst ==
  /\ boot = "import"
  /\ ~ImportBreaks
  /\ permissions' = permissions \cup NewPermissions
  /\ roles' = roles \cup NewRoles
  /\ users' = users \cup NewUsers
  /\ rolePermissions' = rolePermissions \cup (NewRoles \X LegacyPermissions)
  /\ userRoles' = userRoles \cup (NewUsers \X (LegacyRoles \cap roles))
  /\ UNCHANGED <<files, importFailed>>
  /\ BootGoes("rename")
Import ==
  /\ boot = "import"
  /\ ~ImportBreaks
  /\ permissions' = permissions \cup NewPermissions
  /\ roles' = roles \cup NewRoles
  /\ users' = users \cup NewUsers
  /\ rolePermissions' = rolePermissions \cup (NewRoles \X LegacyPermissions)
  /\ userRoles' = userRoles \cup (NewUsers \X (LegacyRoles \cap roles'))
  /\ UNCHANGED <<files, importFailed>>
  /\ BootGoes("rename")

ImportFails ==
  /\ boot = "import"
  /\ ImportBreaks
  /\ importFailed' = TRUE
  /\ UNCHANGED <<tables, files>>
  /\ BootGoes("seed")

RenameFile(f) ==
  /\ boot = "rename"
  /\ files[f] = "present"
  /\ files' = [files EXCEPT ![f] = "renamed"]
  /\ UNCHANGED <<tables, importFailed>>
  /\ BootGoes("rename")

(* A rename that fails is passed over.                                     *)
RenameEnds ==
  /\ boot = "rename"
  /\ UNCHANGED <<tables, files, importFailed>>
  /\ BootGoes("seed")

-----------------------------------------------------------------------------
(* seed_default_roles: permissions and then roles, each in a transaction   *)
(* of its own; what exists is left as it is.  An administrator's role is   *)
(* created first, with every default permission.                           *)
SeedPermission ==
  /\ boot = "seed"
  /\ \E p \in Permissions \ permissions : permissions' = permissions \cup {p}
  /\ UNCHANGED <<users, roles, userRoles, rolePermissions, files,
                 importFailed>>
  /\ BootGoes("seed")

SeededGrants(r) == IF r = AdminRole THEN Permissions ELSE BasicPermissions
SeedRole ==
  /\ boot = "seed"
  /\ permissions = Permissions
  /\ \E r \in Roles \ roles :
       /\ r # AdminRole => AdminRole \in roles
       /\ roles' = roles \cup {r}
       /\ rolePermissions' = rolePermissions \cup ({r} \X SeededGrants(r))
  /\ UNCHANGED <<users, permissions, userRoles, files, importFailed>>
  /\ BootGoes("seed")

(* seed_default_user: an account when there is none, then its role.        *)
(* Mutant: an account counts as an administrator's without its role.       *)
SeedUserOnly ==
  /\ boot = "seed"
  /\ permissions = Permissions /\ roles = Roles
  /\ users' = IF users = {} THEN {Admin} ELSE users
  /\ UNCHANGED <<roles, permissions, userRoles, rolePermissions, files,
                 importFailed>>
  /\ BootGoes("up")
SeedUser ==
  /\ boot = "seed"
  /\ permissions = Permissions /\ roles = Roles
  /\ users' = IF users = {} THEN {Admin} ELSE users
  /\ UNCHANGED <<roles, permissions, userRoles, rolePermissions, files,
                 importFailed>>
  /\ BootGoes(IF users = {} THEN "admin" ELSE "up")

SeedAdmin ==
  /\ boot = "admin"
  /\ userRoles' = userRoles \cup {<<Admin, AdminRole>>}
  /\ UNCHANGED <<users, roles, permissions, rolePermissions, files,
                 importFailed>>
  /\ BootGoes("up")

(* The server ends, in whatever it was doing, and is started again.        *)
Reboot ==
  /\ boots < MaxBoots
  /\ boots' = boots + 1
  /\ boot' = "import"
  /\ request' = NoRequest
  /\ brokenOff' = (brokenOff \/ boot = "admin")
  /\ UNCHANGED <<tables, files, importFailed, dirEdits>>

-----------------------------------------------------------------------------
(* Requests of administrators.  Identifiers are never used twice, so no    *)
(* request under way means a row that was created after it began.          *)
Edits ==
  /\ boot = "up"
  /\ dirEdits < MaxDirEdits
  /\ dirEdits' = dirEdits + 1
  /\ UNCHANGED <<files, boot, importFailed, brokenOff, boots>>
Names(x) == request # NoRequest /\ (request.of = x \/ x \in request.list)

(* A new account or role, or a new list for an old one: what the list      *)
(* names is looked up.                                                     *)
AskForUser(u, list) ==
  /\ Edits
  /\ request = NoRequest /\ list \subseteq roles
  /\ request' =
       [op |-> "user", of |-> u, list |-> list, new |-> u \notin users]
  /\ UNCHANGED tables
AskForRole(r, list) ==
  /\ Edits
  /\ request = NoRequest /\ list \subseteq permissions
  /\ request' =
       [op |-> "role", of |-> r, list |-> list, new |-> r \notin roles]
  /\ UNCHANGED tables

(* Then the row is written and its links replaced, in one transaction: a   *)
(* link to what has been deleted since rolls all of it back, and a row     *)
(* that has been deleted since is not created again.                       *)
Linked(links, x, list) == {l \in links : l[1] # x} \cup ({x} \X list)
Closed ==
  /\ request' = NoRequest
  /\ UNCHANGED <<files, boot, importFailed, brokenOff, dirCounts>>

WriteUser ==
  LET u == request.of
      done == /\ request.list \subseteq roles
              /\ request.new \/ u \in users
  IN
  /\ request.op = "user"
  /\ users' = IF done THEN users \cup {u} ELSE users
  /\ userRoles' =
       IF done THEN Linked(userRoles, u, request.list) ELSE userRoles
  /\ UNCHANGED <<roles, permissions, rolePermissions>>
  /\ Closed

WriteRole ==
  LET r == request.of
      done == /\ request.list \subseteq permissions
              /\ request.new \/ r \in roles
  IN
  /\ request.op = "role"
  /\ roles' = IF done THEN roles \cup {r} ELSE roles
  /\ rolePermissions' =
       IF done THEN Linked(rolePermissions, r, request.list)
       ELSE rolePermissions
  /\ UNCHANGED <<users, permissions, userRoles>>
  /\ Closed

(* Deletions, which cascade.  Nobody deletes the own account; that an      *)
(* account deleted meanwhile may still ask is left out.                    *)
DeleteUser(u) ==
  /\ Edits
  /\ u \in users /\ users # {u}
  /\ users' = users \ {u}
  /\ userRoles' = {l \in userRoles : l[1] # u}
  /\ UNCHANGED <<roles, permissions, rolePermissions, request>>

(* Mutant: roles are deleted without a cascade to the users that had them. *)
DeleteRoleOnly(r) ==
  /\ Edits
  /\ r \in roles
  /\ roles' = roles \ {r}
  /\ rolePermissions' = {l \in rolePermissions : l[1] # r}
  /\ UNCHANGED <<users, permissions, userRoles, request>>
DeleteRole(r) ==
  /\ Edits
  /\ r \in roles
  /\ roles' = roles \ {r}
  /\ userRoles' = {l \in userRoles : l[2] # r}
  /\ rolePermissions' = {l \in rolePermissions : l[1] # r}
  /\ UNCHANGED <<users, permissions, request>>

CreatePermission(p) ==
  /\ Edits
  /\ p \notin permissions /\ ~Names(p)
  /\ permissions' = permissions \cup {p}
  /\ UNCHANGED <<users, roles, userRoles, rolePermissions, request>>
DeletePermission(p) ==
  /\ Edits
  /\ permissions' = permissions \ {p} /\ p \in permissions
  /\ rolePermissions' = {l \in rolePermissions : l[2] # p}
  /\ UNCHANGED <<users, roles, userRoles, request>>

-----------------------------------------------------------------------------
BootStep ==
  \/ Import \/ ImportFails \/ RenameEnds \/ \E f \in Files : RenameFile(f)
  \/ SeedPermission \/ SeedRole \/ SeedUser \/ SeedAdmin
AdminStep ==
  \/ \E u \in Users :
       DeleteUser(u) \/ \E list \in SUBSET Roles : AskForUser(u, list)
  \/ \E r \in Roles :
       DeleteRole(r) \/ \E list \in SUBSET Permissions : AskForRole(r, list)
  \/ \E p \in Permissions : CreatePermission(p) \/ DeletePermission(p)
  \/ WriteUser \/ WriteRole

DirectoryNext == BootStep \/ AdminStep \/ Reboot

DirectorySpec == DirectoryInit /\ [][DirectoryNext]_directoryVars

-----------------------------------------------------------------------------
(* A JSON file is renamed when its rows are in the tables and not before,  *)
(* through starts that are broken off anywhere: what a renamed file says   *)
(* is there until somebody edits it.  An import that was rolled back is    *)
(* the exception: the start after it renames the files all the same.       *)
RenamedIsImported ==
  dirEdits = 0 /\ ~importFailed =>
    /\ files["permissions"] = "renamed" =>
         LegacyPermissions \subseteq permissions
    /\ files["roles"] = "renamed" =>
         LegacyRoles \X LegacyPermissions \subseteq rolePermissions
    /\ files["users"] = "renamed" => LegacyUsers \subseteq users
    /\ files["users"] = "renamed" /\ files["roles"] = "renamed" =>
         LegacyUsers \X LegacyRoles \subseteq userRoles

(* A fresh server that serves has an administrator with every permission,  *)
(* however often its starts were broken off, but for one broken off        *)
(* between the account and its role: no later start adds the role.         *)
AdministratorSeeded ==
  /\ boot = "up" /\ dirEdits = 0 /\ ~brokenOff
  /\ \A f \in Files : files[f] = "absent"
  => /\ <<Admin, AdminRole>> \in userRoles
     /\ {AdminRole} \X Permissions \subseteq rolePermissions
=============================================================================
