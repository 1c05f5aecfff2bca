------------------------ MODULE Administration_proofs -------------------------
(***************************************************************************)
(* Theorems about what users administer: users, roles and permissions      *)
(* (Directory) - the links between the tables, what the import of the      *)
(* older files leaves, and the first administrator, through starts broken  *)
(* off anywhere - and the inventories (Inventory), for any files, hosts    *)
(* and groups.                                                             *)
(***************************************************************************)
EXTENDS Directory, Inventory, TLAPS

(***************************************************************************)
(* Users, roles and permissions.                                           *)
(***************************************************************************)

(* Tables that only a start of the server has written.                     *)
Unedited == dirEdits = 0
FreshTables == Unedited /\ ~brokenOff /\ \A f \in Files : files[f] = "absent"

(* The administrator exists before the role is given, and a request has    *)
(* been counted.                                                           *)
StartsInOrder ==
  /\ boot = "admin" \/ (boot = "up" /\ Unedited) =>
       permissions = Permissions /\ roles = Roles /\ users # {}
  /\ boot = "admin" => Admin \in users
  /\ request # NoRequest => ~Unedited
  /\ boot # "up" => request = NoRequest

(* An unedited server that started fresh has no account but the            *)
(* administrator's, who has the role unless it is about to be given; and   *)
(* the role was created with every permission.                             *)
FreshAdministrator ==
  FreshTables =>
    /\ users \subseteq {Admin}
    /\ users # {} => boot = "admin" \/ <<Admin, AdminRole>> \in userRoles
    /\ AdminRole \in roles =>
         {AdminRole} \X Permissions \subseteq rolePermissions

(* What the files say is in the tables, or nothing is and none is renamed. *)
LoadedTables ==
  /\ files["permissions"] # "absent" => LegacyPermissions \subseteq permissions
  /\ files["roles"] # "absent" =>
       /\ LegacyRoles \subseteq roles
       /\ LegacyRoles \X LegacyPermissions \subseteq rolePermissions
  /\ files["users"] # "absent" => LegacyUsers \subseteq users
  /\ files["users"] # "absent" /\ files["roles"] # "absent" =>
       LegacyUsers \X LegacyRoles \subseteq userRoles
TablesUntouched ==
  /\ boot = "import"
  /\ users = {} /\ roles = {} /\ permissions = {}
  /\ \A f \in Files : files[f] # "renamed"
LoadedOrUntouched == Unedited /\ ~importFailed => LoadedTables \/ TablesUntouched

TablesInv == DirectoryTypeOK /\ StartsInOrder

-----------------------------------------------------------------------------
(* What a step of a start does to the tables: they grow, or it stutters.   *)
LEMMA InitTables == DirectoryInit => TablesInv
<1> SUFFICES ASSUME DirectoryInit PROVE TablesInv
  OBVIOUS
<1>1. files \in [Files -> {"absent", "present", "renamed"}]
  BY DEF DirectoryInit
<1>2. 0 \in 0..MaxDirEdits /\ 0 \in 0..MaxBoots
  BY DirectoryAssumption
<1> QED
  BY <1>1, <1>2 DEF DirectoryInit, TablesInv, DirectoryTypeOK, StartsInOrder,
     LinksNameRows, BootSteps, Unedited

(* Every step keeps the links between the tables.                          *)
LEMMA NextTables == TablesInv /\ [DirectoryNext]_directoryVars => TablesInv'
<1> SUFFICES ASSUME TablesInv, [DirectoryNext]_directoryVars PROVE TablesInv'
  OBVIOUS
<1> USE DirectoryAssumption DEF TablesInv, DirectoryTypeOK, StartsInOrder,
        LinksNameRows, Unedited, BootSteps
<1>1. CASE BootStep
  <2> USE DEF BootGoes, dirCounts, tables
  <2>1. CASE Import
    <3>1. NewPermissions \subseteq Permissions /\ NewRoles \subseteq Roles
          /\ NewUsers \subseteq Users
      BY DEF NewPermissions, NewRoles, NewUsers, Imported
    <3>2. NewRoles \X LegacyPermissions \subseteq roles' \X permissions'
      BY <2>1 DEF Import, ImportBreaks
    <3>3. NewUsers \X (LegacyRoles \cap roles') \subseteq users' \X roles'
      BY <2>1 DEF Import
    <3>4. LinksNameRows'
      BY <2>1, <3>2, <3>3 DEF Import
    <3> QED
      BY <2>1, <3>1, <3>4 DEF Import
  <2>2. CASE ImportFails
    BY <2>2 DEF ImportFails
  <2>3. CASE RenameEnds \/ \E f \in Files : RenameFile(f)
    BY <2>3 DEF RenameEnds, RenameFile
  <2>4. CASE SeedPermission
    BY <2>4 DEF SeedPermission
  <2>5. CASE SeedRole
    <3>1. PICK r \in Roles \ roles :
            /\ roles' = roles \cup {r}
            /\ rolePermissions' =
                 rolePermissions \cup ({r} \X SeededGrants(r))
      BY <2>5 DEF SeedRole
    <3>2. SeededGrants(r) \subseteq Permissions
      BY DEF SeededGrants
    <3>3. {r} \X SeededGrants(r) \subseteq roles' \X permissions'
      BY <2>5, <3>1, <3>2 DEF SeedRole
    <3> QED
      BY <2>5, <3>1, <3>3 DEF SeedRole
  <2>6. CASE SeedUser
    <3>1. users' \subseteq Users /\ users \subseteq users' /\ users' # {}
      BY <2>6 DEF SeedUser
    <3>2. boot' = "admin" => Admin \in users'
      BY <2>6 DEF SeedUser
    <3> QED
      BY <2>6, <3>1, <3>2 DEF SeedUser
  <2>7. CASE SeedAdmin
    BY <2>7 DEF SeedAdmin
  <2> QED
    BY <1>1, <2>1, <2>2, <2>3, <2>4, <2>5, <2>6, <2>7 DEF BootStep
<1>2. CASE AdminStep
  <2> USE DEF Edits, Closed, dirCounts, tables
  <2>1. ASSUME NEW u \in Users, NEW list \in SUBSET Roles, AskForUser(u, list)
        PROVE  TablesInv'
    BY <2>1 DEF AskForUser, Requests, NoRequest
  <2>2. ASSUME NEW r \in Roles, NEW list \in SUBSET Permissions,
               AskForRole(r, list)
        PROVE  TablesInv'
    BY <2>2 DEF AskForRole, Requests, NoRequest
  <2>3. CASE WriteUser
    <3> DEFINE u == request.of
               done == request.list \subseteq roles
                         /\ (request.new \/ u \in users)
    <3>1. request \in Requests /\ u \in Users
      BY <2>3 DEF WriteUser, Requests, NoRequest
    <3>2. CASE done
      <4>1. /\ users' = users \cup {u} /\ request.list \subseteq roles
            /\ userRoles' = Linked(userRoles, u, request.list)
        BY <2>3, <3>2 DEF WriteUser
      <4>2. userRoles' \subseteq users' \X roles'
        BY <2>3, <4>1 DEF WriteUser, Linked
      <4> QED
        BY <2>3, <3>1, <4>1, <4>2 DEF WriteUser, NoRequest
    <3>3. CASE ~done
      <4>1. UNCHANGED tables
        BY <2>3, <3>3 DEF WriteUser
      <4> QED
        BY <2>3, <3>1, <4>1 DEF WriteUser, NoRequest
    <3> QED
      BY <3>2, <3>3
  <2>4. CASE WriteRole
    <3> DEFINE r == request.of
               done == request.list \subseteq permissions
                         /\ (request.new \/ r \in roles)
    <3>1. request \in Requests /\ r \in Roles
      BY <2>4 DEF WriteRole, Requests, NoRequest
    <3>2. CASE done
      <4>1. /\ roles' = roles \cup {r} /\ request.list \subseteq permissions
            /\ rolePermissions' = Linked(rolePermissions, r, request.list)
        BY <2>4, <3>2 DEF WriteRole
      <4>2. rolePermissions' \subseteq roles' \X permissions'
        BY <2>4, <4>1 DEF WriteRole, Linked
      <4> QED
        BY <2>4, <3>1, <4>1, <4>2 DEF WriteRole, NoRequest
    <3>3. CASE ~done
      <4>1. UNCHANGED tables
        BY <2>4, <3>3 DEF WriteRole
      <4> QED
        BY <2>4, <3>1, <4>1 DEF WriteRole, NoRequest
    <3> QED
      BY <3>2, <3>3
  <2>5. ASSUME NEW u \in Users, DeleteUser(u) PROVE TablesInv'
    BY <2>5 DEF DeleteUser
  <2>6. ASSUME NEW r \in Roles, DeleteRole(r) PROVE TablesInv'
    BY <2>6 DEF DeleteRole
  <2>7. ASSUME NEW p \in Permissions, CreatePermission(p) PROVE TablesInv'
    BY <2>7 DEF CreatePermission
  <2>8. ASSUME NEW p \in Permissions, DeletePermission(p) PROVE TablesInv'
    BY <2>8 DEF DeletePermission
  <2> QED
    BY <1>2, <2>1, <2>2, <2>3, <2>4, <2>5, <2>6, <2>7, <2>8 DEF AdminStep
<1>3. CASE Reboot
  BY <1>3 DEF Reboot, tables
<1>4. CASE UNCHANGED directoryVars
  BY <1>4 DEF directoryVars, tables, dirCounts, Requests
<1> QED
  BY <1>1, <1>2, <1>3, <1>4 DEF DirectoryNext

(* The tables are well typed, and every link between them names rows that  *)
(* are there: through imports that are rolled back, seeding that is broken *)
(* off and deletions under a request's hands.                              *)
THEOREM DirectoryLinksHold == DirectorySpec => []DirectoryTypeOK
<1>1. DirectorySpec => []TablesInv
  BY InitTables, NextTables, PTL DEF DirectorySpec
<1> QED
  BY <1>1, PTL DEF TablesInv

-----------------------------------------------------------------------------
(* Requests of administrators are counted; writes end ones counted before. *)
LEMMA AdminStepsCounted == TablesInv /\ AdminStep => ~Unedited'
  BY DirectoryAssumption DEF TablesInv, DirectoryTypeOK, StartsInOrder,
     AdminStep, AskForUser, AskForRole, WriteUser, WriteRole, DeleteUser,
     DeleteRole, CreatePermission, DeletePermission, Edits, Closed, Unedited,
     NoRequest, dirCounts

(* Every step of a first start keeps its administrator.                    *)
LEMMA NextFresh ==
  TablesInv /\ FreshAdministrator /\ [DirectoryNext]_directoryVars
    => FreshAdministrator'
<1> SUFFICES ASSUME TablesInv, FreshAdministrator, FreshTables',
                    [DirectoryNext]_directoryVars
             PROVE  FreshAdministrator'
  BY DEF FreshAdministrator
<1> USE DirectoryAssumption DEF FreshAdministrator, FreshTables, Unedited, TablesInv,
        StartsInOrder, DirectoryTypeOK
<1>1. CASE BootStep
  <2> USE <1>1 DEF BootGoes, dirCounts, tables
  <2>1. CASE Import
    <3>1. FreshTables /\ NewPermissions = {} /\ NewRoles = {} /\ NewUsers = {}
      BY <2>1 DEF Import, NewPermissions, NewRoles, NewUsers, Imported, Files
    <3> QED
      BY <2>1, <3>1 DEF Import
  <2>2. CASE ImportFails \/ RenameEnds
    BY <2>2 DEF ImportFails, RenameEnds
  <2>3. ASSUME NEW f \in Files, RenameFile(f) PROVE FALSE
    BY <2>3 DEF RenameFile, Files
  <2>4. CASE SeedPermission
    BY <2>4 DEF SeedPermission
  <2>5. CASE SeedRole
    BY <2>5 DEF SeedRole, SeededGrants
  <2>6. CASE SeedUser
    BY <2>6 DEF SeedUser
  <2>7. CASE SeedAdmin
    BY <2>7 DEF SeedAdmin
  <2> QED
    BY <2>1, <2>2, <2>3, <2>4, <2>5, <2>6, <2>7 DEF BootStep
<1>2. CASE AdminStep
  BY <1>2, AdminStepsCounted
<1>3. CASE Reboot
  BY <1>3 DEF Reboot, tables
<1>4. CASE UNCHANGED directoryVars
  BY <1>4 DEF directoryVars, tables, dirCounts
<1> QED
  BY <1>1, <1>2, <1>3, <1>4 DEF DirectoryNext

(* A fresh server that serves has an administrator with every permission,  *)
(* however often its starts were broken off, but for one broken off        *)
(* between the account and its role.                                       *)
THEOREM DirectoryAdministrator == DirectorySpec => []AdministratorSeeded
<1>1. DirectoryInit => FreshAdministrator
  BY DEF DirectoryInit, FreshAdministrator
<1>2. TablesInv /\ FreshAdministrator => AdministratorSeeded
  BY DirectoryAssumption DEF TablesInv, StartsInOrder, FreshAdministrator,
     FreshTables, Unedited, AdministratorSeeded
<1> QED
  BY <1>1, <1>2, InitTables, NextTables, NextFresh, PTL DEF DirectorySpec

-----------------------------------------------------------------------------
(* Every step keeps what was imported.                                     *)
LEMMA NextLoaded ==
  TablesInv /\ LoadedOrUntouched /\ [DirectoryNext]_directoryVars
    => LoadedOrUntouched'
<1> SUFFICES ASSUME TablesInv, LoadedOrUntouched, Unedited', ~importFailed',
                    [DirectoryNext]_directoryVars
             PROVE  LoadedTables' \/ TablesUntouched'
  BY DEF LoadedOrUntouched
<1> USE DirectoryAssumption DEF LoadedOrUntouched, Unedited, TablesInv,
        StartsInOrder, DirectoryTypeOK
<1>1. CASE BootStep
  <2> USE <1>1 DEF BootGoes, dirCounts, tables
  <2>1. CASE Import
    <3>1. (LoadedTables \/ TablesUntouched) /\ files' = files
      BY <2>1 DEF Import
    <3>2. CASE LoadedTables
      BY <2>1, <3>1, <3>2 DEF Import, LoadedTables
    <3>3. CASE TablesUntouched
      <4>1. /\ files["permissions"] # "absent" =>
                 NewPermissions = LegacyPermissions
            /\ files["roles"] # "absent" => NewRoles = LegacyRoles
            /\ files["users"] # "absent" => NewUsers = LegacyUsers
        BY <3>3 DEF TablesUntouched, NewPermissions, NewRoles, NewUsers, Imported,
           Files
      <4> QED
        BY <2>1, <3>1, <4>1 DEF Import, LoadedTables
    <3> QED
      BY <3>1, <3>2, <3>3
  <2>2. CASE ImportFails
    BY <2>2 DEF ImportFails
  <2>3. CASE RenameEnds
    BY <2>3 DEF RenameEnds, TablesUntouched, LoadedTables
  <2>4. ASSUME NEW f \in Files, RenameFile(f) PROVE LoadedTables'
    BY <2>4 DEF RenameFile, TablesUntouched, LoadedTables, Files
  <2>5. CASE SeedPermission
    BY <2>5 DEF SeedPermission, TablesUntouched, LoadedTables
  <2>6. CASE SeedRole
    BY <2>6 DEF SeedRole, TablesUntouched, LoadedTables
  <2>7. CASE SeedUser
    BY <2>7 DEF SeedUser, TablesUntouched, LoadedTables
  <2>8. CASE SeedAdmin
    BY <2>8 DEF SeedAdmin, TablesUntouched, LoadedTables
  <2> QED
    BY <2>1, <2>2, <2>3, <2>4, <2>5, <2>6, <2>7, <2>8 DEF BootStep
<1>2. CASE AdminStep
  BY <1>2, AdminStepsCounted
<1>3. CASE Reboot
  BY <1>3 DEF Reboot, tables, LoadedTables, TablesUntouched
<1>4. CASE UNCHANGED directoryVars
  BY <1>4 DEF directoryVars, tables, dirCounts, LoadedTables, TablesUntouched
<1> QED
  BY <1>1, <1>2, <1>3, <1>4 DEF DirectoryNext

(* A JSON file is renamed when its rows are in the tables and not before,  *)
(* through starts that are broken off anywhere, unless an import was       *)
(* rolled back.                                                            *)
THEOREM DirectoryImported == DirectorySpec => []RenamedIsImported
<1>1. DirectoryInit => LoadedOrUntouched
  BY DEF DirectoryInit, LoadedOrUntouched, TablesUntouched, Files
<1>2. TablesInv /\ LoadedOrUntouched => RenamedIsImported
  BY DEF LoadedOrUntouched, Unedited, LoadedTables, TablesUntouched, RenamedIsImported,
     Files
<1> QED
  BY <1>1, <1>2, InitTables, NextTables, NextLoaded, PTL DEF DirectorySpec

-----------------------------------------------------------------------------
(***************************************************************************)
(* Inventories.                                                            *)
(***************************************************************************)

(* A group's place is one there may be, below all, and ends with it.       *)
LEMMA PlaceFacts ==
  ASSUME NEW c \in Contents, NEW g \in Groups
  PROVE  /\ PlaceOf(c, g) \in Places \ {All}
         /\ PlaceOf(c, g)[Len(PlaceOf(c, g))] = g
         /\ Found(c, g) # {} => PlaceOf(c, g) \in c.places
<1>1. c.places \subseteq Places
  BY DEF Contents
<1>2. /\ <<g>> \in Places /\ <<g>> # All /\ <<g>>[Len(<<g>>)] = g
  BY DEF Places, All
<1>3. CASE <<g>> \in c.places \/ Found(c, g) = {}
  <2>1. PlaceOf(c, g) = <<g>>
    BY <1>3 DEF PlaceOf
  <2>2. <<g>> \in c.places => <<g>> \in Found(c, g)
    BY <1>2 DEF Found
  <2> QED
    BY <1>2, <1>3, <2>1, <2>2
<1>4. CASE ~(<<g>> \in c.places \/ Found(c, g) = {})
  <2>1. PlaceOf(c, g) \in Found(c, g)
    BY <1>4 DEF PlaceOf
  <2> QED
    BY <1>1, <2>1 DEF Found
<1> QED
  BY <1>3, <1>4

-----------------------------------------------------------------------------
(* What each request makes of a file.                                      *)
PlacesOf(e, c) == {PlaceOf(c, g) : g \in e.groups}
GonePlaces(e, c) == {p \in c.places : \E g \in e.groups : Under(p, g)}
TopPlaces(e) == {<<g>> : g \in e.groups}
Asking(e) == e.op \in Ops /\ e.hosts \subseteq Hosts /\ e.groups \subseteq Groups

(* A move, field by field.                                                 *)
LEMMA MovedFields ==
  ASSUME NEW c \in Contents, NEW e, e.op = "move"
  PROVE  Written(e, c) =
           [places |-> c.places, hosts |-> c.hosts \ (Places \X e.hosts),
            addressed |-> c.addressed \ (Places \X e.hosts)]
  BY DEF Written, Moved, Without, Contents

(* A host placed in a group, field by field.                               *)
LEMMA PlacedFields ==
  ASSUME NEW c \in Contents, NEW e, e.op = "place"
  PROVE  Written(e, c) =
           [places |-> c.places \cup {All} \cup PlacesOf(e, c),
            hosts |-> c.hosts \cup (PlacesOf(e, c) \X e.hosts),
            addressed |-> c.addressed]
  BY DEF Written, Placed, WithPlaces, Contents, PlacesOf

(* A group dropped, field by field.                                        *)
LEMMA DroppedFields ==
  ASSUME NEW c \in Contents, NEW e, e.op = "drop"
  PROVE  Written(e, c) =
           [places |-> c.places \ GonePlaces(e, c),
            hosts |-> c.hosts \ (GonePlaces(e, c) \X Hosts),
            addressed |-> c.addressed \ (GonePlaces(e, c) \X Hosts)]
  BY DEF Written, Dropped, Without, Contents, GonePlaces

(* A group filled anew, field by field.                                    *)
LEMMA FilledFields ==
  ASSUME NEW c \in Contents, NEW e, e.op = "fill"
  PROVE  Written(e, c) =
           [places |-> c.places,
            hosts |-> (c.hosts \ (PlacesOf(e, c) \X (Hosts \ e.hosts)))
                        \cup (PlacesOf(e, c) \X e.hosts),
            addressed |->
              c.addressed \ (PlacesOf(e, c) \X (Hosts \ e.hosts))]
  BY DEF Written, Filled, Without, Contents, PlacesOf

(* A group added, field by field.                                          *)
LEMMA GroupFields ==
  ASSUME NEW c \in Contents, NEW e, e.op = "group"
  PROVE  Written(e, c) =
           [places |-> c.places \cup {All} \cup TopPlaces(e),
            hosts |-> c.hosts \cup (TopPlaces(e) \X e.hosts),
            addressed |-> c.addressed]
  BY DEF Written, WithGroup, WithPlaces, Contents, TopPlaces

(* A host added, field by field.                                           *)
LEMMA HostFields ==
  ASSUME NEW c \in Contents, NEW e, e.op = "host"
  PROVE  Written(e, c) =
           [places |-> c.places \cup {All} \cup Spot(e),
            hosts |-> c.hosts \cup (Spot(e) \X e.hosts),
            addressed |-> c.addressed \cup (Spot(e) \X e.hosts)]
  BY DEF Written, WithHost, WithPlaces, Contents

(* The places a request is about are places.                               *)
LEMMA PlaceSets ==
  ASSUME NEW c \in Contents, NEW e, Asking(e)
  PROVE  /\ PlacesOf(e, c) \subseteq Places /\ TopPlaces(e) \subseteq Places
         /\ Spot(e) \subseteq Places /\ All \in Places
<1>1. PlacesOf(e, c) \subseteq Places
  BY PlaceFacts DEF PlacesOf, Asking
<1>2. TopPlaces(e) \subseteq Places /\ All \in Places
  BY DEF TopPlaces, Places, Asking
<1> QED
  BY <1>1, <1>2 DEF Spot, TopPlaces

(* A request makes a file of a file.                                       *)
LEMMA WrittenContents ==
  ASSUME NEW c \in Contents, NEW e, Asking(e)
  PROVE  Written(e, c) \in Contents
<1>1. CASE e.op = "move"
  BY <1>1, MovedFields DEF Contents
<1>2. CASE e.op = "place"
  BY <1>2, PlacedFields, PlaceSets DEF Contents, Asking
<1>3. CASE e.op = "drop"
  BY <1>3, DroppedFields DEF Contents
<1>4. CASE e.op = "fill"
  BY <1>4, FilledFields, PlaceSets DEF Contents, Asking
<1>5. CASE e.op = "group"
  BY <1>5, GroupFields, PlaceSets DEF Contents, Asking
<1>6. CASE e.op = "host"
  BY <1>6, HostFields, PlaceSets DEF Contents, Asking
<1> QED
  BY <1>1, <1>2, <1>3, <1>4, <1>5, <1>6 DEF Asking, Ops

(* A request to fill is for one group.                                     *)
OneGroup(e) == e.op = "fill" => \E g \in Groups : e.groups = {g}

(* The entries stay those of the places there are.                         *)
LEMMA WrittenSound ==
  ASSUME NEW c \in Contents, Sound(c), NEW e, Asking(e), OneGroup(e),
         Writes(e, c)
  PROVE  Sound(Written(e, c))
<1>1. CASE e.op = "move"
  BY <1>1, MovedFields DEF Sound
<1>2. CASE e.op = "place"
  BY <1>2, PlacedFields DEF Sound, Asking
<1>3. CASE e.op = "drop"
  BY <1>3, DroppedFields DEF Sound
<1>4. CASE e.op = "fill"
  <2>1. PICK g \in Groups : e.groups = {g}
    BY <1>4 DEF OneGroup
  <2>2. Found(c, g) # {}
    BY <1>4, <2>1 DEF Writes
  <2>3. PlacesOf(e, c) \subseteq c.places
    BY <2>1, <2>2, PlaceFacts DEF PlacesOf
  <2> QED
    BY <1>4, <2>3, FilledFields DEF Sound, Asking
<1>5. CASE e.op = "group"
  BY <1>5, GroupFields DEF Sound, Asking
<1>6. CASE e.op = "host"
  BY <1>6, HostFields DEF Sound, Asking
<1> QED
  BY <1>1, <1>2, <1>3, <1>4, <1>5, <1>6 DEF Asking, Ops

(* An entry with variables that stays in a file keeps them.                *)
LEMMA WrittenKeeps ==
  ASSUME NEW c \in Contents, NEW e, Asking(e)
  PROVE  c.addressed \cap Written(e, c).hosts \subseteq Written(e, c).addressed
<1>1. CASE e.op = "move"
  BY <1>1, MovedFields
<1>2. CASE e.op = "place"
  BY <1>2, PlacedFields
<1>3. CASE e.op = "drop"
  <2>1. c.addressed \subseteq Places \X Hosts
    BY DEF Contents
  <2> QED
    BY <1>3, <2>1, DroppedFields
<1>4. CASE e.op = "fill"
  BY <1>4, FilledFields
<1>5. CASE e.op = "group"
  BY <1>5, GroupFields
<1>6. CASE e.op = "host"
  BY <1>6, HostFields
<1> QED
  BY <1>1, <1>2, <1>3, <1>4, <1>5, <1>6 DEF Asking, Ops

(* What is written depends on the operation, the hosts and the groups      *)
(* alone.                                                                  *)
LEMMA SameWritten ==
  ASSUME NEW c, NEW e, NEW d,
         d.op = e.op, d.hosts = e.hosts, d.groups = e.groups
  PROVE  Written(d, c) = Written(e, c)
  BY DEF Written, Moved, Placed, Dropped, Filled, WithGroup, WithHost, Spot

-----------------------------------------------------------------------------
(* Types, with the entries of every file those of its places.              *)
InventoryTypes ==
  /\ InventoryTypeOK
  /\ \A f \in InventoryFiles : Sound(inventory[f])
  /\ \A t \in InventoryThreads : edit[t] # NoChange =>
       Sound(edit[t].new) /\ OneGroup(edit[t])

(* No request is not a request.                                            *)
LEMMA NoEditing == NoChange \notin Editing
  BY DEF NoChange, Editing

(* The blank inventory is one.                                             *)
LEMMA BlankFacts == Blank \in Contents /\ Sound(Blank)
  BY DEF Blank, Contents, Sound

(* A thread that is busy has a request of the declared form.               *)
LEMMA EditFacts ==
  ASSUME InventoryTypes, NEW t \in InventoryThreads, edit[t] # NoChange
  PROVE  edit[t] \in Editing /\ Asking(edit[t])
  BY DEF InventoryTypes, InventoryTypeOK, Editing, Asking

(* What follows on a file: a moved host is placed, the request is done, or *)
(* the next file is read.                                                  *)
LEMMA OnwardFacts ==
  ASSUME NEW e \in Editing, NEW f, NEW wrote \in BOOLEAN
  PROVE  LET n == Onward(e, f, wrote) IN
         /\ n \in Editing /\ n.alone = e.alone /\ n.hosts = e.hosts
         /\ n.groups = e.groups /\ n.file = Primary /\ n.new = Blank
         /\ \/ /\ e.op = "move" /\ e.todo \ {f} = {} /\ e.groups # {}
               /\ n.step = "read" /\ n.op = "place" /\ n.todo = {Primary}
            \/ /\ e.op = "move" => e.todo \ {f} = {} /\ e.groups = {}
               /\ n.step = "done" /\ n.op = e.op /\ n.todo = {}
            \/ /\ n.step = "read" /\ n.op = e.op /\ n.todo = e.todo \ {f}
               /\ e.todo \ {f} # {}
<1> DEFINE rest == e.todo \ {f}
           next(step, op, todo) ==
             [e EXCEPT !.step = step, !.op = op, !.todo = todo,
                       !.file = Primary, !.new = Blank]
<1>0. Primary \in InventoryFiles /\ Blank \in Contents
  BY InventoryAssumption, BlankFacts
<1>a. ASSUME NEW step \in {"read", "done"}, NEW op \in Ops,
             NEW todo \in SUBSET InventoryFiles,
             Onward(e, f, wrote) = next(step, op, todo)
      PROVE  LET n == Onward(e, f, wrote) IN
             /\ n \in Editing /\ n.alone = e.alone /\ n.hosts = e.hosts
             /\ n.groups = e.groups /\ n.file = Primary /\ n.new = Blank
             /\ n.step = step /\ n.op = op /\ n.todo = todo
  BY <1>0, <1>a DEF Editing
<1> DEFINE n == Onward(e, f, wrote)
<1>b. rest \in SUBSET InventoryFiles /\ e.op \in Ops /\ "place" \in Ops
      /\ {} \in SUBSET InventoryFiles /\ {Primary} \in SUBSET InventoryFiles
  BY <1>0 DEF Editing, Ops
<1>c. "read" \in {"read", "done"} /\ "done" \in {"read", "done"}
  OBVIOUS
<1> HIDE DEF next, n, rest
<1>1. CASE e.op = "move" /\ rest = {} /\ e.groups # {}
  <2> DEFINE only == {Primary}
  <2>1. n = next("read", "place", only)
    BY <1>1 DEF Onward, next, n, rest
  <2>2. only \in SUBSET InventoryFiles
    BY <1>b
  <2> HIDE DEF only
  <2>3. /\ n \in Editing /\ n.alone = e.alone /\ n.hosts = e.hosts
        /\ n.groups = e.groups /\ n.file = Primary /\ n.new = Blank
        /\ n.step = "read" /\ n.op = "place" /\ n.todo = only
    BY <1>a, <1>b, <1>c, <2>1, <2>2 DEF n
  <2> QED
    BY <1>1, <2>3 DEF n, rest, only
<1>2. CASE /\ ~(e.op = "move" /\ rest = {} /\ e.groups # {})
           /\ rest = {} \/ (wrote /\ e.op \in {"drop", "fill"})
  <2>1. n = next("done", e.op, {})
    BY <1>2 DEF Onward, next, n, rest
  <2>2. /\ n \in Editing /\ n.alone = e.alone /\ n.hosts = e.hosts
        /\ n.groups = e.groups /\ n.file = Primary /\ n.new = Blank
        /\ n.step = "done" /\ n.op = e.op /\ n.todo = {}
    BY <1>a, <1>b, <1>c, <2>1 DEF n
  <2> QED
    BY <1>2, <2>2 DEF n, rest
<1>3. CASE ~(rest = {} \/ (wrote /\ e.op \in {"drop", "fill"}))
  <2>1. n = next("read", e.op, rest)
    BY <1>3 DEF Onward, next, n, rest
  <2>2. /\ n \in Editing /\ n.alone = e.alone /\ n.hosts = e.hosts
        /\ n.groups = e.groups /\ n.file = Primary /\ n.new = Blank
        /\ n.step = "read" /\ n.op = e.op /\ n.todo = rest
    BY <1>a, <1>b, <1>c, <2>1 DEF n
  <2> QED
    BY <1>3, <2>2 DEF n, rest
<1> QED
  BY <1>1, <1>2, <1>3

(* A request that goes on reads another file or is done.                   *)
LEMMA OnwardRests ==
  ASSUME NEW e \in Editing, OneGroup(e), NEW f, NEW wrote \in BOOLEAN
  PROVE  /\ Onward(e, f, wrote).step \in {"read", "done"}
         /\ Sound(Onward(e, f, wrote).new)
         /\ OneGroup(Onward(e, f, wrote))
<1> DEFINE n == Onward(e, f, wrote)
<1>1. /\ n.step \in {"read", "done"} /\ n.new = Blank /\ n.groups = e.groups
      /\ n.op \in {e.op, "place"}
  BY OnwardFacts
<1> QED
  BY <1>1, BlankFacts DEF OneGroup

-----------------------------------------------------------------------------
(* What each step does to the request of its thread.                       *)
OnlyEdit(t) ==
  /\ edit' \in [InventoryThreads -> Editing \cup {NoChange}]
  /\ \A u \in InventoryThreads \ {t} : edit'[u] = edit[u]
SameRequest(e, d) ==
  /\ d.op = e.op /\ d.hosts = e.hosts /\ d.groups = e.groups
  /\ d.todo = e.todo

(* A request as it begins: one that places a host has moved it before.     *)
Asks(t) ==
  \E op \in Ops \ {"place"}, hosts \in SUBSET Hosts,
     groups \in SUBSET Groups, chosen \in SUBSET InventoryFiles :
    /\ op = "move" => chosen = InventoryFiles
    /\ op = "fill" => \E g \in Groups : groups = {g}
    /\ Ask(t, op, hosts, groups, chosen)

(* Every step is of one of these kinds.                                    *)
LEMMA InventoryCases ==
  ASSUME [InventoryNext]_inventoryVars
  PROVE  \/ UNCHANGED inventoryVars
         \/ /\ ~mixed
            /\ \/ \E t \in InventoryThreads :
                    \/ Load(t) \/ TruncateInventory(t) \/ DumpInventory(t)
                    \/ Reply(t) \/ Asks(t)
               \/ \E f \in InventoryFiles : DeleteFile(f)
               \/ ServerEnds
<1>0. Ops \ {"place"} = {"move", "drop", "fill", "group", "host"}
  BY DEF Ops
<1>1. ASSUME NEW t \in InventoryThreads, NEW h \in Hosts,
             NEW groups \in SUBSET Groups, UpdateHostGroups(t, h, groups)
      PROVE  Asks(t)
  <2>1. Ask(t, "move", {h}, groups, InventoryFiles) /\ {h} \in SUBSET Hosts
    BY <1>1 DEF UpdateHostGroups
  <2> QED
    BY <1>0, <2>1 DEF Asks
<1>2. ASSUME NEW t \in InventoryThreads, NEW g \in Groups,
             NEW chosen \in {{f} : f \in InventoryFiles}
                              \cup {InventoryFiles},
             DeleteGroup(t, g, chosen)
      PROVE  Asks(t)
  <2>1. Ask(t, "drop", {}, {g}, chosen) /\ {} \in SUBSET Hosts
        /\ {g} \in SUBSET Groups /\ chosen \in SUBSET InventoryFiles
    BY <1>2 DEF DeleteGroup
  <2> QED
    BY <1>0, <2>1 DEF Asks
<1>3. ASSUME NEW t \in InventoryThreads, NEW g \in Groups,
             NEW hosts \in SUBSET Hosts, UpdateGroupHosts(t, g, hosts)
      PROVE  Asks(t)
  <2>1. Ask(t, "fill", hosts, {g}, InventoryFiles) /\ {g} \in SUBSET Groups
    BY <1>3 DEF UpdateGroupHosts
  <2> QED
    BY <1>0, <2>1 DEF Asks
<1>4. ASSUME NEW t \in InventoryThreads, NEW g \in Groups,
             NEW hosts \in SUBSET Hosts, NEW f \in InventoryFiles,
             AddGroup(t, g, hosts, f)
      PROVE  Asks(t)
  <2>1. Ask(t, "group", hosts, {g}, {f}) /\ {g} \in SUBSET Groups
        /\ {f} \in SUBSET InventoryFiles
    BY <1>4 DEF AddGroup
  <2> QED
    BY <1>0, <2>1 DEF Asks
<1>5. ASSUME NEW t \in InventoryThreads, NEW h \in Hosts,
             NEW groups \in {{}} \cup {{g} : g \in Groups},
             NEW f \in InventoryFiles, AddHost(t, h, groups, f)
      PROVE  Asks(t)
  <2>1. Ask(t, "host", {h}, groups, {f}) /\ groups \in SUBSET Groups
        /\ {f} \in SUBSET InventoryFiles /\ {h} \in SUBSET Hosts
    BY <1>5 DEF AddHost
  <2> QED
    BY <1>0, <2>1 DEF Asks
<1> QED
  BY <1>1, <1>2, <1>3, <1>4, <1>5 DEF InventoryNext

(* A request that comes in, by what it changes.                            *)
LEMMA AskFacts ==
  ASSUME InventoryTypes, NEW t \in InventoryThreads, Asks(t)
  PROVE  /\ OnlyEdit(t) /\ edit[t] = NoChange /\ edit'[t] # NoChange
         /\ edit'[t].step = "read" /\ edit'[t].op # "place"
         /\ edit'[t].op = "move" => edit'[t].todo = InventoryFiles
         /\ edit'[t].new = Blank /\ OneGroup(edit'[t])
         /\ inventory' = inventory /\ mixed' = mixed
         /\ asked' \in 0..MaxRequests
<1>1. PICK op \in Ops \ {"place"}, hosts \in SUBSET Hosts,
           groups \in SUBSET Groups, chosen \in SUBSET InventoryFiles :
        /\ op = "move" => chosen = InventoryFiles
        /\ op = "fill" => \E g \in Groups : groups = {g}
        /\ Ask(t, op, hosts, groups, chosen)
  BY DEF Asks
<1> DEFINE d == [step |-> "read", op |-> op, hosts |-> hosts,
                 groups |-> groups, todo |-> chosen, file |-> Primary,
                 new |-> Blank, alone |-> TRUE]
<1>2. d \in Editing /\ OneGroup(d)
  BY <1>1, BlankFacts, InventoryAssumption DEF Editing, OneGroup
<1>3. edit' = [edit EXCEPT ![t] = d] /\ edit[t] = NoChange
      /\ inventory' = inventory /\ mixed' = mixed
      /\ asked < MaxRequests /\ asked' = asked + 1
  BY <1>1 DEF Ask
<1>4. d.step = "read" /\ d.op = op /\ d.todo = chosen /\ d.new = Blank
  OBVIOUS
<1> HIDE DEF d
<1>5. edit'[t] = d /\ OnlyEdit(t)
  BY <1>2, <1>3 DEF InventoryTypes, InventoryTypeOK, OnlyEdit
<1>6. asked' \in 0..MaxRequests
  BY <1>3, InventoryAssumption DEF InventoryTypes, InventoryTypeOK
<1> QED
  BY <1>1, <1>2, <1>3, <1>4, <1>5, <1>6, NoEditing

(* A file that is loaded.                                                  *)
LEMMA EditLoadFacts ==
  ASSUME InventoryTypes, NEW t \in InventoryThreads, Load(t)
  PROVE  /\ OnlyEdit(t) /\ inventory' = inventory /\ asked' = asked
         /\ edit[t] # NoChange /\ edit[t].step = "read"
         /\ mixed' \in BOOLEAN
         /\ edit'[t] # NoChange /\ edit'[t].alone = edit[t].alone
         /\ \E f \in edit[t].todo :
              /\ mixed' = Crosses(t, f, Writes(edit[t], inventory[f]))
              /\ \/ /\ Writes(edit[t], inventory[f])
                    /\ edit'[t].step = "truncate" /\ edit'[t].file = f
                    /\ edit'[t].new = Written(edit[t], inventory[f])
                    /\ SameRequest(edit[t], edit'[t])
                 \/ /\ ~Writes(edit[t], inventory[f])
                    /\ edit'[t] = Onward(edit[t], f, FALSE)
<1>1. PICK f \in edit[t].todo :
        /\ edit' = [edit EXCEPT ![t] =
             IF Writes(edit[t], inventory[f])
             THEN [edit[t] EXCEPT !.step = "truncate", !.file = f,
                                  !.new = Written(edit[t], inventory[f])]
             ELSE Onward(edit[t], f, FALSE)]
        /\ mixed' = Crosses(t, f, Writes(edit[t], inventory[f]))
  BY DEF Load
<1>2. /\ edit[t] # NoChange /\ edit[t].step = "read"
      /\ inventory' = inventory /\ asked' = asked
  BY DEF Load, EditAt
<1>3. edit[t] \in Editing /\ Asking(edit[t])
  BY <1>2, EditFacts
<1>4. f \in InventoryFiles /\ inventory[f] \in Contents
  BY <1>3 DEF Editing, InventoryTypes, InventoryTypeOK
<1>5. mixed' \in BOOLEAN
  BY <1>1 DEF Crosses
<1>6. edit \in [InventoryThreads -> Editing \cup {NoChange}]
  BY DEF InventoryTypes, InventoryTypeOK
<1>7. CASE Writes(edit[t], inventory[f])
  <2> DEFINE d == [edit[t] EXCEPT !.step = "truncate", !.file = f,
                                  !.new = Written(edit[t], inventory[f])]
  <2>1. Written(edit[t], inventory[f]) \in Contents
    BY <1>3, <1>4, WrittenContents
  <2>2. /\ d \in Editing /\ d.alone = edit[t].alone
        /\ d.step = "truncate" /\ d.file = f
        /\ d.new = Written(edit[t], inventory[f])
        /\ SameRequest(edit[t], d)
    BY <1>3, <1>4, <2>1 DEF Editing, SameRequest
  <2>3. edit' = [edit EXCEPT ![t] = d]
    BY <1>1, <1>7
  <2> HIDE DEF d
  <2>4. edit'[t] = d /\ OnlyEdit(t)
    BY <1>6, <2>2, <2>3 DEF OnlyEdit
  <2> QED
    BY <1>1, <1>2, <1>5, <1>7, <2>2, <2>4, NoEditing
<1>8. CASE ~Writes(edit[t], inventory[f])
  <2> DEFINE d == Onward(edit[t], f, FALSE)
  <2>1. d \in Editing /\ d.alone = edit[t].alone
    BY <1>3, OnwardFacts
  <2>3. edit' = [edit EXCEPT ![t] = d]
    BY <1>1, <1>8
  <2> HIDE DEF d
  <2>4. edit'[t] = d /\ OnlyEdit(t)
    BY <1>6, <2>1, <2>3 DEF OnlyEdit
  <2> QED
    BY <1>1, <1>2, <1>5, <1>8, <2>1, <2>4, NoEditing DEF d
<1> QED
  BY <1>7, <1>8

(* A file that is opened for writing, and emptied.                         *)
LEMMA EditTruncateFacts ==
  ASSUME InventoryTypes, NEW t \in InventoryThreads, TruncateInventory(t)
  PROVE  /\ edit' \in [InventoryThreads -> Editing \cup {NoChange}]
         /\ edit[t] # NoChange /\ edit[t].step = "truncate"
         /\ inventory' = [inventory EXCEPT ![edit[t].file] = Blank]
         /\ mixed' = mixed /\ asked' = asked
         /\ edit'[t].step = "dump" /\ edit'[t].alone = edit[t].alone
         /\ \A u \in InventoryThreads :
              /\ edit'[u] = NoChange <=> edit[u] = NoChange
              /\ edit[u] # NoChange =>
                   /\ SameRequest(edit[u], edit'[u])
                   /\ edit'[u].file = edit[u].file
                   /\ edit'[u].new = edit[u].new
                   /\ u # t => /\ edit'[u].step = edit[u].step
                               /\ ~edit'[u].alone
<1>1. /\ edit[t] # NoChange /\ edit[t].step = "truncate"
      /\ inventory' = [inventory EXCEPT ![edit[t].file] = Blank]
      /\ mixed' = mixed /\ asked' = asked
      /\ edit' = [u \in InventoryThreads |->
           IF u = t THEN [edit[t] EXCEPT !.step = "dump"]
           ELSE IF edit[u] = NoChange THEN NoChange
           ELSE [edit[u] EXCEPT !.alone = FALSE]]
  BY DEF TruncateInventory, EditAt
<1>2. ASSUME NEW u \in InventoryThreads, edit[u] # NoChange
      PROVE  edit[u] \in Editing
  BY <1>2, EditFacts
<1>3. /\ edit'[t] = [edit[t] EXCEPT !.step = "dump"]
      /\ edit'[t] \in Editing
      /\ edit'[t].step = "dump" /\ edit'[t].alone = edit[t].alone
      /\ SameRequest(edit[t], edit'[t])
      /\ edit'[t].file = edit[t].file /\ edit'[t].new = edit[t].new
  <2>1. edit'[t] = [edit[t] EXCEPT !.step = "dump"]
    BY <1>1
  <2> QED
    BY <1>1, <1>2, <2>1 DEF Editing, SameRequest
<1>4. ASSUME NEW u \in InventoryThreads \ {t}, edit[u] # NoChange
      PROVE  /\ edit'[u] \in Editing
             /\ edit'[u].step = edit[u].step /\ ~edit'[u].alone
             /\ SameRequest(edit[u], edit'[u])
             /\ edit'[u].file = edit[u].file /\ edit'[u].new = edit[u].new
  <2>1. edit'[u] = [edit[u] EXCEPT !.alone = FALSE]
    BY <1>1, <1>4
  <2> QED
    BY <1>2, <1>4, <2>1 DEF Editing, SameRequest
<1>5. ASSUME NEW u \in InventoryThreads \ {t}, edit[u] = NoChange
      PROVE  edit'[u] = NoChange
  BY <1>1, <1>5
<1>6. edit' \in [InventoryThreads -> Editing \cup {NoChange}]
  <2>1. \A u \in InventoryThreads : edit'[u] \in Editing \cup {NoChange}
    BY <1>3, <1>4, <1>5
  <2>2. edit' = [u \in InventoryThreads |-> edit'[u]]
    BY <1>1
  <2> QED
    BY <2>1, <2>2
<1> QED
  BY <1>1, <1>3, <1>4, <1>5, <1>6, NoEditing

(* A file that is written.                                                 *)
LEMMA DumpFacts ==
  ASSUME InventoryTypes, NEW t \in InventoryThreads, DumpInventory(t)
  PROVE  /\ OnlyEdit(t) /\ edit[t] # NoChange /\ edit[t].step = "dump"
         /\ edit'[t] = Onward(edit[t], edit[t].file, TRUE)
         /\ edit'[t] # NoChange
         /\ inventory' = [inventory EXCEPT ![edit[t].file] = edit[t].new]
         /\ mixed' = mixed /\ asked' = asked
<1>1. /\ edit[t] # NoChange /\ edit[t].step = "dump"
      /\ inventory' = [inventory EXCEPT ![edit[t].file] = edit[t].new]
      /\ mixed' = mixed /\ asked' = asked
      /\ edit' = [edit EXCEPT ![t] = Onward(edit[t], edit[t].file, TRUE)]
  BY DEF DumpInventory, EditAt
<1>2. Onward(edit[t], edit[t].file, TRUE) \in Editing
  BY <1>1, EditFacts, OnwardFacts
<1> QED
  BY <1>1, <1>2, NoEditing DEF OnlyEdit, InventoryTypes, InventoryTypeOK

(* A reply, and the end of the server, leave the threads idle.             *)
LEMMA IdleFacts ==
  ASSUME InventoryTypes
  PROVE  /\ \A t \in InventoryThreads : Reply(t) =>
              /\ OnlyEdit(t) /\ edit'[t] = NoChange
              /\ edit[t] # NoChange /\ edit[t].step = "done"
              /\ inventory' = inventory /\ mixed' = mixed /\ asked' = asked
         /\ ServerEnds =>
              /\ edit' = [t \in InventoryThreads |-> NoChange]
              /\ inventory' = inventory /\ mixed' = mixed /\ asked' = asked
  BY DEF Reply, EditAt, ServerEnds, OnlyEdit, InventoryTypes, InventoryTypeOK

-----------------------------------------------------------------------------
(* Types at the start.                                                     *)
LEMMA InitInventoryTypes == InventoryInit => InventoryTypes
<1> SUFFICES ASSUME InventoryInit PROVE InventoryTypes
  OBVIOUS
<1>1. /\ inventory \in [InventoryFiles -> Contents]
      /\ \A f \in InventoryFiles : Sound(inventory[f])
  BY InventoryAssumption DEF InventoryInit
<1>2. asked \in 0..MaxRequests
  BY InventoryAssumption DEF InventoryInit
<1> QED
  BY <1>1, <1>2 DEF InventoryInit, InventoryTypes, InventoryTypeOK

(* Every step keeps the types.                                             *)
LEMMA NextInventoryTypes ==
  InventoryTypes /\ [InventoryNext]_inventoryVars => InventoryTypes'
<1> SUFFICES ASSUME InventoryTypes, [InventoryNext]_inventoryVars
             PROVE  InventoryTypes'
  OBVIOUS
<1>0. /\ inventory \in [InventoryFiles -> Contents]
      /\ \A f \in InventoryFiles : Sound(inventory[f])
      /\ mixed \in BOOLEAN /\ asked \in 0..MaxRequests
      /\ \A t \in InventoryThreads : edit[t] # NoChange =>
           Sound(edit[t].new) /\ OneGroup(edit[t]) /\ edit[t] \in Editing
  BY EditFacts DEF InventoryTypes, InventoryTypeOK
<1>a. ASSUME NEW t \in InventoryThreads, OnlyEdit(t),
             edit'[t] # NoChange => Sound(edit'[t].new) /\ OneGroup(edit'[t]),
             inventory' \in [InventoryFiles -> Contents],
             \A f \in InventoryFiles : Sound(inventory'[f]),
             mixed' \in BOOLEAN, asked' \in 0..MaxRequests
      PROVE  InventoryTypes'
  BY <1>0, <1>a DEF OnlyEdit, InventoryTypes, InventoryTypeOK
<1>1. ASSUME NEW t \in InventoryThreads, Asks(t)
      PROVE  InventoryTypes'
  BY <1>0, <1>1, <1>a, AskFacts, BlankFacts
<1>2. ASSUME NEW t \in InventoryThreads, Load(t)
      PROVE  InventoryTypes'
  <2>1. edit[t] # NoChange /\ edit[t] \in Editing /\ Asking(edit[t])
    BY <1>2, EditLoadFacts, EditFacts
  <2>2. PICK f \in edit[t].todo :
          \/ /\ Writes(edit[t], inventory[f])
             /\ edit'[t].new = Written(edit[t], inventory[f])
             /\ SameRequest(edit[t], edit'[t])
          \/ edit'[t] = Onward(edit[t], f, FALSE)
    BY <1>2, EditLoadFacts
  <2>3. inventory[f] \in Contents /\ Sound(inventory[f])
    BY <1>0, <2>1 DEF Editing
  <2>4. OneGroup(edit'[t])
    <3>1. CASE SameRequest(edit[t], edit'[t])
      BY <1>0, <2>1, <3>1 DEF SameRequest, OneGroup
    <3>2. CASE edit'[t] = Onward(edit[t], f, FALSE)
      BY <1>0, <2>1, <3>2, OnwardRests
    <3> QED
      BY <2>2, <3>1, <3>2
  <2>5. Sound(edit'[t].new)
    <3>1. CASE /\ Writes(edit[t], inventory[f])
               /\ edit'[t].new = Written(edit[t], inventory[f])
      BY <1>0, <2>1, <2>3, <3>1, WrittenSound
    <3>2. CASE edit'[t] = Onward(edit[t], f, FALSE)
      BY <1>0, <2>1, <3>2, OnwardRests
    <3> QED
      BY <2>2, <3>1, <3>2
  <2> QED
    BY <1>0, <1>2, <1>a, <2>4, <2>5, EditLoadFacts
<1>3. ASSUME NEW t \in InventoryThreads, TruncateInventory(t)
      PROVE  InventoryTypes'
  <2>1. /\ edit' \in [InventoryThreads -> Editing \cup {NoChange}]
        /\ inventory' = [inventory EXCEPT ![edit[t].file] = Blank]
        /\ mixed' = mixed /\ asked' = asked
        /\ \A u \in InventoryThreads : edit'[u] # NoChange =>
             /\ edit[u] # NoChange /\ SameRequest(edit[u], edit'[u])
             /\ edit'[u].new = edit[u].new
    BY <1>3, EditTruncateFacts
  <2>2. \A u \in InventoryThreads : edit'[u] # NoChange =>
          Sound(edit'[u].new) /\ OneGroup(edit'[u])
    BY <1>0, <2>1 DEF SameRequest, OneGroup
  <2> QED
    BY <1>0, <2>1, <2>2, BlankFacts DEF InventoryTypes, InventoryTypeOK
<1>4. ASSUME NEW t \in InventoryThreads, DumpInventory(t)
      PROVE  InventoryTypes'
  <2>1. /\ OnlyEdit(t) /\ edit[t] # NoChange
        /\ edit'[t] = Onward(edit[t], edit[t].file, TRUE)
        /\ inventory' = [inventory EXCEPT ![edit[t].file] = edit[t].new]
        /\ mixed' = mixed /\ asked' = asked
    BY <1>4, DumpFacts
  <2>2. edit[t] \in Editing /\ edit[t].new \in Contents
        /\ Sound(edit[t].new)
    BY <1>0, <2>1 DEF Editing
  <2>3. OneGroup(edit'[t]) /\ Sound(edit'[t].new)
    BY <1>0, <2>1, <2>2, OnwardRests
  <2> QED
    BY <1>0, <1>a, <2>1, <2>2, <2>3
<1>5. ASSUME NEW t \in InventoryThreads, Reply(t)
      PROVE  InventoryTypes'
  BY <1>0, <1>5, <1>a, IdleFacts
<1>6. ASSUME NEW f \in InventoryFiles, DeleteFile(f)
      PROVE  InventoryTypes'
  <2>1. /\ inventory' = [inventory EXCEPT ![f] = Blank]
        /\ edit' = edit /\ mixed' = mixed
        /\ asked < MaxRequests /\ asked' = asked + 1
    BY <1>6 DEF DeleteFile
  <2>2. asked' \in 0..MaxRequests
    BY <1>0, <2>1, InventoryAssumption
  <2> QED
    BY <1>0, <2>1, <2>2, BlankFacts DEF InventoryTypes, InventoryTypeOK
<1>7. CASE ServerEnds
  BY <1>0, <1>7, IdleFacts DEF InventoryTypes, InventoryTypeOK
<1>8. CASE UNCHANGED inventoryVars
  BY <1>8 DEF inventoryVars, InventoryTypes, InventoryTypeOK
<1> QED
  BY <1>1, <1>2, <1>3, <1>4, <1>5, <1>6, <1>7, <1>8, InventoryCases

-----------------------------------------------------------------------------
(* While no read went wrong, a file is saved by one thread at a time: what *)
(* is about to be written follows from what the file holds, and a file     *)
(* that is being written is empty.                                         *)
Saves(t) == EditAt(t, "truncate") \/ EditAt(t, "dump")
SavesWell(t) ==
  /\ EditAt(t, "truncate") =>
       edit[t].new = Written(edit[t], inventory[edit[t].file])
  /\ EditAt(t, "dump") => inventory[edit[t].file] = Blank
SaveInv ==
  ~mixed =>
    /\ \A t, u \in InventoryThreads :
         t # u /\ Saves(t) /\ Saves(u) => edit[t].file # edit[u].file
    /\ \A t \in InventoryThreads : SavesWell(t)

(* Nobody saves at the start.                                              *)
LEMMA InitSaves == InventoryInit => SaveInv
  BY DEF InventoryInit, SaveInv, Saves, SavesWell, EditAt

(* Every step keeps what the threads are about to save.                    *)
LEMMA NextSaves ==
  InventoryTypes /\ SaveInv /\ [InventoryNext]_inventoryVars => SaveInv'
<1> SUFFICES ASSUME InventoryTypes, SaveInv, [InventoryNext]_inventoryVars,
                    ~mixed'
             PROVE  /\ \A t, u \in InventoryThreads :
                         t # u /\ Saves(t)' /\ Saves(u)' =>
                           edit'[t].file # edit'[u].file
                    /\ \A t \in InventoryThreads : SavesWell(t)'
  BY DEF SaveInv
<1>0. /\ \A t \in InventoryThreads : edit[t] # NoChange =>
           edit[t] \in Editing /\ Asking(edit[t]) /\ OneGroup(edit[t])
      /\ inventory \in [InventoryFiles -> Contents]
  BY EditFacts DEF InventoryTypes, InventoryTypeOK
<1>i. ~mixed => /\ \A t, u \in InventoryThreads :
                     t # u /\ Saves(t) /\ Saves(u) =>
                       edit[t].file # edit[u].file
                /\ \A t \in InventoryThreads : SavesWell(t)
  BY DEF SaveInv
(* A step after which its thread saves nothing it did not save before.     *)
<1>a. ASSUME NEW t \in InventoryThreads, OnlyEdit(t), ~mixed,
             ~Saves(t)',
             \A u \in InventoryThreads \ {t} : Saves(u) =>
               inventory'[edit[u].file] = inventory[edit[u].file]
      PROVE  /\ \A s, u \in InventoryThreads :
                  s # u /\ Saves(s)' /\ Saves(u)' =>
                    edit'[s].file # edit'[u].file
             /\ \A s \in InventoryThreads : SavesWell(s)'
  <2>1. \A u \in InventoryThreads : Saves(u)' =>
          u # t /\ edit'[u] = edit[u] /\ Saves(u)
    BY <1>a DEF OnlyEdit, Saves, EditAt
  <2>2. ASSUME NEW u \in InventoryThreads PROVE SavesWell(u)'
    <3>1. CASE Saves(u)'
      <4>1. edit'[u] = edit[u] /\ SavesWell(u)
            /\ inventory'[edit[u].file] = inventory[edit[u].file]
        BY <1>a, <1>i, <2>1, <3>1
      <4> QED
        BY <4>1 DEF SavesWell, EditAt
    <3>2. CASE ~Saves(u)'
      BY <3>2 DEF SavesWell, Saves
    <3> QED
      BY <3>1, <3>2
  <2> QED
    BY <1>a, <1>i, <2>1, <2>2
<1>1. ASSUME NEW t \in InventoryThreads, Asks(t), ~mixed
      PROVE  SaveInv'
  <2>1. OnlyEdit(t) /\ inventory' = inventory /\ edit'[t].step = "read"
    BY <1>1, AskFacts
  <2> QED
    BY <1>1, <1>a, <2>1 DEF SaveInv, Saves, EditAt
<1>2. ASSUME NEW t \in InventoryThreads, Load(t), ~mixed
      PROVE  SaveInv'
  <2>1. /\ OnlyEdit(t) /\ inventory' = inventory
        /\ edit[t] # NoChange /\ edit'[t] # NoChange
    BY <1>2, EditLoadFacts
  <2>2. PICK f \in edit[t].todo :
          /\ mixed' = Crosses(t, f, Writes(edit[t], inventory[f]))
          /\ \/ /\ Writes(edit[t], inventory[f])
                /\ edit'[t].step = "truncate" /\ edit'[t].file = f
                /\ edit'[t].new = Written(edit[t], inventory[f])
                /\ SameRequest(edit[t], edit'[t])
             \/ /\ ~Writes(edit[t], inventory[f])
                /\ edit'[t] = Onward(edit[t], f, FALSE)
    BY <1>2, EditLoadFacts
  <2>3. CASE edit'[t] = Onward(edit[t], f, FALSE)
    <3>1. edit'[t].step \in {"read", "done"}
      BY <1>0, <2>1, <2>3, OnwardRests
    <3> QED
      BY <1>2, <1>a, <2>1, <3>1 DEF SaveInv, Saves, EditAt
  <2>4. CASE /\ Writes(edit[t], inventory[f])
             /\ edit'[t].step = "truncate" /\ edit'[t].file = f
             /\ edit'[t].new = Written(edit[t], inventory[f])
             /\ SameRequest(edit[t], edit'[t])
    <3>1. \A u \in InventoryThreads \ {t} : Saves(u) => edit[u].file # f
      BY <2>2, <2>4 DEF Crosses, Saves
    <3>2. \A u \in InventoryThreads \ {t} :
            edit'[u] = edit[u] /\ (Saves(u)' <=> Saves(u))
      BY <2>1 DEF OnlyEdit, Saves, EditAt
    <3>3. SavesWell(t)'
      <4>1. Written(edit'[t], inventory[f]) = Written(edit[t], inventory[f])
        BY <2>4, SameWritten DEF SameRequest
      <4> QED
        BY <2>1, <2>4, <4>1 DEF SavesWell, EditAt
    <3>4. \A u \in InventoryThreads \ {t} : SavesWell(u)'
      BY <1>2, <1>i, <2>1, <3>2 DEF SavesWell, EditAt
    <3> QED
      BY <1>2, <1>i, <2>4, <3>1, <3>2, <3>3, <3>4 DEF SaveInv
  <2> QED
    BY <2>2, <2>3, <2>4
<1>3. ASSUME NEW t \in InventoryThreads, TruncateInventory(t), ~mixed
      PROVE  SaveInv'
  <2>1. /\ edit[t] # NoChange /\ edit[t].step = "truncate"
        /\ inventory' = [inventory EXCEPT ![edit[t].file] = Blank]
        /\ edit'[t].step = "dump" /\ edit'[t].file = edit[t].file
        /\ edit'[t] # NoChange
    BY <1>3, EditTruncateFacts
  <2>2. ASSUME NEW u \in InventoryThreads \ {t}
        PROVE  /\ edit'[u] = NoChange <=> edit[u] = NoChange
               /\ edit[u] # NoChange =>
                    /\ SameRequest(edit[u], edit'[u])
                    /\ edit'[u].step = edit[u].step
                    /\ edit'[u].file = edit[u].file
                    /\ edit'[u].new = edit[u].new
    BY <1>3, EditTruncateFacts
  <2>3. \A u \in InventoryThreads : Saves(u)' =>
          Saves(u) /\ edit'[u].file = edit[u].file
    BY <2>1, <2>2 DEF Saves, EditAt
  <2>4. edit[t].file \in InventoryFiles /\ inventory'[edit[t].file] = Blank
    BY <1>0, <2>1 DEF Editing
  <2>5. SavesWell(t)'
    BY <2>1, <2>4 DEF SavesWell, EditAt
  <2>6. ASSUME NEW u \in InventoryThreads \ {t} PROVE SavesWell(u)'
    <3>1. CASE Saves(u)
      <4>1. edit[u].file # edit[t].file /\ edit[u] # NoChange
        BY <1>3, <1>i, <2>1, <3>1 DEF Saves, EditAt
      <4>2. edit[u].file \in InventoryFiles
        BY <1>0, <4>1 DEF Editing
      <4>3. inventory'[edit[u].file] = inventory[edit[u].file]
        BY <1>0, <2>1, <4>1, <4>2
      <4>4. Written(edit'[u], inventory[edit[u].file])
              = Written(edit[u], inventory[edit[u].file])
        BY <2>2, <4>1, SameWritten DEF SameRequest
      <4> QED
        BY <1>3, <1>i, <2>2, <4>1, <4>3, <4>4 DEF SavesWell, EditAt
    <3>2. CASE ~Saves(u)
      BY <2>3, <3>2 DEF SavesWell, Saves
    <3> QED
      BY <3>1, <3>2
  <2> QED
    BY <1>3, <1>i, <2>3, <2>5, <2>6 DEF SaveInv
<1>4. ASSUME NEW t \in InventoryThreads, DumpInventory(t), ~mixed
      PROVE  SaveInv'
  <2>1. /\ OnlyEdit(t) /\ edit[t] # NoChange /\ edit[t].step = "dump"
        /\ edit'[t] = Onward(edit[t], edit[t].file, TRUE)
        /\ inventory' = [inventory EXCEPT ![edit[t].file] = edit[t].new]
    BY <1>4, DumpFacts
  <2>2. edit'[t].step \in {"read", "done"}
    BY <1>0, <2>1, OnwardRests
  <2>3. ASSUME NEW u \in InventoryThreads \ {t}, Saves(u)
        PROVE  inventory'[edit[u].file] = inventory[edit[u].file]
    <3>1. edit[u].file # edit[t].file /\ edit[u] # NoChange
      BY <1>4, <1>i, <2>1, <2>3 DEF Saves, EditAt
    <3>2. edit[u].file \in InventoryFiles
      BY <1>0, <3>1 DEF Editing
    <3> QED
      BY <1>0, <2>1, <3>1, <3>2
  <2> QED
    BY <1>4, <1>a, <2>1, <2>2, <2>3 DEF SaveInv, Saves, EditAt
<1>5. ASSUME NEW t \in InventoryThreads, Reply(t), ~mixed
      PROVE  SaveInv'
  <2>1. OnlyEdit(t) /\ inventory' = inventory /\ edit'[t] = NoChange
    BY <1>5, IdleFacts
  <2> QED
    BY <1>5, <1>a, <2>1 DEF SaveInv, Saves, EditAt
<1>6. ASSUME NEW f \in InventoryFiles, DeleteFile(f)
      PROVE  SaveInv'
  <2>1. edit' = edit /\ \A t \in InventoryThreads : edit[t] = NoChange
    BY <1>6 DEF DeleteFile
  <2> QED
    BY <2>1 DEF SaveInv, Saves, SavesWell, EditAt
<1>7. CASE ServerEnds
  <2>1. \A t \in InventoryThreads : edit'[t] = NoChange
    BY <1>7 DEF ServerEnds
  <2> QED
    BY <2>1 DEF SaveInv, Saves, SavesWell, EditAt
<1>8. CASE UNCHANGED inventoryVars
  BY <1>8, <1>i DEF inventoryVars, Saves, SavesWell, EditAt
<1> QED
  BY <1>1, <1>2, <1>3, <1>4, <1>5, <1>6, <1>7, <1>8, InventoryCases
  DEF SaveInv

-----------------------------------------------------------------------------
(* A host that is moved, while nobody else begins to write: it is in none  *)
(* of the files that were gone through, nobody is writing these, and what  *)
(* is about to be written is right.                                        *)
HasNone(e, c) == \A p \in Places, h \in e.hosts : <<p, h>> \notin c.hosts
HasAsked(e, c) ==
  \A h \in e.hosts :
    LET places == {p \in Places : <<p, h>> \in c.hosts} IN
    All \notin places /\ {p[Len(p)] : p \in places} = e.groups
NotWriting(t, f) ==
  \A u \in InventoryThreads : u # t /\ EditAt(u, "dump") => edit[u].file # f
Moving(t) ==
  LET e == edit[t] IN
  /\ e.step \in {"truncate", "dump"} => e.file \in e.todo /\ NotWriting(t, e.file)
  /\ e.op = "move" =>
       /\ \A f \in InventoryFiles \ e.todo :
            NotWriting(t, f) /\ HasNone(e, inventory[f])
       /\ e.step \in {"truncate", "dump"} => HasNone(e, e.new)
       /\ e.step = "done" => e.groups = {} /\ e.todo = {}
  /\ e.op = "place" =>
       /\ NotWriting(t, Primary)
       /\ \A f \in InventoryFiles \ {Primary} :
            NotWriting(t, f) /\ HasNone(e, inventory[f])
       /\ e.step = "read" =>
            e.todo = {Primary} /\ HasNone(e, inventory[Primary])
       /\ e.step \in {"truncate", "dump"} =>
            e.todo = {Primary} /\ e.file = Primary /\ HasAsked(e, e.new)
       /\ e.step = "done" => HasAsked(e, inventory[Primary])
MoveInv ==
  ~mixed => \A t \in InventoryThreads :
    edit[t] # NoChange /\ edit[t].alone => Moving(t)

(* A move leaves the hosts it is about at none of their places.            *)
LEMMA MovedHasNone ==
  ASSUME NEW c \in Contents, NEW e, e.op = "move"
  PROVE  /\ HasNone(e, Written(e, c))
         /\ Sound(c) /\ ~Writes(e, c) => HasNone(e, c)
<1>1. HasNone(e, Written(e, c))
  BY MovedFields DEF HasNone
<1>2. Sound(c) /\ ~Writes(e, c) => HasNone(e, c)
  BY DEF HasNone, Sound, Writes
<1> QED
  BY <1>1, <1>2

(* Placing leaves them at the places asked for.                            *)
LEMMA PlacedHasAsked ==
  ASSUME NEW c \in Contents, NEW e, e.op = "place", Asking(e), HasNone(e, c)
  PROVE  HasAsked(e, Written(e, c))
<1> SUFFICES ASSUME NEW h \in e.hosts
             PROVE  LET places == {p \in Places :
                                     <<p, h>> \in Written(e, c).hosts} IN
                    All \notin places
                      /\ {p[Len(p)] : p \in places} = e.groups
  BY DEF HasAsked
<1> DEFINE places == {p \in Places : <<p, h>> \in Written(e, c).hosts}
<1>1. Written(e, c).hosts = c.hosts \cup (PlacesOf(e, c) \X e.hosts)
  BY PlacedFields
<1>2. places = PlacesOf(e, c)
  <2>1. PlacesOf(e, c) \subseteq Places
    BY PlaceSets
  <2>2. \A p \in Places : <<p, h>> \notin c.hosts
    BY DEF HasNone
  <2> QED
    BY <1>1, <2>1, <2>2
<1>3. \A g \in e.groups :
        PlaceOf(c, g) # All /\ PlaceOf(c, g)[Len(PlaceOf(c, g))] = g
  BY PlaceFacts DEF Asking
<1>4. All \notin PlacesOf(e, c)
  BY <1>3 DEF PlacesOf
<1>5. {p[Len(p)] : p \in PlacesOf(e, c)} = e.groups
  BY <1>3 DEF PlacesOf
<1> QED
  BY <1>2, <1>4, <1>5

(* Where a request has its hosts depends on its hosts and groups alone.    *)
LEMMA SameHas ==
  ASSUME NEW e, NEW d, d.hosts = e.hosts, d.groups = e.groups, NEW c
  PROVE  /\ HasNone(e, c) => HasNone(d, c)
         /\ HasAsked(e, c) => HasAsked(d, c)
  BY DEF HasNone, HasAsked

(* Nobody moves anything at the start.                                     *)
LEMMA InitMoves == InventoryInit => MoveInv
  BY DEF InventoryInit, MoveInv

(* Another's step is none of its business, if it begins no write.          *)
LEMMA MovingKept ==
  ASSUME NEW t \in InventoryThreads, edit'[t] = edit[t], Moving(t),
         InventoryTypes, edit[t] # NoChange,
         \A u \in InventoryThreads \ {t} : EditAt(u, "dump")' =>
           EditAt(u, "dump") /\ edit'[u].file = edit[u].file,
         \A f \in InventoryFiles : NotWriting(t, f) => inventory'[f] = inventory[f]
  PROVE  Moving(t)'
<1>1. \A f : NotWriting(t, f) => NotWriting(t, f)'
  BY DEF NotWriting
<1>2. Primary \in InventoryFiles
  BY InventoryAssumption
<1> QED
  BY <1>1, <1>2 DEF Moving

(* Loading a file keeps the moves on their way.                            *)
LEMMA LoadMoves ==
  ASSUME InventoryTypes, NEW t \in InventoryThreads, Load(t), Moving(t),
         ~mixed'
  PROVE  Moving(t)'
<1>1. /\ OnlyEdit(t) /\ inventory' = inventory
      /\ edit[t] # NoChange /\ edit[t].step = "read"
      /\ edit[t] \in Editing /\ Asking(edit[t]) /\ OneGroup(edit[t])
  BY EditLoadFacts, EditFacts DEF InventoryTypes
<1>2. PICK f \in edit[t].todo :
        /\ mixed' = Crosses(t, f, Writes(edit[t], inventory[f]))
        /\ \/ /\ Writes(edit[t], inventory[f])
              /\ edit'[t].step = "truncate" /\ edit'[t].file = f
              /\ edit'[t].new = Written(edit[t], inventory[f])
              /\ SameRequest(edit[t], edit'[t])
           \/ /\ ~Writes(edit[t], inventory[f])
              /\ edit'[t] = Onward(edit[t], f, FALSE)
  BY EditLoadFacts
<1>3. f \in InventoryFiles /\ inventory[f] \in Contents /\ Sound(inventory[f])
  BY <1>1 DEF Editing, InventoryTypes, InventoryTypeOK
<1>4. \A k : NotWriting(t, k)' <=> NotWriting(t, k)
  BY <1>1 DEF NotWriting, OnlyEdit, EditAt
<1>5. NotWriting(t, f)
  BY <1>2 DEF Crosses, NotWriting
<1>6. CASE /\ Writes(edit[t], inventory[f])
           /\ edit'[t].step = "truncate" /\ edit'[t].file = f
           /\ edit'[t].new = Written(edit[t], inventory[f])
           /\ SameRequest(edit[t], edit'[t])
  <2> DEFINE e == edit[t]
             d == edit'[t]
  <2>1. /\ d.op = e.op /\ d.todo = e.todo
        /\ \A c : /\ HasNone(e, c) => HasNone(d, c)
                  /\ HasAsked(e, c) => HasAsked(d, c)
    BY <1>6, SameHas DEF SameRequest
  <2>2. d.op = "move" => HasNone(d, d.new)
    BY <1>3, <1>6, <2>1, MovedHasNone
  <2>3. d.op = "place" =>
          d.todo = {Primary} /\ f = Primary /\ HasAsked(d, d.new)
    <3>1. ASSUME d.op = "place"
          PROVE  d.todo = {Primary} /\ f = Primary
      BY <1>1, <1>2, <2>1, <3>1 DEF Moving
    <3>2. ASSUME d.op = "place" PROVE HasAsked(d, d.new)
      <4>1. e.op = "place" /\ HasNone(e, inventory[f])
        BY <1>1, <2>1, <3>1, <3>2 DEF Moving
      <4>2. HasAsked(e, d.new)
        BY <1>1, <1>3, <1>6, <4>1, PlacedHasAsked
      <4> QED
        BY <2>1, <4>2
    <3> QED
      BY <3>1, <3>2
  <2>4. d.op = "move" => \A k \in InventoryFiles \ d.todo :
          NotWriting(t, k)' /\ HasNone(d, inventory'[k])
    BY <1>1, <1>4, <2>1 DEF Moving
  <2>5. d.op = "place" => NotWriting(t, Primary)' /\
          \A k \in InventoryFiles \ {Primary} :
            NotWriting(t, k)' /\ HasNone(d, inventory'[k])
    BY <1>1, <1>4, <2>1 DEF Moving
  <2> QED
    BY <1>2, <1>4, <1>5, <1>6, <2>1, <2>2, <2>3, <2>4, <2>5 DEF Moving
<1>7. CASE /\ ~Writes(edit[t], inventory[f])
           /\ edit'[t] = Onward(edit[t], f, FALSE)
  <2> DEFINE e == edit[t]
             d == edit'[t]
             rest == e.todo \ {f}
  <2>0. FALSE \in BOOLEAN
    OBVIOUS
  <2>1. /\ d.hosts = e.hosts /\ d.groups = e.groups
        /\ \/ /\ e.op = "move" /\ rest = {}
              /\ d.step = "read" /\ d.op = "place" /\ d.todo = {Primary}
           \/ /\ e.op = "move" => rest = {} /\ e.groups = {}
              /\ d.step = "done" /\ d.op = e.op /\ d.todo = {}
           \/ /\ d.step = "read" /\ d.op = e.op /\ d.todo = rest
    <3> DEFINE n == Onward(e, f, FALSE)
    <3>1. /\ n.hosts = e.hosts /\ n.groups = e.groups
          /\ \/ /\ e.op = "move" /\ rest = {}
                /\ n.step = "read" /\ n.op = "place" /\ n.todo = {Primary}
             \/ /\ e.op = "move" => rest = {} /\ e.groups = {}
                /\ n.step = "done" /\ n.op = e.op /\ n.todo = {}
             \/ /\ n.step = "read" /\ n.op = e.op /\ n.todo = rest
      BY <1>1, <2>0, OnwardFacts
    <3>2. d = n
      BY <1>7
    <3> HIDE DEF n
    <3> QED
      BY <3>1, <3>2
  <2>2. e.op # "place"
    BY <1>7 DEF Writes
  <2>3. ASSUME e.op = "move", NEW k \in InventoryFiles \ rest
        PROVE  NotWriting(t, k)' /\ HasNone(d, inventory'[k])
    <3>1. CASE k = f
      <4>1. HasNone(e, inventory[f])
        BY <1>3, <1>7, <2>3, MovedHasNone
      <4> QED
        BY <1>1, <1>4, <1>5, <2>1, <3>1, <4>1, SameHas
    <3>2. CASE k # f
      <4>1. NotWriting(t, k) /\ HasNone(e, inventory[k])
        BY <2>3, <3>2 DEF Moving
      <4> QED
        BY <1>1, <1>4, <2>1, <4>1, SameHas
    <3> QED
      BY <3>1, <3>2
  <2>4. Primary \in InventoryFiles
    BY InventoryAssumption
  <2>5. CASE e.op = "move" /\ rest = {} /\ d.step = "read"
               /\ d.op = "place" /\ d.todo = {Primary}
    BY <2>3, <2>4, <2>5 DEF Moving
  <2>6. CASE /\ e.op = "move" => rest = {} /\ e.groups = {}
             /\ d.step = "done" /\ d.op = e.op /\ d.todo = {}
    BY <2>1, <2>2, <2>3, <2>6 DEF Moving
  <2>7. CASE d.step = "read" /\ d.op = e.op /\ d.todo = rest
    BY <2>2, <2>3, <2>7 DEF Moving
  <2> QED
    BY <2>1, <2>5, <2>6, <2>7
<1> QED
  BY <1>2, <1>6, <1>7

(* Emptying a file keeps the moves on their way.                           *)
LEMMA TruncateMoves ==
  ASSUME InventoryTypes, NEW t \in InventoryThreads, TruncateInventory(t),
         Moving(t)
  PROVE  Moving(t)'
<1> DEFINE e == edit[t]
           d == edit'[t]
<1>1. /\ e # NoChange /\ e.step = "truncate" /\ d.step = "dump"
      /\ inventory' = [inventory EXCEPT ![e.file] = Blank]
      /\ d.file = e.file /\ d.new = e.new
      /\ SameRequest(e, d)
  BY EditTruncateFacts
<1>2. ASSUME NEW u \in InventoryThreads \ {t}
      PROVE  /\ EditAt(u, "dump")' => EditAt(u, "dump")
             /\ edit[u] # NoChange => edit'[u].file = edit[u].file
  BY EditTruncateFacts DEF EditAt
<1>3. \A k : NotWriting(t, k) => NotWriting(t, k)'
  BY <1>2 DEF NotWriting, EditAt
<1>4. \A k \in InventoryFiles : k # e.file => inventory'[k] = inventory[k]
  BY <1>1 DEF InventoryTypes, InventoryTypeOK
<1>5. /\ d.op = e.op /\ d.todo = e.todo /\ d.groups = e.groups
      /\ \A c : /\ HasNone(e, c) => HasNone(d, c)
                /\ HasAsked(e, c) => HasAsked(d, c)
  BY <1>1, SameHas DEF SameRequest
<1>6. d.op = "move" => \A k \in InventoryFiles \ d.todo :
        NotWriting(t, k)' /\ HasNone(d, inventory'[k])
  BY <1>1, <1>3, <1>4, <1>5 DEF Moving
<1>7. d.op = "place" => NotWriting(t, Primary)' /\
        \A k \in InventoryFiles \ {Primary} :
          NotWriting(t, k)' /\ HasNone(d, inventory'[k])
  BY <1>1, <1>3, <1>4, <1>5 DEF Moving
<1>8. d.file \in d.todo /\ NotWriting(t, edit[t].file)'
  <2>1. e.file \in e.todo /\ NotWriting(t, e.file)
    BY <1>1 DEF Moving
  <2>2. d.file \in d.todo /\ NotWriting(t, e.file)'
    BY <1>1, <1>3, <1>5, <2>1
  <2> QED
    BY <1>1, <2>2 DEF NotWriting
<1>9. /\ d.op = "move" => HasNone(d, d.new)
      /\ d.op = "place" =>
           d.todo = {Primary} /\ d.file = Primary /\ HasAsked(d, d.new)
  BY <1>1, <1>5 DEF Moving
<1> QED
  BY <1>1, <1>6, <1>7, <1>8, <1>9 DEF Moving

(* Writing a file keeps the moves on their way.                            *)
LEMMA DumpMoves ==
  ASSUME InventoryTypes, NEW t \in InventoryThreads, DumpInventory(t),
         Moving(t)
  PROVE  Moving(t)'
<1> DEFINE e == edit[t]
           d == edit'[t]
           rest == e.todo \ {e.file}
<1>1. /\ OnlyEdit(t) /\ e # NoChange /\ e.step = "dump"
      /\ d = Onward(e, e.file, TRUE)
      /\ inventory' = [inventory EXCEPT ![e.file] = e.new]
      /\ e \in Editing
  BY DumpFacts, EditFacts
<1>2. \A k : NotWriting(t, k)' <=> NotWriting(t, k)
  BY <1>1 DEF NotWriting, OnlyEdit, EditAt
<1>3. /\ \A k \in InventoryFiles : k # e.file => inventory'[k] = inventory[k]
      /\ inventory'[e.file] = e.new
  BY <1>1 DEF InventoryTypes, InventoryTypeOK, Editing
<1>4. /\ d.hosts = e.hosts /\ d.groups = e.groups
      /\ \/ /\ e.op = "move" /\ rest = {}
            /\ d.step = "read" /\ d.op = "place" /\ d.todo = {Primary}
         \/ /\ e.op = "move" => rest = {} /\ e.groups = {}
            /\ d.step = "done" /\ d.op = e.op /\ d.todo = {}
         \/ /\ d.step = "read" /\ d.op = e.op /\ d.todo = rest
            /\ rest # {}
  <2> DEFINE n == Onward(e, e.file, TRUE)
  <2>1. /\ n.hosts = e.hosts /\ n.groups = e.groups
        /\ \/ /\ e.op = "move" /\ rest = {}
              /\ n.step = "read" /\ n.op = "place" /\ n.todo = {Primary}
           \/ /\ e.op = "move" => rest = {} /\ e.groups = {}
              /\ n.step = "done" /\ n.op = e.op /\ n.todo = {}
           \/ /\ n.step = "read" /\ n.op = e.op /\ n.todo = rest
              /\ rest # {}
    BY <1>1, OnwardFacts
  <2>2. d = n
    BY <1>1
  <2> HIDE DEF n
  <2> QED
    BY <2>1, <2>2
<1>5. \A c : /\ HasNone(e, c) => HasNone(d, c)
             /\ HasAsked(e, c) => HasAsked(d, c)
  BY <1>4, SameHas
<1>6. ASSUME e.op = "move", NEW k \in InventoryFiles \ rest
      PROVE  NotWriting(t, k)' /\ HasNone(d, inventory'[k])
  <2>1. CASE k = e.file
    BY <1>1, <1>2, <1>3, <1>5, <1>6, <2>1 DEF Moving
  <2>2. CASE k # e.file
    BY <1>1, <1>2, <1>3, <1>5, <1>6, <2>2 DEF Moving
  <2> QED
    BY <2>1, <2>2
<1>7. Primary \in InventoryFiles
  BY InventoryAssumption
<1>8. CASE e.op = "move" /\ rest = {} /\ d.step = "read"
             /\ d.op = "place" /\ d.todo = {Primary}
  BY <1>6, <1>7, <1>8 DEF Moving
<1>9. CASE e.op = "move" /\ rest = {} /\ e.groups = {}
           /\ d.step = "done" /\ d.op = e.op /\ d.todo = {}
  BY <1>4, <1>6, <1>9 DEF Moving
<1>10. CASE e.op = "move" /\ d.step = "read" /\ d.op = e.op /\ d.todo = rest
  BY <1>6, <1>10 DEF Moving
<1>11. CASE e.op = "place"
  <2>1. e.todo = {Primary} /\ e.file = Primary /\ HasAsked(e, e.new)
    BY <1>1, <1>11 DEF Moving
  <2>2. d.step = "done" /\ d.op = "place"
    BY <1>4, <1>11, <2>1
  <2>3. HasAsked(d, inventory'[Primary])
    BY <1>3, <1>5, <2>1
  <2>4. NotWriting(t, Primary)' /\ \A k \in InventoryFiles \ {Primary} :
          NotWriting(t, k)' /\ HasNone(d, inventory'[k])
    BY <1>2, <1>3, <1>5, <1>11, <2>1 DEF Moving
  <2> QED
    BY <2>2, <2>3, <2>4 DEF Moving
<1>12. CASE e.op \notin {"move", "place"}
  <2>1. d.step \in {"read", "done"} /\ d.op = e.op
    BY <1>4, <1>12
  <2> QED
    BY <1>12, <2>1 DEF Moving
<1> QED
  BY <1>4, <1>8, <1>9, <1>10, <1>11, <1>12

(* Every step keeps the moves on their way.                                *)
LEMMA NextMoves ==
  InventoryTypes /\ MoveInv /\ [InventoryNext]_inventoryVars => MoveInv'
<1> SUFFICES ASSUME InventoryTypes, MoveInv, [InventoryNext]_inventoryVars,
                    ~mixed', NEW t \in InventoryThreads,
                    edit'[t] # NoChange, edit'[t].alone
             PROVE  Moving(t)'
  BY DEF MoveInv
<1>0. inventory \in [InventoryFiles -> Contents]
  BY DEF InventoryTypes, InventoryTypeOK
<1>i. ~mixed /\ edit[t] # NoChange /\ edit[t].alone => Moving(t)
  BY DEF MoveInv
(* A step of another thread that begins no write.                          *)
<1>a. ASSUME NEW s \in InventoryThreads \ {t}, OnlyEdit(s), ~mixed,
             ~EditAt(s, "dump")',
             \A f \in InventoryFiles :
               NotWriting(t, f) => inventory'[f] = inventory[f]
      PROVE  Moving(t)'
  <2>1. \A u \in InventoryThreads \ {t} : EditAt(u, "dump")' =>
          EditAt(u, "dump") /\ edit'[u].file = edit[u].file
    BY <1>a DEF OnlyEdit, EditAt
  <2>2. edit'[t] = edit[t]
    BY <1>a DEF OnlyEdit
  <2> QED
    BY <1>a, <1>i, <2>1, <2>2, MovingKept
<1>1. ASSUME NEW s \in InventoryThreads, Asks(s), ~mixed
      PROVE  Moving(t)'
  <2>1. /\ OnlyEdit(s) /\ inventory' = inventory
        /\ edit'[s].step = "read" /\ edit'[s].op # "place"
        /\ edit'[s].op = "move" => edit'[s].todo = InventoryFiles
    BY <1>1, AskFacts
  <2>2. CASE s = t
    BY <2>1, <2>2 DEF Moving
  <2>3. CASE s # t
    BY <1>1, <1>a, <2>1, <2>3 DEF EditAt
  <2> QED
    BY <2>2, <2>3
<1>2. ASSUME NEW s \in InventoryThreads, Load(s), ~mixed
      PROVE  Moving(t)'
  <2>1. /\ OnlyEdit(s) /\ inventory' = inventory
        /\ edit[s] # NoChange /\ edit[s] \in Editing /\ OneGroup(edit[s])
        /\ edit'[s].alone = edit[s].alone
    BY <1>2, EditLoadFacts, EditFacts DEF InventoryTypes
  <2>2. edit'[s].step # "dump"
    BY <1>2, <2>1, EditLoadFacts, OnwardRests
  <2>3. CASE s = t
    BY <1>2, <1>i, <2>1, <2>3, LoadMoves
  <2>4. CASE s # t
    BY <1>2, <1>a, <2>1, <2>2, <2>4 DEF EditAt
  <2> QED
    BY <2>3, <2>4
<1>3. ASSUME NEW s \in InventoryThreads, TruncateInventory(s), ~mixed
      PROVE  Moving(t)'
  <2>1. edit[t] # NoChange
    BY <1>3, EditTruncateFacts
  <2>2. s = t
    BY <1>3, <2>1, EditTruncateFacts
  <2>3. edit[t].alone
    BY <1>3, <2>2, EditTruncateFacts
  <2> QED
    BY <1>3, <1>i, <2>1, <2>2, <2>3, TruncateMoves
<1>4. ASSUME NEW s \in InventoryThreads, DumpInventory(s), ~mixed
      PROVE  Moving(t)'
  <2>1. /\ OnlyEdit(s) /\ edit[s] # NoChange /\ edit[s].step = "dump"
        /\ edit'[s] = Onward(edit[s], edit[s].file, TRUE)
        /\ inventory' = [inventory EXCEPT ![edit[s].file] = edit[s].new]
        /\ edit[s] \in Editing /\ OneGroup(edit[s])
    BY <1>4, DumpFacts, EditFacts DEF InventoryTypes
  <2>2. edit'[s].step # "dump" /\ edit'[s].alone = edit[s].alone
    <3>1. edit'[s].step # "dump"
      BY <2>1, OnwardRests
    <3>2. Onward(edit[s], edit[s].file, TRUE).alone = edit[s].alone
      BY <2>1, OnwardFacts
    <3> QED
      BY <2>1, <3>1, <3>2
  <2>3. CASE s = t
    BY <1>4, <1>i, <2>1, <2>2, <2>3, DumpMoves
  <2>4. CASE s # t
    <3>1. ASSUME NEW f \in InventoryFiles, NotWriting(t, f)
          PROVE  inventory'[f] = inventory[f]
      <4>1. edit[s].file # f
        BY <2>1, <2>4, <3>1 DEF NotWriting, EditAt
      <4> QED
        BY <1>0, <2>1, <4>1
    <3> QED
      BY <1>4, <1>a, <2>1, <2>2, <2>4, <3>1 DEF EditAt
  <2> QED
    BY <2>3, <2>4
<1>5. ASSUME NEW s \in InventoryThreads, Reply(s), ~mixed
      PROVE  Moving(t)'
  <2>1. OnlyEdit(s) /\ inventory' = inventory /\ edit'[s] = NoChange
    BY <1>5, IdleFacts
  <2> QED
    BY <1>5, <1>a, <2>1 DEF EditAt
<1>6. ASSUME NEW f \in InventoryFiles, DeleteFile(f)
      PROVE  Moving(t)'
  BY <1>6 DEF DeleteFile
<1>7. CASE ServerEnds
  BY <1>7 DEF ServerEnds
<1>8. CASE UNCHANGED inventoryVars
  <2>1. \A u : EditAt(u, "dump")' <=> EditAt(u, "dump")
    BY <1>8 DEF inventoryVars, EditAt
  <2> QED
    BY <1>8, <1>i, <2>1, MovingKept DEF inventoryVars
<1> QED
  BY <1>1, <1>2, <1>3, <1>4, <1>5, <1>6, <1>7, <1>8, InventoryCases

-----------------------------------------------------------------------------
(* The invariant of the inventories.                                       *)
InventoryInv == InventoryTypes /\ SaveInv /\ MoveInv

(* All of it together is inductive.                                        *)
LEMMA InventoryInvariant == InventorySpec => []InventoryInv
<1>1. InventoryInit => InventoryInv
  BY InitInventoryTypes, InitSaves, InitMoves DEF InventoryInv
<1>2. InventoryInv /\ [InventoryNext]_inventoryVars => InventoryInv'
  BY NextInventoryTypes, NextSaves, NextMoves DEF InventoryInv
<1> QED
  BY <1>1, <1>2, PTL DEF InventorySpec

(* Requests on the inventories keep to the types.                          *)
THEOREM InventoryTypeCorrect == InventorySpec => []InventoryTypeOK
<1>1. InventoryInv => InventoryTypeOK
  BY DEF InventoryInv, InventoryTypes
<1> QED
  BY <1>1, InventoryInvariant, PTL

(* When a change of a host's groups is answered, and no other request      *)
(* began to write since it was asked for, the host is in the groups that   *)
(* were asked for and nowhere else: whatever the files held, and whatever  *)
(* was half written when the request came.                                 *)
THEOREM InventoryHostWhereAsked == InventorySpec => []HostWhereAsked
<1>1. ASSUME InventoryInv, NEW t \in InventoryThreads,
             EditAt(t, "done"), edit[t].alone, ~mixed,
             edit[t].op = "place"
               \/ (edit[t].op = "move" /\ edit[t].groups = {}),
             NEW h \in edit[t].hosts
      PROVE  /\ All \notin EntriesOf(h)
             /\ {p[Len(p)] : p \in EntriesOf(h)} = edit[t].groups
  <2>1. Moving(t) /\ edit[t] # NoChange /\ edit[t].step = "done"
    BY <1>1 DEF InventoryInv, MoveInv, EditAt
  <2>2. CASE edit[t].op = "move" /\ edit[t].groups = {}
    <3>1. \A f \in InventoryFiles : HasNone(edit[t], inventory[f])
      BY <2>1, <2>2 DEF Moving
    <3>2. EntriesOf(h) = {}
      BY <1>1, <3>1 DEF EntriesOf, HasNone
    <3> QED
      BY <2>2, <3>2
  <2>3. CASE edit[t].op = "place"
    <3> DEFINE places == {p \in Places : <<p, h>> \in inventory[Primary].hosts}
    <3>1. /\ HasAsked(edit[t], inventory[Primary])
          /\ \A f \in InventoryFiles \ {Primary} :
               HasNone(edit[t], inventory[f])
      BY <2>1, <2>3 DEF Moving
    <3>2. All \notin places /\ {p[Len(p)] : p \in places} = edit[t].groups
      BY <1>1, <3>1 DEF HasAsked
    <3>3. ASSUME NEW f \in InventoryFiles, f # Primary
          PROVE  {p \in Places : <<p, h>> \in inventory[f].hosts} = {}
      BY <1>1, <3>1, <3>3 DEF HasNone
    <3>4. EntriesOf(h) = places
      BY <3>3, InventoryAssumption DEF EntriesOf
    <3> QED
      BY <3>2, <3>4
  <2> QED
    BY <1>1, <2>2, <2>3
<1>2. InventoryInv => HostWhereAsked
  BY <1>1 DEF HostWhereAsked
<1> QED
  BY <1>2, InventoryInvariant, PTL

-----------------------------------------------------------------------------
(* What a file holds, or is about to hold when it is being written.        *)
LEMMA ViewFacts ==
  ASSUME SaveInv, ~mixed, NEW f
  PROVE  /\ \A t \in InventoryThreads :
              EditAt(t, "dump") /\ edit[t].file = f => View(f) = edit[t].new
         /\ ~(\E t \in InventoryThreads : EditAt(t, "dump")
                                            /\ edit[t].file = f)
              => View(f) = inventory[f]
<1> DEFINE Dumps(t) == EditAt(t, "dump") /\ edit[t].file = f
           u == CHOOSE t \in InventoryThreads : Dumps(t)
<1>1. ASSUME NEW t \in InventoryThreads, Dumps(t)
      PROVE  View(f) = edit[t].new
  <2>1. u \in InventoryThreads /\ Dumps(u)
    BY <1>1
  <2>2. u = t
    BY <1>1, <2>1 DEF SaveInv, Saves
  <2>3. View(f) = edit[u].new
    BY <1>1 DEF View
  <2> QED
    BY <2>2, <2>3
<1>2. ~(\E t \in InventoryThreads : Dumps(t)) => View(f) = inventory[f]
  BY DEF View
<1> QED
  BY <1>1, <1>2

Seen ==
  SaveInv /\ ~mixed => \A f \in InventoryFiles :
    /\ \A t \in InventoryThreads :
         EditAt(t, "dump") /\ edit[t].file = f => View(f) = edit[t].new
    /\ ~(\E t \in InventoryThreads : EditAt(t, "dump") /\ edit[t].file = f)
         => View(f) = inventory[f]

(* What is seen of a file: the content about to be dumped, or the file's.  *)
LEMMA ViewSeen == Seen
  BY ViewFacts DEF Seen

(* What is seen of a file after a step.                                    *)
LEMMA ViewFactsNext ==
  ASSUME SaveInv', ~mixed', NEW f \in InventoryFiles
  PROVE  /\ \A t \in InventoryThreads :
              EditAt(t, "dump")' /\ edit'[t].file = f =>
                View(f)' = edit'[t].new
         /\ ~(\E t \in InventoryThreads : EditAt(t, "dump")'
                                            /\ edit'[t].file = f)
              => View(f)' = inventory'[f]
<1>1. Seen'
  BY ViewSeen, PTL
<1> QED
  BY <1>1 DEF Seen

(* A step that begins no write and ends none leaves what files hold.       *)
LEMMA ViewStays ==
  ASSUME SaveInv, SaveInv', ~mixed, ~mixed', NEW f \in InventoryFiles,
         \A t \in InventoryThreads :
           /\ EditAt(t, "dump")' <=> EditAt(t, "dump")
           /\ EditAt(t, "dump") => edit'[t].file = edit[t].file
                                   /\ edit'[t].new = edit[t].new,
         inventory'[f] = inventory[f]
  PROVE  View(f)' = View(f)
<1>1. CASE \E t \in InventoryThreads : EditAt(t, "dump") /\ edit[t].file = f
  <2>1. PICK t \in InventoryThreads : EditAt(t, "dump") /\ edit[t].file = f
    BY <1>1
  <2> QED
    BY <2>1, ViewFacts, ViewFactsNext
<1>2. CASE ~\E t \in InventoryThreads : EditAt(t, "dump") /\ edit[t].file = f
  <2>1. ~\E t \in InventoryThreads : EditAt(t, "dump")' /\ edit'[t].file = f
    BY <1>2
  <2> QED
    BY <1>2, <2>1, ViewFacts, ViewFactsNext
<1> QED
  BY <1>1, <1>2

(* No step takes the variables from an entry that stays in its place.      *)
LEMMA StepKeepsVariables ==
  ASSUME InventoryTypes, SaveInv, SaveInv', [InventoryNext]_inventoryVars,
         ~mixed', NEW f \in InventoryFiles
  PROVE  View(f).addressed \cap View(f)'.hosts \subseteq View(f)'.addressed
<1>0. /\ inventory \in [InventoryFiles -> Contents]
      /\ \A t \in InventoryThreads : edit[t] # NoChange =>
           edit[t] \in Editing /\ Asking(edit[t]) /\ OneGroup(edit[t])
      /\ Blank.hosts = {}
  BY EditFacts DEF InventoryTypes, InventoryTypeOK, Blank
<1>a. View(f)' = View(f) =>
        View(f).addressed \cap View(f)'.hosts \subseteq View(f)'.addressed
  OBVIOUS
<1>b. ASSUME NEW s \in InventoryThreads, OnlyEdit(s), ~mixed,
             ~EditAt(s, "dump"), ~EditAt(s, "dump")',
             inventory' = inventory
      PROVE  View(f)' = View(f)
  <2>1. ASSUME NEW t \in InventoryThreads
        PROVE  /\ EditAt(t, "dump")' <=> EditAt(t, "dump")
               /\ EditAt(t, "dump") => edit'[t].file = edit[t].file
                                       /\ edit'[t].new = edit[t].new
    BY <1>b DEF OnlyEdit, EditAt
  <2> QED
    BY <1>b, <2>1, ViewStays
<1>1. ASSUME NEW s \in InventoryThreads, Asks(s), ~mixed
      PROVE  View(f)' = View(f)
  BY <1>1, <1>b, AskFacts DEF EditAt
<1>2. ASSUME NEW s \in InventoryThreads, Load(s), ~mixed
      PROVE  View(f)' = View(f)
  <2>1. /\ OnlyEdit(s) /\ inventory' = inventory
        /\ edit[s] # NoChange /\ edit[s].step = "read"
    BY <1>2, EditLoadFacts
  <2>2. edit'[s].step # "dump"
    BY <1>0, <1>2, <2>1, EditLoadFacts, OnwardRests
  <2> QED
    BY <1>2, <1>b, <2>1, <2>2 DEF EditAt
<1>3. ASSUME NEW s \in InventoryThreads, TruncateInventory(s), ~mixed
      PROVE  View(f).addressed \cap View(f)'.hosts \subseteq View(f)'.addressed
  <2> DEFINE e == edit[s]
  <2>1. /\ e # NoChange /\ e.step = "truncate"
        /\ inventory' = [inventory EXCEPT ![e.file] = Blank]
        /\ edit'[s] # NoChange /\ edit'[s].step = "dump"
        /\ edit'[s].file = e.file /\ edit'[s].new = e.new
    BY <1>3, EditTruncateFacts
  <2>2. ASSUME NEW t \in InventoryThreads \ {s}
        PROVE  /\ EditAt(t, "dump")' <=> EditAt(t, "dump")
               /\ EditAt(t, "dump") => edit'[t].file = edit[t].file
                                       /\ edit'[t].new = edit[t].new
    BY <1>3, <2>2, EditTruncateFacts DEF EditAt
  <2>3. CASE f = e.file
    <3>1. View(f)' = e.new
      BY <2>1, <2>3, ViewFactsNext DEF EditAt
    <3>2. ~\E t \in InventoryThreads : EditAt(t, "dump") /\ edit[t].file = f
      BY <1>3, <2>1, <2>3 DEF SaveInv, Saves, EditAt
    <3>3. View(f) = inventory[f]
      BY <1>3, <3>2, ViewFacts
    <3>4. e.new = Written(e, inventory[f])
      BY <1>3, <2>1, <2>3 DEF SaveInv, SavesWell, EditAt
    <3>5. Asking(e) /\ inventory[f] \in Contents
      BY <1>0, <2>1
    <3> HIDE DEF e
    <3> QED
      BY <3>1, <3>3, <3>4, <3>5, WrittenKeeps
  <2>4. CASE f # e.file
    <3>1. inventory'[f] = inventory[f]
      BY <1>0, <2>1, <2>4
    <3>2. CASE \E t \in InventoryThreads :
                 EditAt(t, "dump") /\ edit[t].file = f
      <4>1. PICK t \in InventoryThreads : EditAt(t, "dump") /\ edit[t].file = f
        BY <3>2
      <4>2. t # s
        BY <2>4, <4>1
      <4>3. EditAt(t, "dump")' /\ edit'[t].file = f /\ edit'[t].new = edit[t].new
        BY <2>2, <4>1, <4>2
      <4>4. View(f)' = View(f)
        BY <1>3, <4>1, <4>3, ViewFacts, ViewFactsNext
      <4> QED
        BY <1>a, <4>4
    <3>3. CASE ~\E t \in InventoryThreads :
                 EditAt(t, "dump") /\ edit[t].file = f
      <4>1. ~\E t \in InventoryThreads : EditAt(t, "dump")' /\ edit'[t].file = f
        BY <2>1, <2>2, <2>4, <3>3
      <4>2. View(f)' = View(f)
        BY <1>3, <3>1, <3>3, <4>1, ViewFacts, ViewFactsNext
      <4> QED
        BY <1>a, <4>2
    <3> QED
      BY <3>2, <3>3
  <2> QED
    BY <2>3, <2>4
<1>4. ASSUME NEW s \in InventoryThreads, DumpInventory(s), ~mixed
      PROVE  View(f)' = View(f)
  <2> DEFINE e == edit[s]
  <2>1. /\ OnlyEdit(s) /\ e # NoChange /\ e.step = "dump"
        /\ edit'[s] = Onward(e, e.file, TRUE)
        /\ inventory' = [inventory EXCEPT ![e.file] = e.new]
    BY <1>4, DumpFacts
  <2>2. edit'[s].step # "dump"
    BY <1>0, <2>1, OnwardRests
  <2>3. \A t \in InventoryThreads : EditAt(t, "dump")' =>
          t # s /\ EditAt(t, "dump") /\ edit'[t] = edit[t]
    BY <2>1, <2>2 DEF OnlyEdit, EditAt
  <2>4. \A t \in InventoryThreads \ {s} : EditAt(t, "dump") =>
          EditAt(t, "dump")' /\ edit'[t] = edit[t]
    BY <2>1 DEF OnlyEdit, EditAt
  <2>5. CASE f = e.file
    <3>1. View(f) = e.new
      BY <1>4, <2>1, <2>5, ViewFacts DEF EditAt
    <3>2. ~\E t \in InventoryThreads : EditAt(t, "dump")' /\ edit'[t].file = f
      BY <1>4, <2>1, <2>3, <2>5 DEF SaveInv, Saves, EditAt
    <3>3. View(f)' = inventory'[f]
      BY <3>2, ViewFactsNext
    <3> QED
      BY <1>0, <2>1, <2>5, <3>1, <3>3
  <2>6. CASE f # e.file
    <3>1. inventory'[f] = inventory[f]
      BY <1>0, <2>1, <2>6
    <3>2. CASE \E t \in InventoryThreads :
                 EditAt(t, "dump") /\ edit[t].file = f
      <4>1. PICK t \in InventoryThreads : EditAt(t, "dump") /\ edit[t].file = f
        BY <3>2
      <4>2. EditAt(t, "dump")' /\ edit'[t] = edit[t]
        BY <2>4, <2>6, <4>1
      <4> QED
        BY <1>4, <4>1, <4>2, ViewFacts, ViewFactsNext
    <3>3. CASE ~\E t \in InventoryThreads :
                 EditAt(t, "dump") /\ edit[t].file = f
      <4>1. ~\E t \in InventoryThreads : EditAt(t, "dump")' /\ edit'[t].file = f
        BY <2>3, <3>3
      <4> QED
        BY <1>4, <3>1, <3>3, <4>1, ViewFacts, ViewFactsNext
    <3> QED
      BY <3>2, <3>3
  <2> QED
    BY <2>5, <2>6
<1>5. ASSUME NEW s \in InventoryThreads, Reply(s), ~mixed
      PROVE  View(f)' = View(f)
  BY <1>5, <1>b, IdleFacts DEF EditAt
<1>6. ASSUME NEW k \in InventoryFiles, DeleteFile(k), ~mixed
      PROVE  View(f).addressed \cap View(f)'.hosts \subseteq View(f)'.addressed
  <2>1. /\ edit' = edit /\ \A t \in InventoryThreads : edit[t] = NoChange
        /\ inventory' = [inventory EXCEPT ![k] = Blank]
    BY <1>6 DEF DeleteFile
  <2>2. View(f) = inventory[f] /\ View(f)' = inventory'[f]
    BY <1>6, <2>1, ViewFacts, ViewFactsNext DEF EditAt
  <2> QED
    BY <1>0, <2>1, <2>2
<1>7. ASSUME ServerEnds, ~mixed
      PROVE  View(f).addressed \cap View(f)'.hosts \subseteq View(f)'.addressed
  <2>1. /\ edit' = [t \in InventoryThreads |-> NoChange]
        /\ inventory' = inventory
    BY <1>7 DEF ServerEnds
  <2>2. View(f)' = inventory[f]
    BY <2>1, ViewFactsNext DEF EditAt
  <2>3. CASE \E t \in InventoryThreads : EditAt(t, "dump") /\ edit[t].file = f
    <3>1. inventory[f] = Blank
      BY <1>7, <2>3 DEF SaveInv, SavesWell
    <3> QED
      BY <1>0, <2>2, <3>1
  <2>4. CASE ~\E t \in InventoryThreads : EditAt(t, "dump") /\ edit[t].file = f
    <3>1. View(f) = inventory[f]
      BY <1>7, <2>4, ViewFacts
    <3> QED
      BY <2>2, <3>1
  <2> QED
    BY <2>3, <2>4
<1>8. CASE UNCHANGED inventoryVars
  BY <1>8, ViewStays DEF inventoryVars, EditAt
<1> QED
  BY <1>1, <1>2, <1>3, <1>4, <1>5, <1>6, <1>7, <1>8, <1>a, InventoryCases

(* Whatever is asked for, saved, half written or lost with the server, no  *)
(* step leaves an entry in its place and takes its variables.  A request   *)
(* of two steps may: a change of groups that names a group the host is in  *)
(* takes the entry out in the first and makes it anew, without variables,  *)
(* in the second.                                                          *)
THEOREM InventoryVariablesKept == InventorySpec => VariablesKept
<1> DEFINE Kept ==
      \A f \in InventoryFiles :
        ~mixed' => View(f).addressed \cap View(f)'.hosts
                     \subseteq View(f)'.addressed
<1>1. InventoryInv /\ InventoryInv' /\ [InventoryNext]_inventoryVars => Kept
  BY StepKeepsVariables DEF InventoryInv
<1>2. VariablesKept <=> [][Kept]_inventoryVars
  BY DEF VariablesKept
<1> HIDE DEF Kept
<1> QED
  BY <1>1, <1>2, InventoryInvariant, PTL DEF InventorySpec
=============================================================================
