------------------------------ MODULE Inventory ------------------------------
(***************************************************************************)
(* The inventory files of a project: hosts in `all` and in groups, which   *)
(* may be nested.  Each request loads a file, changes it and writes it     *)
(* back whole, without a lock; some go through all files, one after the    *)
(* other.  A file that is being written reads as empty.  An entry of a     *)
(* host may carry variables, such as its address.  Backups, group and host *)
(* variables in their own files and the text editor are not modelled.      *)
(***************************************************************************)
EXTENDS Sequences, Naturals

CONSTANTS
  InventoryFiles, Primary,  \* the file new entries go to
  Hosts, Groups,
  Inventories,              \* contents the files may have at first
  InventoryThreads,
  MaxRequests               \* bound on requests

VARIABLES
  inventory,  \* [InventoryFiles -> its contents]
  edit,       \* [InventoryThreads -> a request at work, or NoChange]
  mixed,      \* a file was read and written across one another (history)
  asked       \* number of requests so far

inventoryVars == <<inventory, edit, mixed, asked>>

(* The places of hosts: all, its groups, and their groups.  Contents are   *)
(* the places there are, the entries of hosts, and those with variables.   *)
All == <<>>
Places == {All} \cup {<<g>> : g \in Groups}
            \cup {<<g, k>> : g, k \in Groups}
Contents == [places : SUBSET Places, hosts : SUBSET (Places \X Hosts),
             addressed : SUBSET (Places \X Hosts)]
Blank == [places |-> {}, hosts |-> {}, addressed |-> {}]
(* The entries of a file are those of its places.                          *)
Sound(c) == c.hosts \subseteq c.places \X Hosts

ASSUME InventoryAssumption ==
  /\ Primary \in InventoryFiles /\ MaxRequests \in Nat
  /\ \A c \in Inventories : c \in Contents /\ Sound(c)

Ops == {"move", "place", "drop", "fill", "group", "host"}
NoChange == [step |-> "idle"]
Editing == [step : {"read", "truncate", "dump", "done"}, op : Ops,
            hosts : SUBSET Hosts, groups : SUBSET Groups,
            todo : SUBSET InventoryFiles, file : InventoryFiles,
            new : Contents, alone : BOOLEAN]

InventoryTypeOK ==
  /\ inventory \in [InventoryFiles -> Contents]
  /\ edit \in [InventoryThreads -> Editing \cup {NoChange}]
  /\ mixed \in BOOLEAN
  /\ asked \in 0..MaxRequests

InventoryInit ==
  /\ inventory \in [InventoryFiles -> Inventories]
  /\ edit = [t \in InventoryThreads |-> NoChange]
  /\ mixed = FALSE
  /\ asked = 0

EditAt(t, step) == edit[t] # NoChange /\ edit[t].step = step

-----------------------------------------------------------------------------
(* The requests, with the files each goes through.                         *)
Ask(t, op, hosts, groups, files) ==
  /\ edit[t] = NoChange
  /\ asked < MaxRequests /\ asked' = asked + 1
  /\ edit' = [edit EXCEPT ![t] =
       [step |-> "read", op |-> op, hosts |-> hosts, groups |-> groups,
        todo |-> files, file |-> Primary, new |-> Blank, alone |-> TRUE]]
  /\ UNCHANGED <<inventory, mixed>>

(* The groups of a host are replaced, in all files; a group is deleted, in *)
(* the first file that has it; the hosts of a group are replaced there.    *)
UpdateHostGroups(t, h, groups) == Ask(t, "move", {h}, groups, InventoryFiles)
DeleteGroup(t, g, files) == Ask(t, "drop", {}, {g}, files)
UpdateGroupHosts(t, g, hosts) == Ask(t, "fill", hosts, {g}, InventoryFiles)
(* A group, or a host in a group or in all, is added to one file.          *)
AddGroup(t, g, hosts, f) == Ask(t, "group", hosts, {g}, {f})
AddHost(t, h, groups, f) == Ask(t, "host", {h}, groups, {f})

-----------------------------------------------------------------------------
(* Where a group is: at the top, else the first found under another.       *)
Found(c, g) == {p \in c.places : p # All /\ p[Len(p)] = g}
PlaceOf(c, g) == IF <<g>> \in c.places \/ Found(c, g) = {} THEN <<g>>
                 ELSE CHOOSE p \in Found(c, g) : TRUE
Under(p, g) == \E i \in DOMAIN p : p[i] = g

Without(c, entries) == [c EXCEPT !.hosts = @ \ entries,
                                 !.addressed = @ \ entries]
WithPlaces(c, places) == [c EXCEPT !.places = @ \cup {All} \cup places]

(* Mutant: groups inside of groups are not searched for the host.          *)
MovedFromTop(e, c) == Without(c, {p \in Places : Len(p) < 2} \X e.hosts)
Moved(e, c) == Without(c, Places \X e.hosts)

(* The entries of a host that is moved are new ones, without variables.    *)
Placed(e, c) ==
  LET places == {PlaceOf(c, g) : g \in e.groups} IN
  [WithPlaces(c, places) EXCEPT !.hosts = @ \cup (places \X e.hosts)]

Dropped(e, c) ==
  LET gone == {p \in c.places : \E g \in e.groups : Under(p, g)} IN
  [Without(c, gone \X Hosts) EXCEPT !.places = @ \ gone]

(* Mutant: the hosts that stay in the group are written anew.              *)
FilledAnew(e, c) ==
  LET places == {PlaceOf(c, g) : g \in e.groups} IN
  [Without(c, places \X Hosts) EXCEPT !.hosts = @ \cup (places \X e.hosts)]
Filled(e, c) ==
  LET places == {PlaceOf(c, g) : g \in e.groups}
      rest == Without(c, places \X (Hosts \ e.hosts))
  IN  [rest EXCEPT !.hosts = @ \cup (places \X e.hosts)]

WithGroup(e, c) ==
  LET places == {<<g>> : g \in e.groups} IN
  [WithPlaces(c, places) EXCEPT !.hosts = @ \cup (places \X e.hosts)]

Spot(e) == IF e.groups = {} THEN {All} ELSE {<<g>> : g \in e.groups}
WithHost(e, c) ==
  [WithPlaces(c, Spot(e)) EXCEPT !.hosts = @ \cup (Spot(e) \X e.hosts),
                                 !.addressed = @ \cup (Spot(e) \X e.hosts)]

(* Whether a request writes a file with these contents: it finds what it   *)
(* looks for, or what it adds is not there yet.                            *)
Writes(e, c) ==
  CASE e.op = "move" -> \E p \in c.places, h \in e.hosts : <<p, h>> \in c.hosts
    [] e.op = "place" -> TRUE
    [] e.op \in {"drop", "fill"} -> \E g \in e.groups : Found(c, g) # {}
    [] e.op = "group" -> \A g \in e.groups : <<g>> \notin c.places
    [] e.op = "host" -> Spot(e) \X e.hosts \cap c.hosts = {}
Written(e, c) ==
  CASE e.op = "move" -> Moved(e, c)
    [] e.op = "place" -> Placed(e, c)
    [] e.op = "drop" -> Dropped(e, c)
    [] e.op = "fill" -> Filled(e, c)
    [] e.op = "group" -> WithGroup(e, c)
    [] e.op = "host" -> WithHost(e, c)

(* What follows on a file: the next one, for a moved host at last the      *)
(* primary one, or the answer.                                             *)
Onward(e, f, wrote) ==
  LET rest == e.todo \ {f}
      moved == e.op = "move" /\ rest = {} /\ e.groups # {}
      ended == rest = {} \/ (wrote /\ e.op \in {"drop", "fill"})
      next(step, op, todo) ==
        [e EXCEPT !.step = step, !.op = op, !.todo = todo,
                  !.file = Primary, !.new = Blank]
  IN
  CASE moved -> next("read", "place", {Primary})
    [] ended /\ ~moved -> next("done", e.op, {})
    [] ~ended -> next("read", e.op, rest)

(* A read goes wrong when another thread is writing the file, or is about  *)
(* to and this one too.  The model ends there.                             *)
Crosses(t, f, writes) ==
  \E u \in InventoryThreads \ {t} :
    /\ EditAt(u, "dump") \/ (writes /\ EditAt(u, "truncate"))
    /\ edit[u].file = f

Load(t) ==
  /\ EditAt(t, "read")
  /\ \E f \in edit[t].todo :
       LET e == edit[t]
           c == inventory[f]
       IN
       /\ edit' = [edit EXCEPT ![t] =
            IF Writes(e, c)
            THEN [e EXCEPT !.step = "truncate", !.file = f,
                           !.new = Written(e, c)]
            ELSE Onward(e, f, FALSE)]
       /\ mixed' = Crosses(t, f, Writes(e, c))
  /\ UNCHANGED <<inventory, asked>>

TruncateInventory(t) ==
  /\ EditAt(t, "truncate")
  /\ inventory' = [inventory EXCEPT ![edit[t].file] = Blank]
  /\ edit' = [u \in InventoryThreads |->
       IF u = t THEN [edit[t] EXCEPT !.step = "dump"]
       ELSE IF edit[u] = NoChange THEN NoChange
       ELSE [edit[u] EXCEPT !.alone = FALSE]]
  /\ UNCHANGED <<mixed, asked>>

DumpInventory(t) ==
  /\ EditAt(t, "dump")
  /\ inventory' = [inventory EXCEPT ![edit[t].file] = edit[t].new]
  /\ edit' = [edit EXCEPT ![t] = Onward(edit[t], edit[t].file, TRUE)]
  /\ UNCHANGED <<mixed, asked>>

Reply(t) ==
  /\ EditAt(t, "done")
  /\ edit' = [edit EXCEPT ![t] = NoChange]
  /\ UNCHANGED <<inventory, mixed, asked>>

(* A file is deleted: all requests then take it for an empty one.  Were it *)
(* the primary one, another file would take its place: left out, as are    *)
(* deletions under a request's hands.                                      *)
DeleteFile(f) ==
  /\ f # Primary
  /\ \A t \in InventoryThreads : edit[t] = NoChange
  /\ asked < MaxRequests /\ asked' = asked + 1
  /\ inventory' = [inventory EXCEPT ![f] = Blank]
  /\ UNCHANGED <<edit, mixed>>

(* The server ends; a file that was being written stays empty.             *)
ServerEnds ==
  /\ \E t \in InventoryThreads : edit[t] # NoChange
  /\ edit' = [t \in InventoryThreads |-> NoChange]
  /\ UNCHANGED <<inventory, mixed, asked>>

-----------------------------------------------------------------------------
InventoryNext ==
  /\ ~mixed
  /\ \/ \E t \in InventoryThreads :
          \/ Load(t) \/ TruncateInventory(t) \/ DumpInventory(t) \/ Reply(t)
          \/ \E h \in Hosts, groups \in SUBSET Groups :
               UpdateHostGroups(t, h, groups)
          \/ \E g \in Groups, files \in {{f} : f \in InventoryFiles}
                                           \cup {InventoryFiles} :
               DeleteGroup(t, g, files)
          \/ \E g \in Groups, hosts \in SUBSET Hosts :
               \/ UpdateGroupHosts(t, g, hosts)
               \/ \E f \in InventoryFiles : AddGroup(t, g, hosts, f)
          \/ \E h \in Hosts, groups \in {{}} \cup {{g} : g \in Groups},
                f \in InventoryFiles : AddHost(t, h, groups, f)
     \/ \E f \in InventoryFiles : DeleteFile(f)
     \/ ServerEnds

InventorySpec == InventoryInit /\ [][InventoryNext]_inventoryVars

-----------------------------------------------------------------------------
(* When a change of a host's groups is answered, and nothing else was      *)
(* written since it began, the host is in these groups and nowhere else,   *)
(* over all files and at every depth.                                      *)
EntriesOf(h) ==
  UNION {{p \in Places : <<p, h>> \in inventory[f].hosts} :
           f \in InventoryFiles}
HostWhereAsked ==
  \A t \in InventoryThreads :
    /\ EditAt(t, "done") /\ edit[t].alone /\ ~mixed
    /\ edit[t].op = "place" \/ (edit[t].op = "move" /\ edit[t].groups = {})
    => \A h \in edit[t].hosts :
         /\ All \notin EntriesOf(h)
         /\ {p[Len(p)] : p \in EntriesOf(h)} = edit[t].groups

(* No step takes the variables of an entry that is there before and after  *)
(* it.  Of a whole request that is not so: a change of groups takes the    *)
(* host out of every group first, and the entry it makes anew in a group   *)
(* the host was in has no variables.  A file that is being written counts  *)
(* as written.                                                             *)
View(f) ==
  IF \E t \in InventoryThreads : EditAt(t, "dump") /\ edit[t].file = f
  THEN edit[CHOOSE t \in InventoryThreads :
              EditAt(t, "dump") /\ edit[t].file = f].new
  ELSE inventory[f]
VariablesKept ==
  [][\A f \in InventoryFiles :
       ~mixed' => View(f).addressed \cap View(f)'.hosts
                    \subseteq View(f)'.addressed]_inventoryVars
=============================================================================
