------------------------ MODULE RecordStore_proofs ------------------------
(***************************************************************************)
(* Theorems about RecordStore for every set of concurrent requests: any    *)
(* number of claims, cancellations, finish calls, PATCHes, heals and       *)
(* deletes.  A queued record is decided about once per requeueing; when    *)
(* all requests lock the record, it reads well between writes, and follows *)
(* the lifecycle of RunLifecycle.                                          *)
(***************************************************************************)
EXTENDS RecordStore, FiniteSetTheorems, TLAPS

(* What a request relies on between its steps: an open file from the lock  *)
(* on, and a complete record from the read on.                             *)
Prepared ==
  \A q \in Requests :
    /\ pc[q] \in {"lock", "truncate", "write", "release"} => fd[q] \in Inodes
    /\ pc[q] \in {"reopen", "truncate", "write"} /\ Kind[q] # "create" => doc[q] \in Doc
    /\ pc[q] = "lock" => Kind[q] \in Locking
    /\ Kind[q] = "delete" => pc[q] \in {"start", "done"}
    /\ Kind[q] = "finish" /\ pc[q] \in {"reopen", "write"}
         => doc[q].status \in FINAL_STATUSES
    /\ pc[q] = "reopen" => Kind[q] \in {"finish", "patch"}
    /\ Kind[q] = "patch" /\ pc[q] = "start" => doc[q] = NoDoc
    /\ Kind[q] \in {"create", "finish", "patch"} => pc[q] # "truncate"
    /\ reply[q] # "none" => pc[q] = "done"

TypeInv == TypeOK /\ Prepared

(* The inodes are numbers from one on.                                     *)
LEMMA InodesNat == Inodes \subseteq Nat \ {0} /\ 1 \in Inodes
<1>1. Cardinality(Of("delete")) \in Nat
  BY RequestsAssumption, FS_Subset, FS_CardinalityType DEF Of
<1>. QED
  BY <1>1 DEF Inodes

(* A torn file is no record.                                               *)
LEMMA TornIsNoDoc == Torn \notin Doc /\ Torn.status \notin Statuses
BY DEF Torn, Doc, Statuses, FINAL_STATUSES

(* What a request writes is a record, a queued one only by create, and by  *)
(* a PATCH that has read one.                                              *)
LEMMA RewrittenType ==
  ASSUME TypeInv, NEW q \in Requests, pc[q] = "write"
  PROVE  /\ Rewritten(q) \in Doc
         /\ Rewritten(q).status = "QUEUED" =>
              Kind[q] = "create" \/ (Kind[q] = "patch" /\ doc[q].status = "QUEUED")
<1>1. CASE Kind[q] = "create"
  BY <1>1 DEF Rewritten, Doc, Statuses
<1>2. CASE Kind[q] = "claim"
  BY <1>2, WorkersAssumption DEF Rewritten, Doc, Statuses
<1>3. CASE Kind[q] \in {"cancel", "stop", "heal", "recover"}
  <2>1. doc[q] \in Doc
    BY <1>3 DEF TypeInv, Prepared
  <2>2. PICK s \in Statuses \ {"QUEUED"} : Rewritten(q) = [doc[q] EXCEPT !.status = s]
    BY <1>3 DEF Rewritten, Recovered, Statuses, FINAL_STATUSES
  <2>. QED
    BY <2>1, <2>2 DEF Doc
<1>4. CASE Kind[q] = "finish"
  BY <1>4 DEF Rewritten, TypeInv, Prepared, FINAL_STATUSES
<1>5. CASE Kind[q] = "patch"
  BY <1>5 DEF Rewritten, TypeInv, Prepared
<1>. QED
  BY <1>1, <1>2, <1>3, <1>4, <1>5, RequestsAssumption DEF Kinds, Locking, TypeInv, Prepared

(* Every step keeps types, and what its request relies on.                 *)
LEMMA TypeStep == ASSUME TypeInv, [Next]_vars PROVE TypeInv'
<1> USE InodesNat DEF TypeInv, TypeOK
<1>1. ASSUME NEW q \in Requests, NEW answer \in Replies, Answer(q, answer)
      PROVE  TypeInv'
  BY <1>1 DEF Answer, Reply, Goto, Steps, Prepared
<1>2. ASSUME NEW q \in Requests, Create(q) PROVE TypeInv'
  BY <1>2 DEF Create, Empty, Goto, Steps, Prepared
<1>3. ASSUME NEW q \in Requests, Open(q) PROVE TypeInv'
  <2>1. CASE Missing
    BY <1>1, <1>3, <2>1 DEF Open, Replies
  <2>2. CASE ~Missing
    BY <1>3, <2>2 DEF Open, Locking, Missing, Goto, Steps, Prepared
  <2>. QED
    BY <2>1, <2>2
<1>4. ASSUME NEW q \in Requests, LockAndRead(q) PROVE TypeInv'
  <2>1. fd[q] \in Inodes
    BY <1>4 DEF LockAndRead, Prepared
  <2> DEFINE d == contents[fd[q]]
  <2>2. CASE d = Torn \/ ~Accepts(q, d)
    BY <1>1, <1>4, <2>2 DEF LockAndRead, Replies
  <2>3. CASE d # Torn /\ Accepts(q, d)
    <3>1. d \in Doc
      BY <2>1, <2>3
    <3>2. /\ pc[q] = "lock"
          /\ doc' = [doc EXCEPT ![q] = d]
          /\ pc' = [pc EXCEPT ![q] = "truncate"]
          /\ UNCHANGED <<inode, contents, fd, reply, saved>>
      BY <1>4, <2>3 DEF LockAndRead, Goto
    <3>3. Kind[q] \notin {"create", "finish", "patch", "delete"}
      BY <1>4 DEF LockAndRead, Prepared, Locking
    <3> HIDE DEF d
    <3>4. TypeOK'
      BY <3>1, <3>2 DEF Steps
    <3>5. Prepared'
      BY <2>1, <3>1, <3>2, <3>3 DEF Prepared
    <3>. QED
      BY <3>4, <3>5
  <2>. QED
    BY <2>2, <2>3
<1>5. ASSUME NEW q \in Requests, SkipLocked(q) PROVE TypeInv'
  BY <1>1, <1>5 DEF SkipLocked, Replies
<1>6. ASSUME NEW q \in Requests, Truncate(q) PROVE TypeInv'
  BY <1>6 DEF Truncate, Empty, Goto, Steps, Prepared
<1>7. ASSUME NEW q \in Requests, NEW overlaid \in BOOLEAN, Write(q, overlaid)
      PROVE  TypeInv'
  <2>1. Rewritten(q) \in Doc
    BY <1>7, RewrittenType DEF Write
  <2>. QED
    BY <1>7, <2>1 DEF Write, Goto, Steps, Prepared
<1>8. ASSUME NEW q \in Requests, Release(q) PROVE TypeInv'
  BY <1>8 DEF Release, Reply, Goto, Steps, Replies, Prepared
<1>9. ASSUME NEW q \in Requests, FinishLookup(q) PROVE TypeInv'
  <2>1. CASE Answer(q, "refused")
    BY <1>1, <2>1 DEF Replies
  <2>2. CASE Goto(q, "again") /\ UNCHANGED <<inode, contents, fd, doc, reply, saved>>
    BY <1>9, <2>2 DEF FinishLookup, Goto, Steps, Prepared
  <2>. QED
    BY <1>9, <2>1, <2>2 DEF FinishLookup
<1>10. ASSUME NEW q \in Requests, NEW new \in Doc, Update(q, new),
              Kind[q] \in {"finish", "patch"}, pc[q] \in {"start", "again"},
              Kind[q] = "finish" => new.status \in FINAL_STATUSES
       PROVE  TypeInv'
  <2>1. CASE Answer(q, "error")
    BY <1>1, <2>1 DEF Replies
  <2>2. CASE /\ doc' = [doc EXCEPT ![q] = new]
             /\ Goto(q, "reopen")
             /\ UNCHANGED <<inode, contents, fd, reply, saved>>
    BY <1>10, <2>2 DEF Goto, Steps, Prepared
  <2>. QED
    BY <1>10, <2>1, <2>2 DEF Update
<1>11. ASSUME NEW q \in Requests, NEW outcome \in FINAL_STATUSES, FinishRead(q, outcome)
       PROVE  TypeInv'
  <2>1. CASE Missing
    BY <1>1, <1>11, <2>1 DEF FinishRead, Replies
  <2>2. CASE ~Missing /\ Unreadable
    BY <1>1, <1>11, <2>2 DEF FinishRead, Update, Replies
  <2>3. CASE ~Missing /\ ~Unreadable
    <3>1. contents[inode] \in Doc
      BY <2>3 DEF Missing, Unreadable
    <3>2. /\ [contents[inode] EXCEPT !.status = outcome] \in Doc
          /\ [contents[inode] EXCEPT !.status = outcome].status \in FINAL_STATUSES
      BY <3>1 DEF Doc, Statuses
    <3>3. Update(q, [contents[inode] EXCEPT !.status = outcome])
      BY <1>11, <2>3 DEF FinishRead
    <3>. QED
      BY <1>10, <1>11, <3>2, <3>3 DEF FinishRead
  <2>. QED
    BY <2>1, <2>2, <2>3
<1>17. ASSUME NEW q \in Requests, NEW new \in Bodies, PatchRead(q, new) PROVE TypeInv'
  <2>1. CASE Missing
    BY <1>1, <1>17, <2>1 DEF PatchRead, Replies
  <2>2. CASE ~Missing
    BY <1>10, <1>17, <2>2, BodiesAssumption DEF PatchRead
  <2>. QED
    BY <2>1, <2>2
<1>18. ASSUME NEW q \in Requests, Reopen(q) PROVE TypeInv'
  <2>1. PICK i \in Inodes : inode' = i /\ Empty(q, i)
    BY <1>18 DEF Reopen
  <2>. QED
    BY <1>18, <2>1 DEF Reopen, Empty, Goto, Steps, Prepared
<1>12. ASSUME NEW q \in Requests, HealLook(q) PROVE TypeInv'
  <2>1. CASE Orphaned(q)
    BY <1>12, <2>1 DEF HealLook, Goto, Steps, Prepared
  <2>2. CASE ~Orphaned(q)
    BY <1>1, <1>12, <2>2 DEF HealLook, Replies
  <2>. QED
    BY <2>1, <2>2
<1>13. ASSUME NEW q \in Requests, HealRead(q) PROVE TypeInv'
  <2>1. CASE Missing \/ contents[inode].status # "RUNNING"
    BY <1>1, <1>13, <2>1 DEF HealRead, Replies
  <2>2. CASE ~(Missing \/ contents[inode].status # "RUNNING")
    <3>1. inode \in Inodes /\ contents[inode] \in Doc
      BY <2>2 DEF Missing, Torn
    <3>. QED
      BY <1>13, <2>2, <3>1 DEF HealRead, Goto, Steps, Prepared, Locking
  <2>. QED
    BY <2>1, <2>2
<1>14. ASSUME NEW q \in Requests, Delete(q) PROVE TypeInv'
  BY <1>14 DEF Delete, Reply, Goto, Steps, Replies, Prepared
<1>15. CASE Crash
  BY <1>15 DEF Crash, Steps, Prepared
<1>16. CASE UNCHANGED vars
  BY <1>16 DEF vars, Prepared
<1>. QED
  BY <1>2, <1>3, <1>4, <1>5, <1>6, <1>7, <1>8, <1>9, <1>11, <1>12, <1>13, <1>14,
     <1>15, <1>16, <1>17, <1>18 DEF Next, AllAnswered

(* Type correctness of the record store.                                   *)
THEOREM RecordTypeOK == Spec => []TypeOK
<1>1. Init => TypeInv
  BY InodesNat DEF Init, TypeInv, TypeOK, Prepared, Steps, Replies
<1>. QED
  BY <1>1, TypeStep, PTL DEF Spec, TypeInv

-----------------------------------------------------------------------------
(* A claim or a cancellation has decided the record's fate once it has     *)
(* read the record, still queued, under the lock.                          *)
Decided(q) ==
  /\ Kind[q] \in {"claim", "cancel"}
  /\ pc[q] \in {"truncate", "write", "release"} \/ reply[q] = "ok"

Deciders == {q \in Requests : Decided(q)}

(* The queued records nobody has decided about, and the requests that      *)
(* still are to write one.                                                 *)
Offered == {i \in Inodes :
  /\ contents[i].status = "QUEUED"
  /\ \A q \in Deciders : pc[q] = "truncate" => fd[q] # i}
Requeuing == {p \in Of("patch") : pc[p] \in {"reopen", "write"} /\ doc[p].status = "QUEUED"}
Creating == {c \in Of("create") : pc[c] \in {"start", "write"}}

(* Each decision uses up one offer, and only the creation and the PATCHes  *)
(* that requeue make one.  The decider holds the lock of the inode from    *)
(* the read to the truncation, so no second one finds the same offer.      *)
DecidedInv ==
  Cardinality(Deciders) + Cardinality(Offered) + Cardinality(Requeuing) + Cardinality(Creating)
    <= 1 + Cardinality(Requeued)

(* A set of requests, or of inodes, has a number, and a larger one more.   *)
LEMMA Countable ==
  ASSUME NEW S, S \subseteq Requests \/ S \subseteq Inodes
  PROVE  /\ IsFiniteSet(S) /\ Cardinality(S) \in Nat
         /\ \A T \in SUBSET S : Cardinality(T) \in Nat /\ Cardinality(T) <= Cardinality(S)
<1>1. Cardinality(Of("delete")) \in Nat
  BY RequestsAssumption, FS_Subset, FS_CardinalityType DEF Of
<1>2. IsFiniteSet(Inodes)
  BY <1>1, FS_Interval DEF Inodes
<1>3. IsFiniteSet(S)
  BY <1>2, RequestsAssumption, FS_Subset
<1>. QED
  BY <1>3, FS_Subset, FS_CardinalityType

(* These sets are sets of requests and of inodes, before a step and after. *)
LEMMA SetsOfRequests ==
  /\ Deciders \subseteq Requests /\ Deciders' \subseteq Requests
  /\ Offered \subseteq Inodes /\ Offered' \subseteq Inodes
  /\ Requeuing \subseteq Requests /\ Requeuing' \subseteq Requests
  /\ Creating \subseteq Requests /\ Creating' \subseteq Requests
  /\ Requeued \subseteq Requests /\ Requeued' \subseteq Requests
BY DEF Deciders, Offered, Requeuing, Creating, Requeued, Of

(* A step that adds to none of them keeps the balance.                     *)
LEMMA NoneMore ==
  ASSUME DecidedInv, Deciders' \subseteq Deciders, Offered' \subseteq Offered,
         Requeuing' \subseteq Requeuing, Creating' \subseteq Creating,
         Requeued' = Requeued
  PROVE  DecidedInv'
<1>1. /\ Cardinality(Deciders) \in Nat /\ Cardinality(Deciders') \in Nat
      /\ Cardinality(Deciders') <= Cardinality(Deciders)
  BY SetsOfRequests, Countable
<1>2. /\ Cardinality(Offered) \in Nat /\ Cardinality(Offered') \in Nat
      /\ Cardinality(Offered') <= Cardinality(Offered)
  BY SetsOfRequests, Countable
<1>3. /\ Cardinality(Requeuing) \in Nat /\ Cardinality(Requeuing') \in Nat
      /\ Cardinality(Requeuing') <= Cardinality(Requeuing)
  BY SetsOfRequests, Countable
<1>4. /\ Cardinality(Creating) \in Nat /\ Cardinality(Creating') \in Nat
      /\ Cardinality(Creating') <= Cardinality(Creating)
  BY SetsOfRequests, Countable
<1>5. Cardinality(Requeued) \in Nat
  BY SetsOfRequests, Countable
<1> HIDE DEF Deciders, Offered, Requeuing, Creating, Requeued
<1>. QED
  BY <1>1, <1>2, <1>3, <1>4, <1>5 DEF DecidedInv

(* So does one that adds an offer and takes one from those who were to     *)
(* write it: the creation, or a PATCH.                                     *)
LEMMA OfferMade ==
  ASSUME DecidedInv, Deciders' \subseteq Deciders, NEW i \in Inodes,
         Offered' \subseteq Offered \cup {i}, Requeued' = Requeued, NEW q,
         \/ Requeuing' \subseteq Requeuing \ {q} /\ Creating' \subseteq Creating /\ q \in Requeuing
         \/ Requeuing' \subseteq Requeuing /\ Creating' \subseteq Creating \ {q} /\ q \in Creating
  PROVE  DecidedInv'
<1>1. /\ Cardinality(Deciders) \in Nat /\ Cardinality(Deciders') \in Nat
      /\ Cardinality(Deciders') <= Cardinality(Deciders)
  BY SetsOfRequests, Countable
<1>2. /\ Cardinality(Offered) \in Nat /\ Cardinality(Offered') \in Nat
      /\ Cardinality(Offered') <= Cardinality(Offered) + 1
  <2>1. IsFiniteSet(Offered) /\ Cardinality(Offered) \in Nat
    BY SetsOfRequests, Countable
  <2>2. /\ IsFiniteSet(Offered \cup {i})
        /\ Cardinality(Offered \cup {i}) <= Cardinality(Offered) + 1
        /\ Cardinality(Offered \cup {i}) \in Nat
    <3>1. CASE i \in Offered
      <4>1. Offered \cup {i} = Offered
        BY <3>1
      <4>. QED
        BY <2>1, <4>1
    <3>2. CASE i \notin Offered
      BY <2>1, <3>2, FS_AddElement
    <3>. QED
      BY <3>1, <3>2
  <2>3. Cardinality(Offered') <= Cardinality(Offered \cup {i}) /\ Cardinality(Offered') \in Nat
    BY <2>2, FS_Subset, FS_CardinalityType
  <2>. QED
    BY <2>1, <2>2, <2>3
<1>3. /\ Cardinality(Requeuing) \in Nat /\ Cardinality(Requeuing') \in Nat
      /\ Cardinality(Creating) \in Nat /\ Cardinality(Creating') \in Nat
  BY SetsOfRequests, Countable
<1>4. Cardinality(Requeuing') + Cardinality(Creating') <=
        Cardinality(Requeuing) + Cardinality(Creating) - 1
  <2>1. CASE Requeuing' \subseteq Requeuing \ {q} /\ Creating' \subseteq Creating /\ q \in Requeuing
    <3>1. IsFiniteSet(Requeuing) /\ IsFiniteSet(Creating)
      BY SetsOfRequests, Countable
    <3>2. /\ IsFiniteSet(Requeuing \ {q})
          /\ Cardinality(Requeuing \ {q}) = Cardinality(Requeuing) - 1
      BY <2>1, <3>1, FS_RemoveElement
    <3>3. Cardinality(Requeuing') <= Cardinality(Requeuing) - 1
      BY <2>1, <3>2, FS_Subset
    <3>4. Cardinality(Creating') <= Cardinality(Creating)
      BY <2>1, <3>1, FS_Subset
    <3>. QED
      BY <1>3, <3>3, <3>4
  <2>2. CASE Requeuing' \subseteq Requeuing /\ Creating' \subseteq Creating \ {q} /\ q \in Creating
    <3>1. IsFiniteSet(Requeuing) /\ IsFiniteSet(Creating)
      BY SetsOfRequests, Countable
    <3>2. /\ IsFiniteSet(Creating \ {q})
          /\ Cardinality(Creating \ {q}) = Cardinality(Creating) - 1
      BY <2>2, <3>1, FS_RemoveElement
    <3>3. Cardinality(Creating') <= Cardinality(Creating) - 1
      BY <2>2, <3>2, FS_Subset
    <3>4. Cardinality(Requeuing') <= Cardinality(Requeuing)
      BY <2>2, <3>1, FS_Subset
    <3>. QED
      BY <1>3, <3>3, <3>4
  <2>. QED
    BY <2>1, <2>2
<1>5. Cardinality(Requeued) \in Nat
  BY SetsOfRequests, Countable
<1> HIDE DEF Deciders, Offered, Requeuing, Creating, Requeued
<1>. QED
  BY <1>1, <1>2, <1>3, <1>4, <1>5 DEF DecidedInv

(* And a decision, which takes an offer.                                   *)
LEMMA OfferTaken ==
  ASSUME DecidedInv, NEW q \in Requests, q \notin Deciders, Deciders' \subseteq Deciders \cup {q},
         NEW i, i \in Offered, Offered' \subseteq Offered \ {i},
         Requeuing' \subseteq Requeuing, Creating' \subseteq Creating, Requeued' = Requeued
  PROVE  DecidedInv'
<1>1. /\ Cardinality(Deciders) \in Nat /\ Cardinality(Deciders') \in Nat
      /\ Cardinality(Deciders') <= Cardinality(Deciders) + 1
  <2>1. IsFiniteSet(Deciders) /\ Cardinality(Deciders) \in Nat
    BY SetsOfRequests, Countable
  <2>2. /\ IsFiniteSet(Deciders \cup {q})
        /\ Cardinality(Deciders \cup {q}) = Cardinality(Deciders) + 1
    BY <2>1, FS_AddElement
  <2>3. Cardinality(Deciders') <= Cardinality(Deciders \cup {q}) /\ Cardinality(Deciders') \in Nat
    BY <2>2, FS_Subset, FS_CardinalityType
  <2>. QED
    BY <2>1, <2>2, <2>3
<1>2. /\ Cardinality(Offered) \in Nat /\ Cardinality(Offered') \in Nat
      /\ Cardinality(Offered') <= Cardinality(Offered) - 1
  <2>1. IsFiniteSet(Offered) /\ Cardinality(Offered) \in Nat
    BY SetsOfRequests, Countable
  <2>2. /\ IsFiniteSet(Offered \ {i})
        /\ Cardinality(Offered \ {i}) = Cardinality(Offered) - 1
    BY <2>1, FS_RemoveElement
  <2>3. Cardinality(Offered') <= Cardinality(Offered \ {i}) /\ Cardinality(Offered') \in Nat
    BY <2>2, FS_Subset, FS_CardinalityType
  <2>. QED
    BY <2>1, <2>2, <2>3
<1>3. /\ Cardinality(Requeuing) \in Nat /\ Cardinality(Requeuing') \in Nat
      /\ Cardinality(Requeuing') <= Cardinality(Requeuing)
  BY SetsOfRequests, Countable
<1>4. /\ Cardinality(Creating) \in Nat /\ Cardinality(Creating') \in Nat
      /\ Cardinality(Creating') <= Cardinality(Creating)
  BY SetsOfRequests, Countable
<1>5. Cardinality(Requeued) \in Nat
  BY SetsOfRequests, Countable
<1> HIDE DEF Deciders, Offered, Requeuing, Creating, Requeued
<1>. QED
  BY <1>1, <1>2, <1>3, <1>4, <1>5 DEF DecidedInv

(* And a PATCH that has read a queued record, whose right to requeue it is *)
(* counted.                                                                *)
LEMMA OfferPlanned ==
  ASSUME DecidedInv, Deciders' \subseteq Deciders, Offered' \subseteq Offered,
         NEW q \in Requests, Requeuing' \subseteq Requeuing \cup {q},
         q \notin Requeued, Requeued' = Requeued \cup {q}, Creating' \subseteq Creating
  PROVE  DecidedInv'
<1>1. /\ Cardinality(Deciders) \in Nat /\ Cardinality(Deciders') \in Nat
      /\ Cardinality(Deciders') <= Cardinality(Deciders)
  BY SetsOfRequests, Countable
<1>2. /\ Cardinality(Offered) \in Nat /\ Cardinality(Offered') \in Nat
      /\ Cardinality(Offered') <= Cardinality(Offered)
  BY SetsOfRequests, Countable
<1>3. /\ Cardinality(Requeuing) \in Nat /\ Cardinality(Requeuing') \in Nat
      /\ Cardinality(Requeuing') <= Cardinality(Requeuing) + 1
  <2>1. IsFiniteSet(Requeuing) /\ Cardinality(Requeuing) \in Nat
    BY SetsOfRequests, Countable
  <2>2. /\ IsFiniteSet(Requeuing \cup {q})
        /\ Cardinality(Requeuing \cup {q}) <= Cardinality(Requeuing) + 1
        /\ Cardinality(Requeuing \cup {q}) \in Nat
    BY <2>1, FS_AddElement, FS_CardinalityType
  <2>3. Cardinality(Requeuing') <= Cardinality(Requeuing \cup {q}) /\ Cardinality(Requeuing') \in Nat
    BY <2>2, FS_Subset, FS_CardinalityType
  <2>. QED
    BY <2>1, <2>2, <2>3
<1>4. /\ Cardinality(Creating) \in Nat /\ Cardinality(Creating') \in Nat
      /\ Cardinality(Creating') <= Cardinality(Creating)
  BY SetsOfRequests, Countable
<1>5. Cardinality(Requeued) \in Nat /\ Cardinality(Requeued') = Cardinality(Requeued) + 1
  BY SetsOfRequests, Countable, FS_AddElement
<1> HIDE DEF Deciders, Offered, Requeuing, Creating, Requeued
<1>. QED
  BY <1>1, <1>2, <1>3, <1>4, <1>5 DEF DecidedInv

(* Every step keeps the balance.                                           *)
LEMMA DecidedStep == ASSUME TypeInv, DecidedInv, [Next]_vars PROVE DecidedInv'
<1> USE InodesNat DEF TypeInv, TypeOK
(* A step of a request that neither decides nor offers.                    *)
<1>0. ASSUME NEW q \in Requests, NEW s \in Steps, pc' = [pc EXCEPT ![q] = s],
             Kind[q] \in {"claim", "cancel"} =>
               (s \in {"truncate", "write", "release"} \/ reply'[q] = "ok" => Decided(q)),
             Kind[q] = "patch" => doc'[q] = doc[q] /\ (s \in {"reopen", "write"} => pc[q] \in {"reopen", "write"}),
             Kind[q] = "create" => (s \in {"start", "write"} => pc[q] \in {"start", "write"}),
             \A p \in Requests : p # q => reply'[p] = reply[p] /\ fd'[p] = fd[p] /\ doc'[p] = doc[p],
             \A i \in Inodes : contents'[i].status = "QUEUED" => contents[i].status = "QUEUED",
             Decided(q) /\ pc[q] = "truncate" =>
               contents'[fd[q]].status # "QUEUED"
      PROVE  DecidedInv'
  <2>1. pc'[q] = s /\ \A p \in Requests : p # q => pc'[p] = pc[p]
    BY <1>0
  <2>2. Deciders' \subseteq Deciders
    BY <1>0, <2>1 DEF Deciders, Decided
  <2>3. \A p \in Deciders : p # q => p \in Deciders'
    BY <1>0, <2>1 DEF Deciders, Decided
  <2>4. Offered' \subseteq Offered
    <3> SUFFICES ASSUME NEW i \in Offered', NEW p \in Deciders, pc[p] = "truncate", fd[p] = i
                 PROVE  FALSE
      BY <1>0 DEF Offered
    <3>1. CASE p = q
      BY <1>0, <3>1 DEF Deciders, Offered
    <3>2. CASE p # q
      BY <1>0, <2>1, <2>3, <3>2 DEF Deciders, Offered
    <3>. QED
      BY <3>1, <3>2
  <2>5. Requeuing' \subseteq Requeuing /\ Requeued' = Requeued
    BY <1>0, <2>1 DEF Requeuing, Requeued, Of
  <2>6. Creating' \subseteq Creating
    BY <1>0, <2>1 DEF Creating, Of
  <2>. QED
    BY <2>2, <2>4, <2>5, <2>6, NoneMore
(* A request that answers without touching the file decides nothing.       *)
<1>1. ASSUME NEW q \in Requests, NEW answer \in Replies, Answer(q, answer),
             answer # "ok" \/ Kind[q] \notin {"claim", "cancel"}, pc[q] # "truncate"
      PROVE  DecidedInv'
  BY <1>0, <1>1 DEF Answer, Reply, Goto, Steps
<1>2. ASSUME NEW q \in Requests, Create(q) PROVE DecidedInv'
  BY <1>0, <1>2 DEF Create, Empty, Goto, Steps, Torn
<1>3. ASSUME NEW q \in Requests, Open(q) PROVE DecidedInv'
  <2>1. CASE Missing
    BY <1>1, <1>3, <2>1 DEF Open, Replies, Locking
  <2>2. CASE ~Missing
    BY <1>0, <1>3, <2>2 DEF Open, Locking, Goto, Steps, Prepared
  <2>. QED
    BY <2>1, <2>2
<1>4. ASSUME NEW q \in Requests, LockAndRead(q) PROVE DecidedInv'
  <2>1. fd[q] \in Inodes /\ Kind[q] \in Locking /\ pc[q] = "lock"
    BY <1>4 DEF LockAndRead, Prepared
  <2> DEFINE d == contents[fd[q]]
  <2>2. CASE d = Torn \/ ~Accepts(q, d)
    BY <1>1, <1>4, <2>1, <2>2 DEF LockAndRead, Replies, Locking
  <2>3. CASE d # Torn /\ Accepts(q, d)
    <3>1. /\ pc' = [pc EXCEPT ![q] = "truncate"]
          /\ doc' = [doc EXCEPT ![q] = d]
          /\ UNCHANGED <<inode, contents, fd, reply, saved>>
      BY <1>4, <2>3 DEF LockAndRead, Goto
    <3>2. CASE Kind[q] \notin {"claim", "cancel"}
      <4> HIDE DEF d
      <4>. QED
        BY <1>0, <2>1, <3>1, <3>2 DEF Steps, Locking, Decided
    <3>3. CASE Kind[q] \in {"claim", "cancel"}
      <4>1. contents[fd[q]].status = "QUEUED"
        BY <2>3, <3>3 DEF Accepts
      <4>2. pc'[q] = "truncate" /\ \A p \in Requests : p # q => pc'[p] = pc[p]
        BY <3>1
      <4>3. q \notin Deciders
        BY <2>1 DEF Deciders, Decided, Prepared
      <4>4. Deciders' = Deciders \cup {q}
        BY <3>1, <3>3, <4>2 DEF Deciders, Decided
      <4>5. fd[q] \in Offered
        BY <1>4, <2>1, <4>1 DEF LockAndRead, LockFree, Holds, Locking, Offered, Deciders, Decided
      <4>6. Offered' \subseteq Offered \ {fd[q]}
        BY <3>1, <4>2, <4>3, <4>4 DEF Offered
      <4>7. Requeuing' \subseteq Requeuing /\ Requeued' = Requeued /\ Creating' \subseteq Creating
        BY <3>1, <3>3, <4>2 DEF Requeuing, Requeued, Creating, Of
      <4>. QED
        BY <4>3, <4>4, <4>5, <4>6, <4>7, OfferTaken
    <3>. QED
      BY <3>2, <3>3
  <2>. QED
    BY <2>2, <2>3
<1>5. ASSUME NEW q \in Requests, SkipLocked(q) PROVE DecidedInv'
  BY <1>1, <1>5 DEF SkipLocked, Replies
<1>6. ASSUME NEW q \in Requests, Truncate(q) PROVE DecidedInv'
  <2>1. fd[q] \in Inodes /\ Kind[q] \notin {"create", "patch"}
    BY <1>6 DEF Truncate, Prepared
  <2>2. /\ pc[q] = "truncate" /\ pc' = [pc EXCEPT ![q] = "write"]
        /\ contents' = [contents EXCEPT ![fd[q]] = Torn]
        /\ fd' = [fd EXCEPT ![q] = fd[q]] /\ reply' = reply /\ doc' = doc
    BY <1>6 DEF Truncate, Empty, Goto
  <2>. QED
    BY <1>0, <2>1, <2>2 DEF Torn, Steps, Decided
<1>7. ASSUME NEW q \in Requests, NEW overlaid \in BOOLEAN, Write(q, overlaid)
      PROVE  DecidedInv'
  <2>1. /\ fd[q] \in Inodes /\ pc[q] = "write"
        /\ pc' = [pc EXCEPT ![q] = "release"]
        /\ fd' = fd /\ reply' = reply /\ doc' = doc
    BY <1>7 DEF Write, Goto, Prepared
  <2>2. PICK new \in Doc \cup {Torn} :
          /\ contents' = [contents EXCEPT ![fd[q]] = new]
          /\ new.status = "QUEUED" =>
               Kind[q] = "create" \/ (Kind[q] = "patch" /\ doc[q].status = "QUEUED")
    <3>1. /\ Rewritten(q) \in Doc
          /\ Rewritten(q).status = "QUEUED" =>
               Kind[q] = "create" \/ (Kind[q] = "patch" /\ doc[q].status = "QUEUED")
      BY <1>7, RewrittenType DEF Write
    <3>2. CASE overlaid
      <4>1. contents' = [contents EXCEPT ![fd[q]] = Torn]
        BY <1>7, <3>2 DEF Write
      <4>2. Torn.status # "QUEUED"
        BY DEF Torn
      <4>. QED
        BY <4>1, <4>2
    <3>3. CASE ~overlaid
      BY <1>7, <3>1, <3>3 DEF Write
    <3>. QED
      BY <3>2, <3>3
  <2>3. CASE new.status # "QUEUED"
    BY <1>0, <2>1, <2>2, <2>3 DEF Steps, Decided
  <2>4. CASE new.status = "QUEUED"
    <3>1. pc'[q] = "release" /\ \A p \in Requests : p # q => pc'[p] = pc[p]
      BY <2>1
    <3>2. Deciders' = Deciders
      BY <2>1, <2>2, <2>4, <3>1 DEF Deciders, Decided
    <3>3. Offered' \subseteq Offered \cup {fd[q]}
      BY <2>1, <2>2, <3>1, <3>2 DEF Offered
    <3>4. Requeued' = Requeued
      BY <2>1 DEF Requeued
    <3>5. Requeuing' = Requeuing \ {q} /\ Creating' = Creating \ {q}
      BY <2>1, <3>1 DEF Requeuing, Creating, Of
    <3>6. q \in Creating \/ q \in Requeuing
      BY <2>1, <2>2, <2>4 DEF Requeuing, Creating, Of
    <3>. QED
      BY <2>1, <3>2, <3>3, <3>4, <3>5, <3>6, OfferMade
  <2>. QED
    BY <2>3, <2>4
<1>8. ASSUME NEW q \in Requests, Release(q) PROVE DecidedInv'
  BY <1>0, <1>8 DEF Release, Reply, Goto, Steps, Decided
<1>9. ASSUME NEW q \in Requests, FinishLookup(q) PROVE DecidedInv'
  <2>1. CASE Answer(q, "refused")
    BY <1>1, <1>9, <2>1 DEF FinishLookup, Replies
  <2>2. CASE Goto(q, "again") /\ UNCHANGED <<inode, contents, fd, doc, reply, saved>>
    BY <1>0, <1>9, <2>2 DEF FinishLookup, Goto, Steps
  <2>. QED
    BY <1>9, <2>1, <2>2 DEF FinishLookup
<1>10. ASSUME NEW q \in Requests, NEW outcome \in FINAL_STATUSES, FinishRead(q, outcome)
       PROVE  DecidedInv'
  <2>1. Kind[q] = "finish" /\ pc[q] = "again"
    BY <1>10 DEF FinishRead
  <2>2. \/ \E answer \in Replies : Answer(q, answer)
        \/ /\ pc' = [pc EXCEPT ![q] = "reopen"]
           /\ doc' = [doc EXCEPT ![q] = [contents[inode] EXCEPT !.status = outcome]]
           /\ UNCHANGED <<contents, fd, reply>>
    BY <1>10 DEF FinishRead, Update, Goto, Replies
  <2>. QED
    BY <1>0, <1>1, <2>1, <2>2 DEF Steps
<1>11. ASSUME NEW q \in Requests, NEW new \in Bodies, PatchRead(q, new) PROVE DecidedInv'
  <2>1. Kind[q] = "patch" /\ pc[q] = "start" /\ doc[q] = NoDoc
    BY <1>11 DEF PatchRead, Prepared
  <2>2. CASE \E answer \in Replies : Answer(q, answer)
    BY <1>1, <2>1, <2>2
  <2>3. CASE /\ pc' = [pc EXCEPT ![q] = "reopen"]
             /\ doc' = [doc EXCEPT ![q] = new]
             /\ UNCHANGED <<contents, fd, reply>>
    <3>1. pc'[q] = "reopen" /\ \A p \in Requests : p # q => pc'[p] = pc[p]
      BY <2>3
    <3>2. doc'[q] = new /\ \A p \in Requests : p # q => doc'[p] = doc[p]
      BY <2>3
    <3>3. Deciders' = Deciders /\ Offered' = Offered
      <4>1. Deciders' = Deciders
        BY <2>1, <2>3, <3>1 DEF Deciders, Decided
      <4>2. \A p \in Deciders : pc'[p] = pc[p]
        BY <2>1, <3>1 DEF Deciders, Decided
      <4>. QED
        BY <2>3, <4>1, <4>2 DEF Offered
    <3>4. Creating' = Creating
      BY <2>1, <3>1 DEF Creating, Of
    <3>5. q \notin Requeued /\ Requeuing' \subseteq Requeuing \cup {q}
      <4>1. doc[q].status # "QUEUED"
        BY <2>1 DEF NoDoc
      <4>2. q \notin Requeued
        BY <4>1 DEF Requeued
      <4>3. Requeuing' \subseteq Requeuing \cup {q}
        BY <3>1, <3>2 DEF Requeuing, Of
      <4>. QED
        BY <4>2, <4>3
    <3>6. CASE new.status = "QUEUED"
      <4>1. Requeued' = Requeued \cup {q}
        BY <2>1, <3>2, <3>6 DEF Requeued, Of
      <4>. QED
        BY <3>3, <3>4, <3>5, <4>1, OfferPlanned
    <3>7. CASE new.status # "QUEUED"
      <4>1. Requeued' = Requeued
        <5>1. doc[q].status # "QUEUED"
          BY <2>1 DEF NoDoc
        <5>. QED
          BY <3>2, <3>7, <5>1 DEF Requeued, Of
      <4>2. Requeuing' \subseteq Requeuing
        BY <3>1, <3>2, <3>7 DEF Requeuing, Of
      <4>. QED
        BY <3>3, <3>4, <4>1, <4>2, NoneMore
    <3>. QED
      BY <3>6, <3>7
  <2>. QED
    BY <1>11, <2>2, <2>3 DEF PatchRead, Update, Goto, Replies
<1>12. ASSUME NEW q \in Requests, Reopen(q) PROVE DecidedInv'
  <2>1. PICK i \in Inodes : inode' = i /\ Empty(q, i)
    BY <1>12 DEF Reopen
  <2>2. Kind[q] \in {"finish", "patch"} /\ pc[q] = "reopen"
    BY <1>12 DEF Reopen, Prepared
  <2>3. /\ pc' = [pc EXCEPT ![q] = "write"] /\ fd' = [fd EXCEPT ![q] = i]
        /\ contents' = [contents EXCEPT ![i] = Torn] /\ UNCHANGED <<doc, reply>>
    BY <1>12, <2>1 DEF Reopen, Empty, Goto
  <2>. QED
    BY <1>0, <2>2, <2>3 DEF Torn, Steps
<1>13. ASSUME NEW q \in Requests, HealLook(q) PROVE DecidedInv'
  <2>1. CASE Orphaned(q)
    BY <1>0, <1>13, <2>1 DEF HealLook, Goto, Steps
  <2>2. CASE ~Orphaned(q)
    BY <1>1, <1>13, <2>2 DEF HealLook, Replies
  <2>. QED
    BY <2>1, <2>2
<1>14. ASSUME NEW q \in Requests, HealRead(q) PROVE DecidedInv'
  <2>1. CASE Missing \/ contents[inode].status # "RUNNING"
    BY <1>1, <1>14, <2>1 DEF HealRead, Replies
  <2>2. CASE ~(Missing \/ contents[inode].status # "RUNNING")
    BY <1>0, <1>14, <2>2 DEF HealRead, Goto, Steps
  <2>. QED
    BY <2>1, <2>2
<1>15. ASSUME NEW q \in Requests, Delete(q) PROVE DecidedInv'
  BY <1>0, <1>15 DEF Delete, Reply, Goto, Steps
<1>16. CASE Crash
  <2> DEFINE T == {q \in Deciders : pc[q] = "truncate"}
             Freed == {fd[q] : q \in T}
  <2>1. /\ \A q \in Requests : pc'[q] = IF pc[q] = "start" THEN "start" ELSE "done"
        /\ UNCHANGED <<inode, contents, fd, doc, reply>>
    BY <1>16 DEF Crash
  <2>2. Deciders' \subseteq Deciders \ T
    BY <2>1 DEF Deciders, Decided, Prepared
  <2>3. Offered' \subseteq Offered \cup Freed
    BY <2>1 DEF Offered
  <2>4. Requeuing' = {} /\ Requeued' = Requeued /\ Creating' \subseteq Creating
    BY <2>1 DEF Requeuing, Requeued, Creating, Of
  <2>5. /\ IsFiniteSet(Deciders) /\ IsFiniteSet(T) /\ IsFiniteSet(Offered)
        /\ Cardinality(Deciders) \in Nat /\ Cardinality(T) \in Nat /\ Cardinality(Offered) \in Nat
    BY SetsOfRequests, Countable
  <2>6. IsFiniteSet(Freed) /\ Cardinality(Freed) <= Cardinality(T) /\ Cardinality(Freed) \in Nat
    <3> DEFINE f == [q \in T |-> fd[q]]
    <3>1. f \in Surjection(T, Freed)
      BY DEF Surjection
    <3>. QED
      BY <2>5, <3>1, FS_Surjection, FS_CardinalityType
  <2>7. /\ Cardinality(Deciders \ T) = Cardinality(Deciders) - Cardinality(T)
        /\ IsFiniteSet(Deciders \ T)
    <3>1. Deciders \cap T = T
      OBVIOUS
    <3>. QED
      BY <2>5, <3>1, FS_Difference
  <2>8. /\ Cardinality(Offered \cup Freed) <= Cardinality(Offered) + Cardinality(Freed)
        /\ IsFiniteSet(Offered \cup Freed) /\ Cardinality(Offered \cup Freed) \in Nat
    <3>1. /\ IsFiniteSet(Offered \cup Freed)
          /\ Cardinality(Offered \cup Freed) =
               Cardinality(Offered) + Cardinality(Freed) - Cardinality(Offered \cap Freed)
      BY <2>5, <2>6, FS_Union
    <3>2. Cardinality(Offered \cap Freed) \in Nat
      BY <2>5, FS_Intersection, FS_CardinalityType
    <3> HIDE DEF Freed
    <3>. QED
      BY <2>5, <2>6, <3>1, <3>2, FS_CardinalityType
  <2>9. /\ Cardinality(Deciders') <= Cardinality(Deciders) - Cardinality(T)
        /\ Cardinality(Deciders') \in Nat
    BY <2>2, <2>7, FS_Subset, FS_CardinalityType
  <2>10. /\ Cardinality(Offered') <= Cardinality(Offered \cup Freed)
         /\ Cardinality(Offered') \in Nat
    BY <2>3, <2>8, FS_Subset, FS_CardinalityType
  <2>11. /\ Cardinality(Requeuing') = 0 /\ Cardinality(Requeuing) \in Nat
    BY <2>4, SetsOfRequests, Countable, FS_EmptySet
  <2>12. /\ Cardinality(Creating) \in Nat /\ Cardinality(Creating') \in Nat
         /\ Cardinality(Creating') <= Cardinality(Creating)
    BY <2>4, SetsOfRequests, Countable
  <2>13. Cardinality(Requeued') = Cardinality(Requeued) /\ Cardinality(Requeued) \in Nat
    BY <2>4, SetsOfRequests, Countable
  <2> HIDE DEF T, Freed
  <2>. QED
    BY <2>5, <2>6, <2>8, <2>9, <2>10, <2>11, <2>12, <2>13 DEF DecidedInv
<1>17. CASE UNCHANGED vars
  <2>1. /\ Deciders' = Deciders /\ Offered' = Offered /\ Requeuing' = Requeuing
        /\ Creating' = Creating /\ Requeued' = Requeued
    BY <1>17 DEF vars, Deciders, Decided, Offered, Requeuing, Creating, Requeued
  <2>. QED
    BY <2>1, NoneMore
<1>. QED
  BY <1>2, <1>3, <1>4, <1>5, <1>6, <1>7, <1>8, <1>9, <1>10, <1>11, <1>12, <1>13,
     <1>14, <1>15, <1>16, <1>17 DEF Next, AllAnswered

(* Types and the decision together are inductive.                          *)
LEMMA DecidedInvariant == Spec => [](TypeInv /\ DecidedInv)
<1>1. Init => TypeInv
  BY InodesNat DEF Init, TypeInv, TypeOK, Prepared, Steps, Replies
<1>2. ASSUME Init PROVE DecidedInv
  <2>1. Deciders = {} /\ Offered = {} /\ Requeuing = {}
    BY <1>2 DEF Init, Deciders, Decided, Offered, Requeuing, Torn, Of
  <2>2. Cardinality(Creating) <= 1 /\ Cardinality(Creating) \in Nat
    <3>1. CASE Creating = {}
      BY <3>1, FS_EmptySet
    <3>2. CASE Creating # {}
      <4>1. PICK c \in Creating : TRUE
        BY <3>2
      <4>2. Creating = {c}
        <5>1. \A d \in Creating : d = c
          BY <4>1, RequestsAssumption DEF Creating
        <5>. QED
          BY <4>1, <5>1
      <4>3. Cardinality({c}) = 1
        BY FS_Singleton
      <4>. QED
        BY <4>2, <4>3
    <3>. QED
      BY <3>1, <3>2
  <2>3. Cardinality(Requeued) \in Nat
    BY SetsOfRequests, Countable
  <2> HIDE DEF Deciders, Offered, Requeuing, Creating, Requeued
  <2>. QED
    BY <2>1, <2>2, <2>3, FS_EmptySet DEF DecidedInv
<1>. QED
  BY <1>1, <1>2, TypeStep, DecidedStep, PTL DEF Spec

(* For any number of concurrent requests of every kind, and through server *)
(* crashes between any two system calls, a queued record is claimed or its *)
(* cancellation confirmed once, and once more for each PATCH that read it  *)
(* queued and writes it back.                                              *)
THEOREM RecordDecidedOnce == Spec => []DecidedOnce
<1>1. ASSUME DecidedInv PROVE DecidedOnce
  <2>1. Claimed \cup Canceled \subseteq Deciders
    BY DEF Claimed, Canceled, Deciders, Decided, Of
  <2>2. /\ Cardinality(Claimed \cup Canceled) <= Cardinality(Deciders)
        /\ Cardinality(Claimed \cup Canceled) \in Nat /\ Cardinality(Deciders) \in Nat
    BY <2>1, SetsOfRequests, Countable
  <2>3. /\ Cardinality(Offered) \in Nat /\ Cardinality(Requeuing) \in Nat
        /\ Cardinality(Creating) \in Nat /\ Cardinality(Requeued) \in Nat
    BY SetsOfRequests, Countable
  <2> HIDE DEF Deciders, Offered, Requeuing, Creating, Requeued, Claimed, Canceled
  <2>. QED
    BY <1>1, <2>2, <2>3 DEF DecidedInv, DecidedOnce
<1>. QED
  BY <1>1, DecidedInvariant, PTL

(* Where no PATCH requeues, two deciders would be one too many.            *)
LEMMA OneDecider ==
  ASSUME DecidedInv, Of("patch") = {}
  PROVE  \A p, q \in Deciders : p = q
<1>1. Requeued = {}
  BY DEF Requeued
<1>2. /\ IsFiniteSet(Deciders) /\ Cardinality(Deciders) \in Nat
      /\ Cardinality(Offered) \in Nat
      /\ Cardinality(Requeuing) \in Nat /\ Cardinality(Creating) \in Nat
  BY SetsOfRequests, Countable
<1>3. Cardinality(Deciders) <= 1
  <2> HIDE DEF Deciders, Offered, Requeuing, Creating, Requeued
  <2>. QED
    BY <1>1, <1>2, FS_EmptySet DEF DecidedInv
<1> SUFFICES ASSUME NEW p \in Deciders, NEW q \in Deciders, p # q PROVE FALSE
  OBVIOUS
<1>4. {p} \subseteq Deciders \ {q} /\ Cardinality({p}) = 1
  BY FS_Singleton
<1>5. Cardinality(Deciders \ {q}) = Cardinality(Deciders) - 1 /\ IsFiniteSet(Deciders \ {q})
  BY <1>2, FS_RemoveElement
<1>6. Cardinality({p}) <= Cardinality(Deciders \ {q})
  BY <1>4, <1>5, FS_Subset
<1>. QED
  BY <1>2, <1>3, <1>4, <1>5, <1>6

-----------------------------------------------------------------------------
(* Where every writer takes the lock: the creation comes before any of     *)
(* them, and no other handler writes.                                      *)
LockedOnly == \A q \in Requests : Kind[q] \in Locking \cup {"create"}

(* Who has the file to itself.                                             *)
Busy(q) == Holds(q) \/ pc[q] = "write"

(* There is one file; one request at a time has it.  A holder goes by the  *)
(* last complete record, which nobody changes until it does.               *)
OneFile ==
  /\ inode \in {0, 1}
  /\ \A q \in Requests :
       /\ pc[q] \in {"start", "lock", "truncate", "write", "release", "done"}
       /\ pc[q] \notin {"start", "done"} => inode = 1
       /\ pc[q] \in {"lock", "truncate", "write", "release"} => fd[q] = 1
       /\ Kind[q] = "create" => (pc[q] = "start" <=> inode = 0)
       /\ Kind[q] = "create" => pc[q] \notin {"lock", "truncate"}
OneHolder ==
  /\ \A p, q \in Requests : Busy(p) /\ Busy(q) => p = q
  /\ \A q \in Requests : pc[q] = "write" => contents[1] = Torn
SavedInFile ==
  /\ inode = 0 => saved = NoDoc
  /\ inode = 1 /\ contents[1] # Torn => saved = contents[1]
HeldRecord ==
  \A q \in Requests :
    /\ Kind[q] \in Locking /\ pc[q] \in {"truncate", "write"} =>
         doc[q] = saved /\ Accepts(q, saved)
    /\ Kind[q] = "create" /\ pc[q] \in {"start", "write"} => saved = NoDoc
    /\ Kind[q] = "claim" /\ pc[q] = "release" => saved.owner = Worker[q]

LockedInv == LockedOnly /\ OneFile /\ OneHolder /\ SavedInFile /\ HeldRecord

(* At the start nobody has the file.                                       *)
LEMMA LockedInit == LockedOnly /\ Init => LockedInv
  BY InodesNat DEF Init, LockedInv, OneFile, OneHolder, Busy, Holds,
     SavedInFile, HeldRecord, Locking

(* One request goes on, and leaves the file and its record alone.          *)
LEMMA GoesOn ==
  ASSUME TypeInv, LockedInv, NEW q \in Requests, NEW s \in Steps,
         UNCHANGED <<inode, contents, saved>>,
         pc' = [pc EXCEPT ![q] = s],
         pc[q] = "start" => Kind[q] # "create",
         pc[q] \in {"lock", "truncate", "write", "release"} => fd' = fd,
         \A p \in Requests : p # q => fd'[p] = fd[p] /\ doc'[p] = doc[p],
         \/ s = "done"
         \/ s = "lock" /\ inode = 1 /\ fd'[q] = 1 /\ Kind[q] \in Locking
         \/ /\ s = "truncate" /\ pc[q] = "lock"
            /\ \A p \in Requests : ~Busy(p)
            /\ doc'[q] = saved /\ Accepts(q, saved) /\ Kind[q] \in Locking
  PROVE  LockedInv'
<1>1. /\ pc'[q] = s /\ \A p \in Requests : p # q => pc'[p] = pc[p]
      /\ pc \in [Requests -> Steps]
  BY DEF TypeInv, TypeOK
<1>2. OneFile'
  <2>1. inode' = inode /\ s \in {"lock", "truncate", "done"}
    BY DEF LockedInv, OneFile
  <2>2. s = "truncate" => fd'[q] = 1
    BY DEF LockedInv, OneFile
  <2> QED
    BY <1>1, <2>1, <2>2 DEF LockedInv, OneFile, Locking
<1>3. OneHolder'
  <2>1. \A p \in Requests : Busy(p)' => Busy(p) \/ (p = q /\ s = "truncate")
    BY <1>1 DEF Busy, Holds
  <2>2. \A p \in Requests : pc'[p] = "write" => pc[p] = "write"
    BY <1>1
  <2> QED
    BY <2>1, <2>2 DEF LockedInv, OneHolder
<1>4. SavedInFile'
  BY DEF LockedInv, SavedInFile
<1>5. HeldRecord'
  <2> SUFFICES ASSUME NEW p \in Requests
               PROVE  /\ Kind[p] \in Locking /\ pc'[p] \in {"truncate", "write"} =>
                           doc'[p] = saved' /\ Accepts(p, saved')
                      /\ Kind[p] = "create" /\ pc'[p] \in {"start", "write"} =>
                           saved' = NoDoc
                      /\ Kind[p] = "claim" /\ pc'[p] = "release" =>
                           saved'.owner = Worker[p]
    BY DEF HeldRecord, Accepts
  <2> QED
    BY <1>1 DEF LockedInv, HeldRecord
<1> QED
  BY <1>2, <1>3, <1>4, <1>5 DEF LockedInv, LockedOnly

(* The write of a complete record, by whoever has the file.                *)
LEMMA WriteIsWhole ==
  ASSUME TypeInv, LockedInv, NEW q \in Requests, NEW overlaid \in BOOLEAN,
         Write(q, overlaid)
  PROVE  /\ pc[q] = "write" /\ pc' = [pc EXCEPT ![q] = "release"]
         /\ contents' = [contents EXCEPT ![1] = Rewritten(q)]
         /\ saved' = Rewritten(q) /\ Rewritten(q) \in Doc
         /\ inode = 1 /\ UNCHANGED <<inode, fd, doc, reply>>
<1>1. pc[q] = "write" /\ fd[q] = 1 /\ inode = 1 /\ contents[1] = Torn
  BY DEF Write, LockedInv, OneFile, OneHolder
<1>2. ~overlaid
  BY <1>1 DEF Write
<1> QED
  BY <1>1, <1>2, RewrittenType DEF Write, Goto

(* A write keeps this.                                                     *)
LEMMA WriteLocked ==
  ASSUME TypeInv, LockedInv, NEW q \in Requests, NEW overlaid \in BOOLEAN,
         Write(q, overlaid)
  PROVE  LockedInv'
<1>1. /\ pc[q] = "write" /\ pc' = [pc EXCEPT ![q] = "release"]
      /\ contents' = [contents EXCEPT ![1] = Rewritten(q)]
      /\ saved' = Rewritten(q) /\ Rewritten(q) \in Doc
      /\ inode = 1 /\ UNCHANGED <<inode, fd, doc, reply>>
  BY WriteIsWhole
<1>2. /\ pc'[q] = "release" /\ \A p \in Requests : p # q => pc'[p] = pc[p]
      /\ contents'[1] = Rewritten(q)
  BY <1>1, InodesNat DEF TypeInv, TypeOK
<1>3. \A p \in Requests : p # q => ~Busy(p)
  BY <1>1 DEF LockedInv, OneHolder, Busy
<1>4. OneFile'
  BY <1>1, <1>2 DEF LockedInv, OneFile
<1>5. OneHolder'
  BY <1>2, <1>3 DEF OneHolder, Busy, Holds
<1>6. SavedInFile'
  BY <1>1, <1>2 DEF SavedInFile
<1>7. HeldRecord'
  <2> SUFFICES ASSUME NEW p \in Requests
               PROVE  /\ Kind[p] \in Locking /\ pc'[p] \in {"truncate", "write"} =>
                           doc'[p] = saved' /\ Accepts(p, saved')
                      /\ Kind[p] = "create" /\ pc'[p] \in {"start", "write"} =>
                           saved' = NoDoc
                      /\ Kind[p] = "claim" /\ pc'[p] = "release" =>
                           saved'.owner = Worker[p]
    BY DEF HeldRecord, Accepts
  <2>1. CASE p = q
    BY <1>1, <1>2, <2>1 DEF Rewritten
  <2>2. CASE p # q
    <3>1. pc'[p] \notin {"truncate", "write", "release"}
            \/ (Kind[p] \notin Locking /\ pc'[p] # "write")
      BY <1>2, <1>3, <2>2 DEF Busy, Holds
    <3>2. Kind[p] = "create" => pc[p] # "start"
      BY <1>1 DEF LockedInv, OneFile
    <3> QED
      BY <1>2, <2>2, <3>1, <3>2 DEF Locking
  <2> QED
    BY <2>1, <2>2
<1> QED
  BY <1>4, <1>5, <1>6, <1>7 DEF LockedInv, LockedOnly

(* The file is opened for writing: empty until the write.                  *)
LEMMA EmptyLocked ==
  ASSUME TypeInv, LockedInv, NEW q \in Requests, Create(q) \/ Truncate(q)
  PROVE  LockedInv'
<1>1. /\ inode' = 1 /\ fd' = [fd EXCEPT ![q] = 1]
      /\ contents' = [contents EXCEPT ![1] = Torn]
      /\ pc' = [pc EXCEPT ![q] = "write"]
      /\ UNCHANGED <<doc, reply, saved>>
      /\ \/ pc[q] = "start" /\ inode = 0 /\ Kind[q] = "create"
         \/ pc[q] = "truncate" /\ inode = 1 /\ Kind[q] \in Locking
  BY DEF Create, Truncate, Empty, Goto, LockedInv, OneFile, LockedOnly
<1>2. /\ pc'[q] = "write" /\ \A p \in Requests : p # q => pc'[p] = pc[p]
      /\ fd'[q] = 1 /\ \A p \in Requests : p # q => fd'[p] = fd[p]
      /\ contents'[1] = Torn
  BY <1>1, InodesNat DEF TypeInv, TypeOK
<1>3. \A p \in Requests : p # q => ~Busy(p)
  BY <1>1 DEF LockedInv, OneHolder, OneFile, Busy, Holds
<1>4. OneFile'
  BY <1>1, <1>2, RequestsAssumption DEF LockedInv, OneFile, Of, Locking
<1>5. OneHolder'
  BY <1>2, <1>3 DEF OneHolder, Busy, Holds
<1>6. SavedInFile'
  BY <1>1, <1>2 DEF LockedInv, SavedInFile
<1>7. HeldRecord'
  <2> SUFFICES ASSUME NEW p \in Requests
               PROVE  /\ Kind[p] \in Locking /\ pc'[p] \in {"truncate", "write"} =>
                           doc'[p] = saved' /\ Accepts(p, saved')
                      /\ Kind[p] = "create" /\ pc'[p] \in {"start", "write"} =>
                           saved' = NoDoc
                      /\ Kind[p] = "claim" /\ pc'[p] = "release" =>
                           saved'.owner = Worker[p]
    BY DEF HeldRecord, Accepts
  <2> QED
    BY <1>1, <1>2 DEF LockedInv, HeldRecord, Locking
<1> QED
  BY <1>4, <1>5, <1>6, <1>7 DEF LockedInv, LockedOnly

(* Every step keeps this.                                                  *)
LEMMA LockedStep == ASSUME TypeInv, LockedInv, [Next]_vars PROVE LockedInv'
<1> USE DEF TypeInv, TypeOK
<1>1. ASSUME NEW q \in Requests, NEW answer \in Replies, Answer(q, answer),
             Kind[q] # "create"
      PROVE  LockedInv'
  BY <1>1, GoesOn DEF Answer, Reply, Goto, Steps
<1>2. ASSUME NEW q \in Requests, Open(q) PROVE LockedInv'
  <2>1. CASE Missing
    BY <1>1, <1>2, <2>1 DEF Open, Replies, Locking
  <2>2. CASE ~Missing
    <3>1. inode = 1 /\ pc[q] = "start" /\ Kind[q] \in Locking
          /\ fd' = [fd EXCEPT ![q] = 1] /\ pc' = [pc EXCEPT ![q] = "lock"]
          /\ UNCHANGED <<inode, contents, doc, reply, saved>>
      BY <1>2, <2>2 DEF Open, Missing, Goto, LockedInv, OneFile
    <3> QED
      BY <3>1, GoesOn DEF Steps, Locking
  <2> QED
    BY <2>1, <2>2
<1>3. ASSUME NEW q \in Requests, LockAndRead(q) PROVE LockedInv'
  <2>1. /\ pc[q] = "lock" /\ fd[q] = 1 /\ inode = 1
        /\ Kind[q] \in Locking
    BY <1>3 DEF LockAndRead, LockedInv, OneFile, Prepared
  <2>2. CASE contents[1] = Torn \/ ~Accepts(q, contents[1])
    BY <1>1, <1>3, <2>1, <2>2 DEF LockAndRead, Replies, Locking
  <2>3. CASE contents[1] # Torn /\ Accepts(q, contents[1])
    <3>1. /\ doc' = [doc EXCEPT ![q] = saved] /\ Accepts(q, saved)
          /\ pc' = [pc EXCEPT ![q] = "truncate"]
          /\ UNCHANGED <<inode, contents, fd, reply, saved>>
      BY <1>3, <2>1, <2>3 DEF LockAndRead, Goto, LockedInv, SavedInFile
    <3>2. \A p \in Requests : ~Busy(p)
      BY <1>3, <2>1, <2>3 DEF LockAndRead, LockFree, Busy, Holds, LockedInv,
         OneFile, OneHolder
    <3> QED
      BY <2>1, <3>1, <3>2, GoesOn DEF Steps
  <2> QED
    BY <2>2, <2>3
<1>4. ASSUME NEW q \in Requests, SkipLocked(q) PROVE LockedInv'
  BY <1>1, <1>4 DEF SkipLocked, Replies
<1>5. ASSUME NEW q \in Requests, Release(q) PROVE LockedInv'
  BY <1>5, GoesOn DEF Release, Reply, Goto, Steps
<1>6. ASSUME NEW q \in Requests
      PROVE  /\ ~FinishLookup(q) /\ ~Reopen(q) /\ ~Delete(q)
             /\ \A outcome : ~FinishRead(q, outcome)
             /\ \A new : ~PatchRead(q, new)
             /\ ~HealLook(q) /\ ~HealRead(q)
  BY DEF LockedInv, LockedOnly, OneFile, Locking, FinishLookup, FinishRead,
     PatchRead, Reopen, HealLook, HealRead, Delete
<1>7. CASE Crash
  <2>1. /\ \A q \in Requests : pc'[q] = IF pc[q] = "start" THEN "start" ELSE "done"
        /\ UNCHANGED <<inode, contents, fd, doc, reply, saved>>
    BY <1>7 DEF Crash
  <2>2. OneFile' /\ OneHolder'
    BY <2>1 DEF LockedInv, OneFile, OneHolder, Busy, Holds
  <2>3. HeldRecord' /\ SavedInFile'
    BY <2>1 DEF LockedInv, HeldRecord, SavedInFile
  <2> QED
    BY <2>2, <2>3 DEF LockedInv, LockedOnly
<1>8. CASE UNCHANGED vars
  BY <1>8 DEF vars, LockedInv, LockedOnly, OneFile, OneHolder, Busy, Holds,
     SavedInFile, HeldRecord, Accepts
<1> QED
  BY <1>2, <1>3, <1>4, <1>5, <1>6, <1>7, <1>8, WriteLocked, EmptyLocked
  DEF Next, AllAnswered

(* Types and this together are inductive.                                  *)
LEMMA LockedInvariant == LockedOnly /\ Spec => [](TypeInv /\ LockedInv)
<1>1. Init => TypeInv
  BY InodesNat DEF Init, TypeInv, TypeOK, Prepared, Steps, Replies
<1> QED
  BY <1>1, LockedInit, TypeStep, LockedStep, PTL DEF Spec

(* No writer, no unreadable record: with the server up, whoever finds the  *)
(* record unreadable has met a writer at work.                             *)
LeftReadable ==
  inode = 1 /\ contents[1] = Torn => \E q \in Requests : pc[q] = "write"

(* Every step keeps this while the server is up.                           *)
LEMMA ReadableStep ==
  ASSUME TypeInv, LockedInv, LeftReadable, ~Crashes, [Next]_vars
  PROVE  LeftReadable'
<1> USE InodesNat DEF TypeInv, TypeOK, LeftReadable
<1>1. ASSUME NEW q \in Requests, Create(q) \/ Truncate(q) PROVE LeftReadable'
  <2>1. pc'[q] = "write"
    BY <1>1 DEF Create, Truncate, Empty, Goto
  <2> QED
    BY <2>1
<1>2. ASSUME NEW q \in Requests, NEW overlaid \in BOOLEAN, Write(q, overlaid)
      PROVE  LeftReadable'
  <2>1. contents'[1] \in Doc
    BY <1>2, WriteIsWhole
  <2> QED
    BY <2>1, TornIsNoDoc
<1>3. ASSUME NEW q \in Requests,
             Open(q) \/ LockAndRead(q) \/ SkipLocked(q) \/ Release(q)
      PROVE  LeftReadable'
  <2>1. UNCHANGED <<inode, contents>> /\ pc[q] # "write"
    BY <1>3 DEF Open, LockAndRead, SkipLocked, Release, Answer
  <2>2. \A p \in Requests : p # q => pc'[p] = pc[p]
    BY <1>3 DEF Open, LockAndRead, SkipLocked, Release, Answer, Reply, Goto
  <2> QED
    BY <2>1, <2>2
<1>4. ASSUME NEW q \in Requests
      PROVE  /\ ~FinishLookup(q) /\ ~Reopen(q) /\ ~Delete(q)
             /\ \A outcome : ~FinishRead(q, outcome)
             /\ \A new : ~PatchRead(q, new)
             /\ ~HealLook(q) /\ ~HealRead(q)
  BY DEF LockedInv, LockedOnly, OneFile, Locking, FinishLookup, FinishRead,
     PatchRead, Reopen, HealLook, HealRead, Delete
<1>5. CASE UNCHANGED vars
  BY <1>5 DEF vars
<1> QED
  BY <1>1, <1>2, <1>3, <1>4, <1>5 DEF Next, AllAnswered, Crash

(* With any number of locking handlers, and a server that does not die, a  *)
(* record that nobody is writing can be read.                              *)
THEOREM RecordQuietReadable ==
  LockedOnly /\ ~Crashes /\ Spec => []QuietReadable
<1> DEFINE Quiet == ~Crashes /\ LeftReadable
<1>1. ~Crashes /\ Init => Quiet
  BY DEF Init, LeftReadable
<1>2. TypeInv /\ LockedInv /\ Quiet /\ [Next]_vars => Quiet'
  BY ReadableStep
<1>3. LockedInv /\ Quiet => QuietReadable
  BY DEF LockedInv, OneFile, LeftReadable, QuietReadable, Missing, Unreadable
<1> HIDE DEF Quiet
<1> QED
  BY <1>1, <1>2, <1>3, LockedInvariant, PTL DEF Spec

-----------------------------------------------------------------------------
(* Refinement: where every writer takes the lock, one file is one run of   *)
(* the abstract lifecycle.  Every complete record written is a legal next  *)
(* one of the record before it, and a claim's reply starts the run.        *)
Phase == [r \in {1} |-> IF Missing /\ saved # NoDoc THEN "GONE" ELSE saved.status]
Runner == [r \in {1} |-> saved.owner]
Launched(w) == Cardinality({c \in Claimed : Worker[c] = w})
Launches == [r \in {1} |-> [w \in Workers |-> Launched(w)]]

(* The record of the file is the phase of the run.                         *)
LEMMA PhaseIs == LockedInv => Phase[1] = saved.status
  BY DEF Phase, LockedInv, SavedInFile, OneFile, Missing

(* The file's next complete record.                                        *)
LEMMA WriteImplements ==
  ASSUME TypeInv, LockedInv, LockedInv', NEW q \in Requests,
         NEW overlaid \in BOOLEAN, Write(q, overlaid)
  PROVE  Lifecycle!Next
<1>1. /\ pc[q] = "write" /\ saved' = Rewritten(q) /\ Rewritten(q) \in Doc
      /\ inode = 1 /\ UNCHANGED <<inode, reply, doc>>
  BY WriteIsWhole
<1>2. /\ Phase = [r \in {1} |-> saved.status]
      /\ Phase' = [r \in {1} |-> Rewritten(q).status]
      /\ Runner = [r \in {1} |-> saved.owner]
      /\ Runner' = [r \in {1} |-> Rewritten(q).owner]
      /\ UNCHANGED Launches
  BY <1>1 DEF Phase, Runner, Launches, Launched, Missing, Claimed
<1> DEFINE Moved == <<saved.status, Rewritten(q).status>> \in ALLOWED_TRANSITIONS
<1>3. CASE Kind[q] = "create"
  <2>1. saved = NoDoc
    BY <1>1, <1>3 DEF LockedInv, HeldRecord
  <2>2. /\ Phase[1] = "NONE" /\ Phase' = [Phase EXCEPT ![1] = "QUEUED"]
        /\ UNCHANGED Runner
    BY <1>2, <1>3, <2>1 DEF Rewritten, NoDoc
  <2>3. Lifecycle!Submit(1)
    BY <1>2, <2>2 DEF Lifecycle!Submit, Phase, Runner, Launches, Launched
  <2> QED
    BY <2>3 DEF Lifecycle!Next
<1>4. CASE Kind[q] \in Locking
  <2>1. doc[q] = saved /\ Accepts(q, saved) /\ saved \in Doc
    BY <1>1, <1>4 DEF LockedInv, HeldRecord, TypeInv, Prepared, Locking
  <2>2. CASE Kind[q] = "claim"
    <3>1. /\ saved.status = "QUEUED" /\ Rewritten(q).status = "RUNNING"
          /\ Rewritten(q).owner = Worker[q] /\ Worker[q] \in Workers
      BY <2>1, <2>2, WorkersAssumption DEF Accepts, Rewritten
    <3>2. /\ Phase[1] = "QUEUED" /\ Phase'[1] = "RUNNING"
          /\ Phase' \in [{1} -> Statuses \cup Absent]
          /\ Runner' = [Runner EXCEPT ![1] = Worker[q]]
      BY <1>2, <3>1 DEF Statuses
    <3>3. Lifecycle!Assign(1, Worker[q])
      BY <1>2, <3>2 DEF Lifecycle!Assign, Lifecycle!Statuses, Statuses,
         Lifecycle!FINAL_STATUSES, FINAL_STATUSES, Lifecycle!Absent, Absent,
         Phase, Runner, Launches, Launched
    <3> QED
      BY <3>1, <3>3 DEF Lifecycle!Next
  <2>3. CASE Kind[q] # "claim"
    <3>1. Moved /\ Rewritten(q).owner = saved.owner
      BY <1>4, <2>1, <2>3 DEF Accepts, Rewritten, Recovered, Locking, Doc,
         ALLOWED_TRANSITIONS
    <3>2. /\ <<Phase[1], Phase'[1]>> \in ALLOWED_TRANSITIONS
          /\ Phase' \in [{1} -> Statuses \cup Absent]
          /\ UNCHANGED Runner
      BY <1>1, <1>2, <3>1 DEF Doc
    <3>3. Lifecycle!Advance
      BY <1>2, <3>2 DEF Lifecycle!Advance, Lifecycle!Statuses, Statuses,
         Lifecycle!FINAL_STATUSES, FINAL_STATUSES, Lifecycle!Absent, Absent,
         Lifecycle!ALLOWED_TRANSITIONS, ALLOWED_TRANSITIONS,
         Phase, Runner, Launches, Launched
    <3> QED
      BY <3>3 DEF Lifecycle!Next
  <2> QED
    BY <2>2, <2>3
<1> QED
  BY <1>3, <1>4 DEF LockedInv, LockedOnly

(* A claim's reply.                                                        *)
LEMMA ReleaseImplements ==
  ASSUME TypeInv, LockedInv, DecidedInv, NEW q \in Requests, Release(q)
  PROVE  [Lifecycle!Next]_Lifecycle!lifecycleVars
<1>1. /\ pc[q] = "release" /\ reply' = [reply EXCEPT ![q] = "ok"]
      /\ UNCHANGED <<inode, saved>> /\ reply \in [Requests -> Replies]
  BY DEF Release, Reply, TypeInv, TypeOK
<1>2. UNCHANGED <<Phase, Runner>>
  BY <1>1 DEF Phase, Runner, Missing
<1>3. CASE Kind[q] # "claim"
  <2>1. Claimed' = Claimed
    BY <1>1, <1>3 DEF Claimed, Of
  <2> QED
    BY <1>2, <2>1 DEF Lifecycle!lifecycleVars, Phase, Runner, Launches, Launched
<1>4. CASE Kind[q] = "claim"
  <2>1. Claimed = {} /\ Claimed' = {q}
    <3>1. Decided(q) /\ reply[q] # "ok"
      BY <1>1, <1>4 DEF Decided, TypeInv, Prepared
    <3>2. \A c \in Claimed : c = q
      <4>1. Of("patch") = {}
        BY DEF LockedInv, LockedOnly, Of, Locking
      <4>2. q \in Deciders /\ Claimed \subseteq Deciders
        BY <3>1 DEF Deciders, Decided, Claimed, Of
      <4>. QED
        BY <4>1, <4>2, OneDecider
    <3>3. q \notin Claimed
      BY <3>1 DEF Claimed
    <3> QED
      BY <1>1, <1>4, <3>2, <3>3 DEF Claimed, Of
  <2>2. saved.owner = Worker[q] /\ Worker[q] \in Workers
    BY <1>1, <1>4, WorkersAssumption DEF LockedInv, HeldRecord
  <2>3. \A w \in Workers : Launched(w) = 0
    <3> SUFFICES ASSUME NEW w \in Workers PROVE Launched(w) = 0
      OBVIOUS
    <3>1. {c \in Claimed : Worker[c] = w} = {}
      BY <2>1
    <3> QED
      BY <3>1, FS_EmptySet DEF Launched
  <2>4. \A w \in Workers : Launched(w)' = IF w = Worker[q] THEN 1 ELSE 0
    <3> SUFFICES ASSUME NEW w \in Workers
                 PROVE  Launched(w)' = IF w = Worker[q] THEN 1 ELSE 0
      OBVIOUS
    <3>1. {c \in Claimed' : Worker[c] = w} = IF w = Worker[q] THEN {q} ELSE {}
      BY <2>1
    <3> QED
      BY <3>1, FS_EmptySet, FS_Singleton DEF Launched
  <2>5. /\ Runner[1] = Worker[q]
        /\ \A w \in Workers : Launches[1][w] = 0
        /\ Launches' = [Launches EXCEPT ![1][Worker[q]] = 1]
    BY <2>2, <2>3, <2>4 DEF Runner, Launches
  <2>6. Lifecycle!Launch(1, Worker[q])
    BY <1>2, <2>5 DEF Lifecycle!Launch, Phase, Runner, Launches, Launched
  <2> QED
    BY <2>2, <2>6 DEF Lifecycle!Next
<1> QED
  BY <1>3, <1>4

(* With locks, every system call is a step of the lifecycle or none.       *)
LEMMA LockedImplements ==
  ASSUME TypeInv, LockedInv, LockedInv', DecidedInv, [Next]_vars
  PROVE  [Lifecycle!Next]_Lifecycle!lifecycleVars
<1>1. ASSUME UNCHANGED <<inode, saved, reply>>
      PROVE  UNCHANGED Lifecycle!lifecycleVars
  BY <1>1 DEF Lifecycle!lifecycleVars, Missing, Claimed
<1>2. ASSUME UNCHANGED saved, Claimed' = Claimed
      PROVE  UNCHANGED Lifecycle!lifecycleVars
  <2>1. Phase[1] = saved.status /\ Phase'[1] = saved'.status
    BY PhaseIs DEF Phase, Missing, LockedInv, SavedInFile, OneFile
  <2>2. UNCHANGED <<Phase, Runner, Launches>>
    BY <1>2, <2>1 DEF Phase, Runner, Launches, Launched
  <2> QED
    BY <2>2 DEF Lifecycle!lifecycleVars, Phase, Runner, Launches, Launched
<1>3. ASSUME NEW q \in Requests, Create(q) \/ Truncate(q)
      PROVE  UNCHANGED Lifecycle!lifecycleVars
  BY <1>2, <1>3 DEF Create, Truncate, Claimed
<1>4. ASSUME NEW q \in Requests,
             Open(q) \/ LockAndRead(q) \/ SkipLocked(q)
      PROVE  UNCHANGED Lifecycle!lifecycleVars
  <2>1. UNCHANGED saved
    BY <1>4 DEF Open, LockAndRead, SkipLocked, Answer
  <2>2. \/ UNCHANGED reply
        \/ \E answer \in {"refused", "error"} :
             reply' = [reply EXCEPT ![q] = answer] /\ reply[q] # "ok"
    BY <1>4 DEF Open, LockAndRead, SkipLocked, Answer, Reply, TypeInv,
       Prepared
  <2>3. Claimed' = Claimed
    BY <2>2 DEF Claimed, Of, TypeInv, TypeOK
  <2> QED
    BY <1>2, <2>1, <2>3
<1>5. ASSUME NEW q \in Requests
      PROVE  /\ ~FinishLookup(q) /\ ~Reopen(q) /\ ~Delete(q)
             /\ \A outcome : ~FinishRead(q, outcome)
             /\ \A new : ~PatchRead(q, new)
             /\ ~HealLook(q) /\ ~HealRead(q)
  BY DEF LockedInv, LockedOnly, OneFile, Locking, FinishLookup,
     FinishRead, PatchRead, Reopen, HealLook, HealRead, Delete
<1>6. CASE Crash \/ UNCHANGED vars
  BY <1>1, <1>6 DEF Crash, vars
<1> QED
  BY <1>3, <1>4, <1>5, <1>6, WriteImplements, ReleaseImplements
  DEF Next, AllAnswered

(* Where every writer takes the lock, the file system calls of all the     *)
(* handlers together implement the abstract lifecycle, through crashes of  *)
(* the server too: one complete record after another, along the legal      *)
(* transitions, and a run given once, to the worker it is assigned to.     *)
THEOREM RecordImplementsLifecycle == LockedOnly /\ Spec => ImplementsLifecycle
<1>1. Init => Lifecycle!Init
  <2> SUFFICES ASSUME Init PROVE Lifecycle!Init
    OBVIOUS
  <2>1. saved = NoDoc /\ Claimed = {}
    BY DEF Init, Claimed, Of
  <2>2. \A w \in Workers : Launched(w) = 0
    <3> SUFFICES ASSUME NEW w \in Workers PROVE Launched(w) = 0
      OBVIOUS
    <3>1. {c \in Claimed : Worker[c] = w} = {}
      BY <2>1
    <3> QED
      BY <3>1, FS_EmptySet DEF Launched
  <2> QED
    BY <2>1, <2>2 DEF Lifecycle!Init, NoDoc, Launched
<1> QED
  BY <1>1, LockedImplements, LockedInvariant, DecidedInvariant, PTL
  DEF Spec, ImplementsLifecycle, Lifecycle!Spec

(* "Final statuses cannot be changed": where every writer takes the lock,  *)
(* a concluded record keeps its conclusion.                                *)
THEOREM RecordFinalStays == LockedOnly /\ Spec => FinalIsFinal
<1> DEFINE Stays == saved.status \in FINAL_STATUSES => saved'.status = saved.status
<1>1. ASSUME TypeInv, LockedInv, TypeInv', LockedInv', DecidedInv, [Next]_vars,
             saved' # saved, saved.status \in FINAL_STATUSES
      PROVE  saved'.status = saved.status
  <2>1. Phase[1] = saved.status /\ Phase'[1] = saved'.status
    BY <1>1, PhaseIs DEF Phase, Missing, LockedInv, SavedInFile, OneFile
  <2>2. saved.status \notin {"NONE", "QUEUED"} /\ saved'.status # "GONE"
    BY <1>1 DEF FINAL_STATUSES, TypeInv, TypeOK, Doc, NoDoc, Statuses
  <2>3. [Lifecycle!Next]_Lifecycle!lifecycleVars
    BY <1>1, LockedImplements
  <2>4. \/ Phase'[1] = Phase[1]
        \/ <<Phase[1], Phase'[1]>> \in ALLOWED_TRANSITIONS
    BY <2>1, <2>2, <2>3
    DEF Lifecycle!Next, Lifecycle!Submit, Lifecycle!Launch, Lifecycle!Advance,
        Lifecycle!Assign, Lifecycle!Purge, Lifecycle!lifecycleVars, Phase,
        Lifecycle!ALLOWED_TRANSITIONS, ALLOWED_TRANSITIONS
  <2> QED
    BY <1>1, <2>1, <2>2, <2>4 DEF ALLOWED_TRANSITIONS, FINAL_STATUSES
<1>2. TypeInv /\ LockedInv /\ DecidedInv /\ TypeInv' /\ LockedInv'
        /\ [Next]_vars => Stays
  BY <1>1
<1>3. FinalIsFinal <=> [][Stays]_vars
  BY DEF FinalIsFinal
<1> HIDE DEF Stays
<1> QED
  BY <1>2, <1>3, LockedInvariant, DecidedInvariant, PTL DEF Spec
=============================================================================
