---------------------------- MODULE Workers_proofs ----------------------------
(***************************************************************************)
(* Theorems about what the server knows from its workers: who they are and *)
(* what an administrator has said of them (WorkerRegistry), for any ids,   *)
(* any finite number of request threads and of requests, and the log of a  *)
(* run (LogStream), for any number of chunks, any limit of a read and any  *)
(* number of empty reads.                                                  *)
(***************************************************************************)
EXTENDS WorkerRegistry, LogStream, FiniteSetTheorems, SequenceTheorems, TLAPS

(***************************************************************************)
(* The registry of workers.                                                *)
(***************************************************************************)

(* The types, and which step is of which operation.                        *)
CallTyped(c) ==
  /\ c \in Call
  /\ c.step \in {"verify", "remember", "load"} => c.op \in WorkerOps
  /\ c.step \in {"truncate", "write"} => c.op \in EditOps
  /\ c.step = "index" => c.op \in {"rotate", "delete"}
FilesTyped ==
  /\ workerFile \in [WorkerIds -> Registration \cup Unreadable]
  /\ tokenRows \in [WorkerIds -> TokenNumbers]
  /\ tokenCache \subseteq Token
  /\ granted \in [WorkerIds -> Registration \cup {Gone}]
CallsTyped ==
  /\ calls \in [RequestThreads -> Call \cup {NoCall}]
  /\ \A p \in RequestThreads : calls[p] # NoCall => CallTyped(calls[p])
CountsTyped ==
  /\ client \in Token
  /\ clientState \in {"polling", "registering"}
  /\ requested \in 0..MaxAdmin
  /\ issued \in [WorkerIds -> TokenNumbers]
  /\ \A id \in WorkerIds : issued[id] <= requested + 1

(* Who is talked about has registered.                                     *)
Known ==
  /\ \A id \in WorkerIds :
       issued[id] = 0 => workerFile[id] = Gone /\ granted[id] = Gone
  /\ \A p \in RequestThreads :
       calls[p] # NoCall => issued[calls[p].token.id] # 0
  /\ \A t \in tokenCache : issued[t.id] # 0
  /\ issued[client.id] # 0

Basics == FilesTyped /\ CallsTyped /\ CountsTyped /\ Known

(* An id that nobody administers: file, row, cache and copies agree with   *)
(* what was granted last.                                                  *)
Agreed(id) ==
  /\ workerFile[id] \in Registration => workerFile[id] = granted[id]
  /\ granted[id] # Gone =>
       granted[id].token = issued[id] /\ tokenRows[id] = issued[id]
  /\ granted[id] = Gone =>
       /\ workerFile[id] = Gone
       /\ \A p \in Busy(id) : calls[p].step = "verify"
  /\ \A t \in tokenCache : t.id = id => t.n = issued[id]
  /\ \A p \in Busy(id) :
       /\ calls[p].step = "remember" => calls[p].token.n = issued[id]
       /\ calls[p].step \in {"truncate", "write"} =>
            calls[p].copy = granted[id]

(* An id that is administered: what the file will say, and what is right   *)
(* of row and cache until they are changed as well.                        *)
Underway(id, c) ==
  /\ c.step = "write" => workerFile[id] = Torn /\ c.linked
  /\ c.op \in {"enable", "disable"} =>
       /\ granted[id] # Gone /\ tokenRows[id] = issued[id]
       /\ c.copy.token = issued[id]
       /\ \A t \in tokenCache : t.id = id => t.n = issued[id]
  /\ c.op = "rotate" =>
       /\ c.copy.token = issued[id]
       /\ c.step = "index" => workerFile[id] = c.copy
  /\ c.op = "delete" => workerFile[id] = Gone

Alone(id) ==
  \A p, q \in Busy(id) : calls[p].op \in AdminOps => p = q
Honest(id) ==
  /\ Alone(id)
  /\ \A p \in Busy(id) : calls[p].op \in AdminOps => Underway(id, calls[p])
  /\ ~Administered(id) => Agreed(id)

WordInv ==
  /\ Basics /\ raced \subseteq WorkerIds
  /\ \A id \in WorkerIds \ raced : Honest(id)

-----------------------------------------------------------------------------
(* What tells the values apart.                                            *)
LEMMA Apart ==
  /\ NoCall \notin Call
  /\ Gone \notin Registration /\ Torn \notin Registration /\ Gone # Torn
  /\ Fresh \in Registration
  BY MaxAdminAssumption
  DEF NoCall, Call, Gone, Torn, Registration, Fresh, TokenNumbers

(* Two threads at work on an id are a race if one of them administers it.  *)
LEMMA TwoAreMany ==
  ASSUME NEW S \in SUBSET RequestThreads, NEW p \in S, NEW q \in S, p # q
  PROVE  Cardinality(S) > 1
<1>1. IsFiniteSet(S) BY ThreadsAssumption, FS_Subset
<1>2. IsFiniteSet(S \ {p}) /\ Cardinality(S \ {p}) = Cardinality(S) - 1
  BY <1>1, FS_RemoveElement
<1>3. Cardinality(S \ {p}) # 0 BY <1>2, FS_EmptySet
<1>4. Cardinality(S \ {p}) \in Nat /\ Cardinality(S) \in Nat
  BY <1>1, <1>2, FS_CardinalityType
<1> QED BY <1>2, <1>3, <1>4

(* A worker that is not raced for has one call at most.                    *)
LEMMA UnracedAlone ==
  ASSUME NEW id \in WorkerIds, ~Racing(id)
  PROVE  Alone(id)
<1> SUFFICES ASSUME NEW p \in Busy(id), NEW q \in Busy(id),
                    calls[p].op \in AdminOps, p # q
             PROVE  FALSE
  BY DEF Alone
<1>1. Cardinality(Busy(id)) > 1
  <2>1. Busy(id) \in SUBSET RequestThreads BY DEF Busy
  <2> QED BY <2>1, TwoAreMany
<1> QED BY <1>1 DEF Racing, Administered

(* The beginning.                                                          *)
LEMMA WordInvInit == ASSUME RegistryInit PROVE WordInv
<1>1. 0 \in TokenNumbers /\ 1 \in TokenNumbers /\ 1 \in WorkerIds
  BY MaxAdminAssumption, WorkerIdsAssumption DEF TokenNumbers
<1>2. FilesTyped
  BY <1>1, Apart DEF RegistryInit, FilesTyped, Unreadable
<1>3. CallsTyped BY DEF RegistryInit, CallsTyped
<1>4. CountsTyped
  <2>1. 0 \in 0..MaxAdmin /\ 0 <= 1 /\ 1 <= 0 + 1 BY MaxAdminAssumption
  <2> QED BY <1>1, <2>1 DEF RegistryInit, CountsTyped, Token
<1>5. Known BY <1>1 DEF RegistryInit, Known
<1>6. ASSUME NEW id \in WorkerIds PROVE Honest(id)
  <2>1. Busy(id) = {} BY DEF RegistryInit, Busy
  <2>2. Agreed(id) BY <2>1, Apart DEF RegistryInit, Agreed, Fresh
  <2> QED BY <2>1, <2>2 DEF Honest, Alone
<1>7. raced = {} BY DEF RegistryInit
<1> QED BY <1>2, <1>3, <1>4, <1>5, <1>6, <1>7 DEF WordInv, Basics

-----------------------------------------------------------------------------
(* An id of which nothing changes but that cached tokens expire.           *)
Untouched(id) ==
  /\ workerFile'[id] = workerFile[id] /\ tokenRows'[id] = tokenRows[id]
  /\ granted'[id] = granted[id] /\ issued'[id] = issued[id]
  /\ \A t \in tokenCache' : t.id = id => t \in tokenCache
  /\ Busy(id)' = Busy(id)
  /\ \A p \in Busy(id) : calls'[p] = calls[p]

(* A call that leaves a worker's entry untouched leaves it honest.         *)
LEMMA UntouchedHonest ==
  ASSUME NEW id \in WorkerIds, Honest(id), Untouched(id)
  PROVE  Honest(id)'
<1>1. Alone(id)' BY DEF Honest, Alone, Untouched
<1>2. \A p \in Busy(id)' :
        calls'[p].op \in AdminOps => Underway(id, calls[p])'
  BY DEF Honest, Underway, Untouched
<1>3. Administered(id)' <=> Administered(id) BY DEF Untouched, Administered
<1>4. ~Administered(id)' => Agreed(id)'
  BY <1>3 DEF Honest, Agreed, Untouched
<1> QED BY <1>1, <1>2, <1>4 DEF Honest

(* The threads at work on an id when one of them is given, or answers, a   *)
(* call.                                                                   *)
LEMMA OneCallChanges ==
  ASSUME CallsTyped, NEW p \in RequestThreads, NEW c \in Call \cup {NoCall},
         calls' = [calls EXCEPT ![p] = c], NEW id
  PROVE  /\ calls'[p] = c
         /\ \A q \in RequestThreads : q # p => calls'[q] = calls[q]
         /\ Busy(id)' \ {p} = Busy(id) \ {p}
         /\ p \in Busy(id)' <=> c # NoCall /\ c.token.id = id
         /\ calls' \in [RequestThreads -> Call \cup {NoCall}]
<1>1. /\ calls'[p] = c
      /\ \A q \in RequestThreads : q # p => calls'[q] = calls[q]
      /\ calls' \in [RequestThreads -> Call \cup {NoCall}]
  BY DEF CallsTyped
<1> QED BY <1>1 DEF Busy

(* A call of one worker leaves the others' entries untouched.              *)
LEMMA OthersUntouched ==
  ASSUME CallsTyped, NEW p \in RequestThreads, NEW c \in Call \cup {NoCall},
         calls' = [calls EXCEPT ![p] = c], NEW id,
         calls[p] # NoCall => calls[p].token.id # id,
         c # NoCall => c.token.id # id,
         workerFile'[id] = workerFile[id], tokenRows'[id] = tokenRows[id],
         granted'[id] = granted[id], issued'[id] = issued[id],
         \A t \in tokenCache' : t.id = id => t \in tokenCache
  PROVE  Untouched(id)
<1>1. /\ \A q \in RequestThreads : q # p => calls'[q] = calls[q]
      /\ Busy(id)' \ {p} = Busy(id) \ {p}
      /\ p \notin Busy(id)' /\ p \notin Busy(id)
  BY OneCallChanges DEF Busy
<1>2. Busy(id)' = Busy(id) BY <1>1
<1>3. \A q \in Busy(id) : calls'[q] = calls[q] BY <1>1 DEF Busy
<1> QED BY <1>2, <1>3 DEF Untouched

(* A thread that answers a worker, or goes on with its call: who does that *)
(* is not beside an administrator's.                                       *)
LEMMA WorkerAlone ==
  ASSUME CallsTyped, NEW id \in WorkerIds, Alone(id), NEW p \in Busy(id),
         calls[p].op \notin AdminOps
  PROVE  ~Administered(id)
  BY DEF Alone, Administered

(* What the types say of a call.                                           *)
LEMMA TypedCall ==
  ASSUME Basics, NEW p \in RequestThreads, calls[p] # NoCall
  PROVE  /\ CallTyped(calls[p]) /\ calls[p] \in Call
         /\ calls[p].token \in Token
         /\ calls[p].token.id \in WorkerIds
         /\ calls[p].token.n \in TokenNumbers
         /\ calls[p].copy \in Registration
         /\ p \in Busy(calls[p].token.id)
         /\ issued[calls[p].token.id] # 0
<1>1. CallTyped(calls[p]) BY DEF Basics, CallsTyped
<1>2. calls[p] \in Call BY <1>1 DEF CallTyped
<1> QED BY <1>1, <1>2 DEF Basics, Known, Busy, Call, Token

(* Steps that change one call and leave the counts.                        *)
LEMMA CallBasics ==
  ASSUME Basics, NEW p \in RequestThreads, NEW c \in Call \cup {NoCall},
         calls' = [calls EXCEPT ![p] = c],
         c # NoCall => CallTyped(c) /\ issued'[c.token.id] # 0,
         \A id \in WorkerIds : issued[id] # 0 => issued'[id] # 0
  PROVE  /\ CallsTyped'
         /\ \A q \in RequestThreads :
              calls'[q] # NoCall => issued'[calls'[q].token.id] # 0
<1>1. /\ calls'[p] = c
      /\ \A q \in RequestThreads : q # p => calls'[q] = calls[q]
      /\ calls' \in [RequestThreads -> Call \cup {NoCall}]
  BY OneCallChanges DEF Basics
<1>2. CallsTyped'
  BY <1>1 DEF Basics, CallsTyped
<1>3. \A q \in RequestThreads :
        calls'[q] # NoCall => issued'[calls'[q].token.id] # 0
  BY <1>1, TypedCall
<1> QED BY <1>2, <1>3

-----------------------------------------------------------------------------
(* The worker's requests.                                                  *)
LEMMA SendWorkerCallKeeps ==
  ASSUME Basics, NEW p \in RequestThreads, NEW op \in WorkerOps,
         SendWorkerCall(p, op)
  PROVE  /\ Basics'
         /\ \A id \in WorkerIds : Honest(id) /\ Alone(id)' => Honest(id)'
<1> DEFINE c == [op |-> op, step |-> "verify", token |-> client,
                 copy |-> Fresh, adopt |-> FALSE, linked |-> TRUE]
<1>1. client \in Token /\ client.id \in WorkerIds /\ issued[client.id] # 0
  BY DEF Basics, CountsTyped, Known, Token
<1>2. /\ c \in Call /\ c # NoCall /\ CallTyped(c)
      /\ c.token = client /\ c.step = "verify" /\ c.op = op
  <2>1. c \in Call BY <1>1, Apart DEF Call, CallSteps
  <2> QED BY <2>1, Apart DEF CallTyped
<1>3. /\ calls[p] = NoCall /\ calls' = [calls EXCEPT ![p] = c]
      /\ UNCHANGED <<workerFile, tokenRows, tokenCache, client, clientState,
                     granted, issued, requested>>
  BY DEF SendWorkerCall, SetCall, registryFiles, workerProcess, grants
<1> HIDE DEF c
<1>4. Basics'
  <2>1. /\ CallsTyped'
        /\ \A q \in RequestThreads :
             calls'[q] # NoCall => issued'[calls'[q].token.id] # 0
    BY <1>1, <1>2, <1>3, CallBasics
  <2> QED BY <1>3, <2>1 DEF Basics, FilesTyped, CountsTyped, Known
<1>5. ASSUME NEW id \in WorkerIds, Honest(id), Alone(id)' PROVE Honest(id)'
  <2>1. CASE client.id # id
    BY <1>2, <1>3, <1>5, <2>1, OthersUntouched, UntouchedHonest DEF Basics
  <2>2. CASE client.id = id
    <3>1. /\ calls'[p] = c
          /\ \A q \in RequestThreads : q # p => calls'[q] = calls[q]
          /\ Busy(id)' \ {p} = Busy(id) \ {p}
          /\ p \in Busy(id)'
      BY <1>2, <1>3, <2>2, OneCallChanges DEF Basics
    <3>2. p \notin Busy(id) BY <1>3 DEF Busy
    <3>3. \A q \in Busy(id)' : q # p => q \in Busy(id) /\ calls'[q] = calls[q]
      BY <3>1 DEF Busy
    <3>4. \A q \in Busy(id)' : calls'[q].op \notin AdminOps
      BY <1>2, <1>5, <3>1 DEF Alone, WorkerOps, AdminOps
    <3>5. ~Administered(id)
      BY <3>1, <3>2, <3>4 DEF Administered, Busy
    <3>6. Agreed(id) BY <1>5, <3>5 DEF Honest
    <3>7. Agreed(id)'
      BY <1>2, <1>3, <3>1, <3>3, <3>6 DEF Agreed
    <3> QED BY <1>5, <3>4, <3>7 DEF Honest
  <2> QED BY <2>1, <2>2
<1> QED BY <1>4, <1>5

(* A call of a worker that goes on: what it does to the files of its id    *)
(* must leave them agreed.                                                 *)
LEMMA WorkerGoesOn ==
  ASSUME Basics, NEW p \in RequestThreads, calls[p] # NoCall,
         calls[p].op \notin AdminOps,
         NEW c \in Call \cup {NoCall}, calls' = [calls EXCEPT ![p] = c],
         c # NoCall =>
           c.token.id = calls[p].token.id /\ c.op \notin AdminOps,
         UNCHANGED <<granted, issued>>,
         \A j \in WorkerIds :
           j # calls[p].token.id =>
             /\ workerFile'[j] = workerFile[j] /\ tokenRows'[j] = tokenRows[j]
             /\ \A t \in tokenCache' : t.id = j => t \in tokenCache,
         NEW id \in WorkerIds, Honest(id), Alone(id)',
         id = calls[p].token.id /\ Agreed(id)
           => /\ workerFile'[id] \in Registration =>
                   workerFile'[id] = granted[id]
              /\ granted[id] # Gone => tokenRows'[id] = tokenRows[id]
              /\ granted[id] = Gone =>
                   /\ workerFile'[id] = Gone
                   /\ c # NoCall => c.step = "verify"
              /\ \A t \in tokenCache' : t.id = id => t.n = issued[id]
              /\ c # NoCall =>
                   /\ c.step = "remember" => c.token.n = issued[id]
                   /\ c.step \in {"truncate", "write"} =>
                        c.copy = granted[id]
  PROVE  Honest(id)'
<1>1. CASE id # calls[p].token.id
  BY <1>1, OthersUntouched, UntouchedHonest DEF Basics
<1>2. CASE id = calls[p].token.id
  <2>1. p \in Busy(id) BY <1>2 DEF Busy
  <2>2. ~Administered(id) BY <2>1, WorkerAlone DEF Basics, Honest
  <2>3. Agreed(id) BY <2>2 DEF Honest
  <2>4. /\ calls'[p] = c
        /\ \A q \in RequestThreads : q # p => calls'[q] = calls[q]
        /\ Busy(id)' \ {p} = Busy(id) \ {p}
        /\ p \in Busy(id)' => c # NoCall
    BY OneCallChanges DEF Basics
  <2>5. \A q \in Busy(id)' : q # p => q \in Busy(id) /\ calls'[q] = calls[q]
    BY <2>4 DEF Busy
  <2>6. \A q \in Busy(id)' : calls'[q].op \notin AdminOps
    BY <2>2, <2>4, <2>5 DEF Administered
  <2>7. Agreed(id)'
    <3>1. \A q \in Busy(id)' :
            /\ calls'[q].step = "remember" => calls'[q].token.n = issued[id]
            /\ calls'[q].step \in {"truncate", "write"} =>
                 calls'[q].copy = granted[id]
            /\ granted[id] = Gone => calls'[q].step = "verify"
      <4> SUFFICES ASSUME NEW q \in Busy(id)'
                   PROVE  /\ calls'[q].step = "remember" =>
                               calls'[q].token.n = issued[id]
                          /\ calls'[q].step \in {"truncate", "write"} =>
                               calls'[q].copy = granted[id]
                          /\ granted[id] = Gone => calls'[q].step = "verify"
        OBVIOUS
      <4>1. CASE q # p
        <5>1. q \in Busy(id) /\ calls'[q] = calls[q] BY <2>5, <4>1
        <5> QED BY <2>3, <5>1 DEF Agreed
      <4>2. CASE q = p
        <5>1. c # NoCall /\ calls'[q] = c BY <2>4, <4>2
        <5> QED BY <1>2, <2>3, <5>1
      <4> QED BY <4>1, <4>2
    <3>2. /\ workerFile'[id] \in Registration =>
               workerFile'[id] = granted[id]
          /\ granted[id] # Gone =>
               granted[id].token = issued[id] /\ tokenRows'[id] = issued[id]
          /\ granted[id] = Gone => workerFile'[id] = Gone
          /\ \A t \in tokenCache' : t.id = id => t.n = issued[id]
      BY <1>2, <2>3 DEF Agreed
    <3> HIDE DEF Busy
    <3> QED BY <3>1, <3>2 DEF Agreed
  <2> QED BY <2>6, <2>7 DEF Honest
<1> QED BY <1>1, <1>2

LEMMA VerifyKeeps ==
  ASSUME Basics, NEW p \in RequestThreads, Verify(p)
  PROVE  /\ Basics'
         /\ \A id \in WorkerIds : Honest(id) /\ Alone(id)' => Honest(id)'
<1> DEFINE t == calls[p].token
           c == [calls[p] EXCEPT
                   !.step = IF InCache(t) THEN "load" ELSE "remember",
                   !.adopt = ~InCache(t) /\ ~InRows(t)]
<1>1. calls[p] # NoCall /\ calls[p].step = "verify" BY DEF Verify, CallAt
<1>2. /\ calls[p] \in Call /\ CallTyped(calls[p]) /\ t.id \in WorkerIds
      /\ issued[t.id] # 0 /\ calls[p].op \in WorkerOps
  BY <1>1, TypedCall DEF CallTyped
<1>3. /\ c \in Call /\ c # NoCall /\ c.op = calls[p].op /\ c.token = t
      /\ c.step \in {"load", "remember"}
      /\ CallTyped(c)
  <2>1. (~InCache(t) /\ ~InRows(t)) \in BOOLEAN OBVIOUS
  <2> HIDE DEF t
  <2>2. /\ c \in Call /\ c.op = calls[p].op /\ c.token = calls[p].token
        /\ c.step \in {"load", "remember"}
    BY <1>2, <2>1 DEF Call, CallSteps
  <2> HIDE DEF c
  <2> QED BY <1>2, <2>2, Apart DEF CallTyped, t
<1>4. Accepted(t) /\ calls' = [calls EXCEPT ![p] = c]
  BY DEF Verify, CallsTyped, Basics
<1>5. UNCHANGED <<workerFile, tokenRows, tokenCache, client, clientState,
                  granted, issued, requested>>
  BY DEF Verify, registryFiles, workerProcess, grants
<1> HIDE DEF c
<1>6. Basics'
  <2>1. /\ CallsTyped'
        /\ \A q \in RequestThreads :
             calls'[q] # NoCall => issued'[calls'[q].token.id] # 0
    BY <1>2, <1>3, <1>4, <1>5, CallBasics
  <2> QED BY <1>5, <2>1 DEF Basics, FilesTyped, CountsTyped, Known
<1>7. ASSUME Agreed(t.id)
      PROVE  granted[t.id] # Gone /\ t.n = issued[t.id]
  <2>1. Usable(t.id) BY <1>4 DEF Accepted, InCache, InRows, InFile
  <2>2. workerFile[t.id] \in Registration
    BY <1>2, <2>1 DEF Usable, Basics, FilesTyped
  <2>3. granted[t.id] = workerFile[t.id] /\ granted[t.id] # Gone
    BY <1>7, <2>2, Apart DEF Agreed
  <2> QED BY <1>4, <1>7, <2>3 DEF Agreed, Accepted, InCache, InRows, InFile
<1>8. calls[p].op \notin AdminOps /\ c.op \notin AdminOps
  BY <1>2, <1>3 DEF WorkerOps, AdminOps
<1>9. ASSUME NEW id \in WorkerIds, Honest(id), Alone(id)' PROVE Honest(id)'
  <2>1. id = t.id /\ Agreed(id)
          => /\ granted[id] # Gone /\ t.n = issued[id]
             /\ workerFile[id] \in Registration =>
                  workerFile[id] = granted[id]
             /\ \A u \in tokenCache : u.id = id => u.n = issued[id]
    BY <1>7 DEF Agreed
  <2> QED BY <1>1, <1>3, <1>4, <1>5, <1>8, <1>9, <2>1, WorkerGoesOn
<1> QED BY <1>6, <1>9

LEMMA RefuseKeeps ==
  ASSUME Basics, NEW p \in RequestThreads, Refuse(p)
  PROVE  /\ Basics'
         /\ \A id \in WorkerIds : Honest(id) /\ Alone(id)' => Honest(id)'
<1>1. calls[p] # NoCall /\ calls[p].step = "verify" BY DEF Refuse, CallAt
<1>2. calls[p].op \in WorkerOps BY <1>1, TypedCall DEF CallTyped
<1>3. /\ calls' = [calls EXCEPT ![p] = NoCall]
      /\ tokenCache' = tokenCache \ {calls[p].token}
      /\ UNCHANGED <<workerFile, tokenRows, client, granted, issued, requested>>
  BY DEF Refuse, Answer, SetCall, grants
<1>4. Basics'
  <2>1. /\ CallsTyped'
        /\ \A q \in RequestThreads :
             calls'[q] # NoCall => issued'[calls'[q].token.id] # 0
    BY <1>3, CallBasics
  <2>2. clientState' \in {"polling", "registering"}
    BY DEF Refuse, Basics, CountsTyped
  <2> QED BY <1>3, <2>1, <2>2 DEF Basics, FilesTyped, CountsTyped, Known
<1>5. calls[p].op \notin AdminOps BY <1>2 DEF WorkerOps, AdminOps
<1>6. ASSUME NEW id \in WorkerIds, Honest(id), Alone(id)' PROVE Honest(id)'
  <2>1. id = calls[p].token.id /\ Agreed(id)
          => /\ workerFile[id] \in Registration =>
                  workerFile[id] = granted[id]
             /\ granted[id] = Gone => workerFile[id] = Gone
             /\ \A u \in tokenCache : u.id = id => u.n = issued[id]
    BY DEF Agreed
  <2> QED BY <1>1, <1>3, <1>5, <1>6, <2>1, WorkerGoesOn
<1> QED BY <1>4, <1>6

LEMMA RememberKeeps ==
  ASSUME Basics, NEW p \in RequestThreads, Remember(p)
  PROVE  /\ Basics'
         /\ \A id \in WorkerIds : Honest(id) /\ Alone(id)' => Honest(id)'
<1> DEFINE t == calls[p].token
           c == [calls[p] EXCEPT !.step = "load", !.adopt = FALSE]
<1>1. calls[p] # NoCall /\ calls[p].step = "remember"
  BY DEF Remember, CallAt
<1>2. /\ calls[p] \in Call /\ CallTyped(calls[p]) /\ t \in Token
      /\ t.id \in WorkerIds /\ t.n \in TokenNumbers
      /\ issued[t.id] # 0 /\ calls[p].op \in WorkerOps /\ p \in Busy(t.id)
  BY <1>1, TypedCall DEF CallTyped
<1>3. /\ c \in Call /\ c # NoCall /\ c.op = calls[p].op /\ c.token = t
      /\ c.step = "load" /\ CallTyped(c)
  <2> HIDE DEF t
  <2>1. /\ c \in Call /\ c.op = calls[p].op /\ c.token = calls[p].token
        /\ c.step = "load"
    BY <1>2 DEF Call, CallSteps
  <2> HIDE DEF c
  <2> QED BY <1>2, <2>1, Apart DEF CallTyped, t
<1>4. /\ calls' = [calls EXCEPT ![p] = c]
      /\ tokenCache' = tokenCache \cup {t}
      /\ UNCHANGED <<workerFile, client, clientState, granted, issued,
                     requested>>
  BY DEF Remember, workerProcess, grants, Basics, CallsTyped
<1>5. \/ tokenRows' = tokenRows
      \/ tokenRows' = [tokenRows EXCEPT ![t.id] = t.n]
  BY DEF Remember
<1>6. /\ tokenRows' \in [WorkerIds -> TokenNumbers]
      /\ \A j \in WorkerIds : j # t.id => tokenRows'[j] = tokenRows[j]
      /\ tokenRows'[t.id] = tokenRows[t.id] \/ tokenRows'[t.id] = t.n
  BY <1>2, <1>5 DEF Basics, FilesTyped
<1> HIDE DEF c
<1>7. Basics'
  <2>1. /\ CallsTyped'
        /\ \A q \in RequestThreads :
             calls'[q] # NoCall => issued'[calls'[q].token.id] # 0
    BY <1>2, <1>3, <1>4, CallBasics
  <2> QED BY <1>2, <1>4, <1>6, <2>1
    DEF Basics, FilesTyped, CountsTyped, Known
<1>8. calls[p].op \notin AdminOps /\ c.op \notin AdminOps
  BY <1>2, <1>3 DEF WorkerOps, AdminOps
<1>9. ASSUME NEW id \in WorkerIds, Honest(id), Alone(id)' PROVE Honest(id)'
  <2>1. id = t.id /\ Agreed(id)
          => /\ workerFile[id] \in Registration =>
                  workerFile[id] = granted[id]
             /\ granted[id] # Gone
             /\ t.n = issued[id] /\ tokenRows'[id] = tokenRows[id]
             /\ \A u \in tokenCache' : u.id = id => u.n = issued[id]
    <3> SUFFICES ASSUME id = t.id, Agreed(id)
                 PROVE  /\ workerFile[id] \in Registration =>
                             workerFile[id] = granted[id]
                        /\ granted[id] # Gone
                        /\ t.n = issued[id] /\ tokenRows'[id] = tokenRows[id]
                        /\ \A u \in tokenCache' : u.id = id => u.n = issued[id]
      OBVIOUS
    <3>1. t.n = issued[id] /\ granted[id] # Gone
      BY <1>1, <1>2 DEF Agreed
    <3> QED BY <1>4, <1>6, <3>1 DEF Agreed
  <2>2. \A u \in tokenCache' : u.id # t.id => u \in tokenCache BY <1>4
  <2> QED
    BY <1>1, <1>3, <1>4, <1>6, <1>8, <1>9, <2>1, <2>2, WorkerGoesOn
<1> QED BY <1>7, <1>9

(* A handler that will write back its copy.                                *)
LEMMA SaveFacts ==
  ASSUME NEW op \in EditOps \cup {"delete"}, NEW id \in WorkerIds,
         NEW copy \in Registration
  PROVE  /\ Save(op, id, copy) \in Call /\ Save(op, id, copy) # NoCall
         /\ Save(op, id, copy).op = op /\ Save(op, id, copy).copy = copy
         /\ Save(op, id, copy).token.id = id
         /\ Save(op, id, copy).step = "truncate"
         /\ Save(op, id, copy).linked
         /\ op \in EditOps => CallTyped(Save(op, id, copy))
<1>1. 0 \in TokenNumbers BY MaxAdminAssumption DEF TokenNumbers
<1>2. [id |-> id, n |-> 0] \in Token BY <1>1 DEF Token
<1>3. Save(op, id, copy) \in Call
  BY <1>2 DEF Save, Call, CallSteps, EditOps, AdminOps
<1> QED BY <1>3, Apart DEF Save, CallTyped

LEMMA LoadForBeatKeeps ==
  ASSUME Basics, NEW p \in RequestThreads, LoadForBeat(p)
  PROVE  /\ Basics'
         /\ \A id \in WorkerIds : Honest(id) /\ Alone(id)' => Honest(id)'
<1> DEFINE j == calls[p].token.id
<1>1. calls[p] # NoCall /\ calls[p].step = "load"
  BY DEF LoadForBeat, CallAt
<1>2. /\ j \in WorkerIds /\ issued[j] # 0 /\ calls[p].op \in WorkerOps
      /\ p \in Busy(j)
  BY <1>1, TypedCall DEF CallTyped
<1>3. UNCHANGED <<workerFile, tokenRows, tokenCache, client, clientState,
                  granted, issued, requested>>
  BY DEF LoadForBeat, registryFiles, workerProcess, grants
<1>4. PICK c \in Call \cup {NoCall} :
        /\ calls' = [calls EXCEPT ![p] = c]
        /\ c # NoCall =>
             /\ CallTyped(c) /\ c.op = "touch" /\ c.token.id = j
             /\ c.step = "truncate" /\ c.copy = workerFile[j]
             /\ workerFile[j] \in Registration
  <2>1. CASE Answer(p) BY <2>1 DEF Answer, SetCall
  <2>2. CASE /\ workerFile[j] \notin Unreadable
             /\ SetCall(p, Save("touch", j, workerFile[j]))
    <3>1. workerFile[j] \in Registration
      BY <1>2, <2>2 DEF Basics, FilesTyped
    <3>2. "touch" \in EditOps BY DEF EditOps
    <3> DEFINE d == Save("touch", j, workerFile[j])
    <3>3. /\ CallTyped(d) /\ d.op = "touch" /\ d.token.id = j
          /\ d.step = "truncate" /\ d.copy = workerFile[j]
      BY <1>2, <3>1, <3>2, SaveFacts
    <3>4. d \in Call \cup {NoCall} BY <3>3 DEF CallTyped
    <3>5. calls' = [calls EXCEPT ![p] = d] BY <2>2 DEF SetCall
    <3> HIDE DEF d
    <3> QED BY <3>1, <3>3, <3>4, <3>5
  <2> QED BY <2>1, <2>2 DEF LoadForBeat
<1>5. Basics'
  <2>1. /\ CallsTyped'
        /\ \A q \in RequestThreads :
             calls'[q] # NoCall => issued'[calls'[q].token.id] # 0
    BY <1>2, <1>3, <1>4, CallBasics
  <2> QED BY <1>3, <2>1 DEF Basics, FilesTyped, CountsTyped, Known
<1>6. /\ calls[p].op \notin AdminOps
      /\ c # NoCall => c.op \notin AdminOps
  BY <1>2, <1>4 DEF WorkerOps, AdminOps
<1>7. ASSUME NEW id \in WorkerIds, Honest(id), Alone(id)' PROVE Honest(id)'
  <2>1. id = j /\ Agreed(id)
          => /\ workerFile[id] \in Registration =>
                  workerFile[id] = granted[id]
             /\ granted[id] # Gone
             /\ \A u \in tokenCache : u.id = id => u.n = issued[id]
    BY <1>1, <1>2 DEF Agreed
  <2> QED BY <1>1, <1>3, <1>4, <1>6, <1>7, <2>1, WorkerGoesOn
<1> QED BY <1>5, <1>7

-----------------------------------------------------------------------------
(* A save.  The only one at work on an id it administers: whatever it does *)
(* to that id, it does alone.                                              *)
LEMMA OnlyOne ==
  ASSUME NEW id \in WorkerIds, Alone(id), NEW p \in Busy(id),
         calls[p].op \in AdminOps
  PROVE  Busy(id) = {p}
  BY DEF Alone

(* A step of such a save, which goes on with c or answers.                 *)
LEMMA AdminGoesOn ==
  ASSUME Basics, NEW p \in RequestThreads, calls[p] # NoCall,
         calls[p].op \in AdminOps,
         NEW c \in Call \cup {NoCall}, calls' = [calls EXCEPT ![p] = c],
         c # NoCall => c.token.id = calls[p].token.id /\ c.op \in AdminOps,
         issued' = issued,
         \A j \in WorkerIds :
           j # calls[p].token.id =>
             /\ workerFile'[j] = workerFile[j] /\ tokenRows'[j] = tokenRows[j]
             /\ granted'[j] = granted[j]
             /\ \A t \in tokenCache' : t.id = j => t \in tokenCache,
         NEW id \in WorkerIds, Honest(id),
         id = calls[p].token.id /\ Underway(id, calls[p])
           => /\ c # NoCall => Underway(id, calls[p])'
              /\ c = NoCall =>
                   /\ workerFile'[id] \in Registration =>
                        workerFile'[id] = granted'[id]
                   /\ granted'[id] # Gone =>
                        /\ granted'[id].token = issued[id]
                        /\ tokenRows'[id] = issued[id]
                   /\ granted'[id] = Gone => workerFile'[id] = Gone
                   /\ \A t \in tokenCache' : t.id = id => t.n = issued[id]
  PROVE  Honest(id)'
<1>1. CASE id # calls[p].token.id
  BY <1>1, OthersUntouched, UntouchedHonest DEF Basics
<1>2. CASE id = calls[p].token.id
  <2>1. p \in Busy(id) BY <1>2 DEF Busy
  <2>2. Busy(id) = {p} BY <2>1, OnlyOne DEF Honest
  <2>3. Underway(id, calls[p]) BY <2>1 DEF Honest
  <2>4. /\ calls'[p] = c
        /\ Busy(id)' \ {p} = Busy(id) \ {p}
        /\ p \in Busy(id)' <=> c # NoCall /\ c.token.id = id
    <3>1. /\ calls'[p] = c
          /\ \A q \in RequestThreads : q # p => calls'[q] = calls[q]
      BY OneCallChanges DEF Basics
    <3> QED BY <3>1 DEF Busy
  <2>5. CASE c # NoCall
    <3>1. Busy(id)' = {p} BY <1>2, <2>2, <2>4, <2>5
    <3>2. Administered(id)' BY <2>4, <2>5, <3>1 DEF Administered
    <3> QED BY <1>2, <2>3, <2>5, <3>1, <3>2 DEF Honest, Alone
  <2>6. CASE c = NoCall
    <3>1. Busy(id)' = {} BY <2>2, <2>4, <2>6
    <3>2. Agreed(id)' BY <1>2, <2>3, <2>6, <3>1 DEF Agreed
    <3> QED BY <3>1, <3>2 DEF Honest, Alone
  <2> QED BY <2>5, <2>6
<1> QED BY <1>1, <1>2

LEMMA TruncateFileKeeps ==
  ASSUME Basics, NEW p \in RequestThreads, TruncateFile(p)
  PROVE  /\ Basics'
         /\ \A id \in WorkerIds : Honest(id) /\ Alone(id)' => Honest(id)'
<1> DEFINE j == calls[p].token.id
           c == [calls[p] EXCEPT !.step = "write", !.linked = TRUE]
<1>1. calls[p] # NoCall /\ calls[p].step = "truncate"
  BY DEF TruncateFile, CallAt
<1>2. /\ calls[p] \in Call /\ CallTyped(calls[p]) /\ j \in WorkerIds
      /\ issued[j] # 0 /\ calls[p].op \in EditOps
  BY <1>1, TypedCall DEF CallTyped
<1>3. /\ c \in Call /\ c # NoCall /\ c.op = calls[p].op
      /\ c.token = calls[p].token /\ c.copy = calls[p].copy
      /\ c.step = "write" /\ c.linked /\ CallTyped(c)
  <2>1. /\ c \in Call /\ c.op = calls[p].op /\ c.token = calls[p].token
        /\ c.copy = calls[p].copy /\ c.step = "write" /\ c.linked
    BY <1>2 DEF Call, CallSteps
  <2> HIDE DEF c
  <2> QED BY <1>2, <2>1, Apart DEF CallTyped
<1>4. /\ calls' = [calls EXCEPT ![p] = c]
      /\ workerFile' = [workerFile EXCEPT ![j] = Torn]
      /\ UNCHANGED <<tokenRows, tokenCache, client, clientState, granted,
                     issued, requested>>
  BY DEF TruncateFile, workerProcess, grants, Basics, CallsTyped
<1>5. /\ workerFile' \in [WorkerIds -> Registration \cup Unreadable]
      /\ workerFile'[j] = Torn
      /\ \A i \in WorkerIds : i # j => workerFile'[i] = workerFile[i]
  BY <1>2, <1>4 DEF Basics, FilesTyped, Unreadable
<1>6. calls'[p] = c BY <1>4 DEF Basics, CallsTyped
<1> HIDE DEF c
<1>7. Basics'
  <2>1. /\ CallsTyped'
        /\ \A q \in RequestThreads :
             calls'[q] # NoCall => issued'[calls'[q].token.id] # 0
    BY <1>2, <1>3, <1>4, CallBasics
  <2> QED BY <1>2, <1>4, <1>5, <2>1
    DEF Basics, FilesTyped, CountsTyped, Known
<1>8. ASSUME NEW id \in WorkerIds, Honest(id), Alone(id)' PROVE Honest(id)'
  <2>1. CASE calls[p].op \notin AdminOps
    <3>1. id = j /\ Agreed(id)
            => /\ workerFile'[id] \notin Registration /\ granted[id] # Gone
               /\ calls[p].copy = granted[id]
               /\ \A u \in tokenCache : u.id = id => u.n = issued[id]
      BY <1>1, <1>2, <1>5, Apart DEF Agreed, Busy
    <3>2. \A i \in WorkerIds :
            i # calls[p].token.id =>
              /\ workerFile'[i] = workerFile[i] /\ tokenRows'[i] = tokenRows[i]
              /\ \A u \in tokenCache' : u.id = i => u \in tokenCache
      BY <1>4, <1>5
    <3>3. /\ calls[p] # NoCall /\ calls' = [calls EXCEPT ![p] = c]
          /\ c \in Call \cup {NoCall} /\ UNCHANGED <<granted, issued>>
          /\ c.token.id = calls[p].token.id /\ c.op \notin AdminOps
      BY <1>1, <1>3, <1>4, <2>1
    <3>4. id = calls[p].token.id /\ Agreed(id)
            => /\ workerFile'[id] \in Registration =>
                    workerFile'[id] = granted[id]
               /\ granted[id] # Gone => tokenRows'[id] = tokenRows[id]
               /\ granted[id] = Gone =>
                    /\ workerFile'[id] = Gone
                    /\ c # NoCall => c.step = "verify"
               /\ \A u \in tokenCache' : u.id = id => u.n = issued[id]
               /\ c # NoCall =>
                    /\ c.step = "remember" => c.token.n = issued[id]
                    /\ c.step \in {"truncate", "write"} =>
                         c.copy = granted[id]
      BY <1>3, <1>4, <3>1
    <3> HIDE DEF j
    <3> QED BY <1>8, <2>1, <3>2, <3>3, <3>4, WorkerGoesOn
  <2>2. CASE calls[p].op \in AdminOps
    <3>1. id = j /\ Underway(id, calls[p]) => Underway(id, calls[p])'
      BY <1>1, <1>2, <1>3, <1>4, <1>5, <1>6 DEF Underway, EditOps
    <3> QED
      BY <1>1, <1>3, <1>4, <1>5, <1>8, <2>2, <3>1, AdminGoesOn
  <2> QED BY <2>1, <2>2
<1> QED BY <1>7, <1>8

(* What a write leaves is typed, and Torn or the copy unless the file was  *)
(* deleted under it.                                                       *)
LEMMA WriteFileKeeps ==
  ASSUME Basics, NEW p \in RequestThreads, WriteFile(p)
  PROVE  /\ Basics'
         /\ \A id \in WorkerIds : Honest(id) /\ Alone(id)' => Honest(id)'
<1> DEFINE j == calls[p].token.id
           d == [calls[p] EXCEPT !.step = "index"]
           c == IF calls[p].op = "rotate" THEN d ELSE NoCall
<1>1. calls[p] # NoCall /\ calls[p].step = "write"
  BY DEF WriteFile, CallAt
<1>2. /\ calls[p] \in Call /\ CallTyped(calls[p]) /\ j \in WorkerIds
      /\ issued[j] # 0 /\ calls[p].op \in EditOps
      /\ calls[p].copy \in Registration
  BY <1>1, TypedCall DEF CallTyped
<1>3. /\ c \in Call \cup {NoCall}
      /\ c # NoCall <=> calls[p].op = "rotate"
      /\ c # NoCall =>
           /\ c.op = "rotate" /\ c.token = calls[p].token
           /\ c.copy = calls[p].copy /\ c.step = "index" /\ CallTyped(c)
  <2>1. /\ d \in Call /\ d.op = calls[p].op /\ d.token = calls[p].token
        /\ d.copy = calls[p].copy /\ d.step = "index"
    BY <1>2 DEF Call, CallSteps
  <2> HIDE DEF d
  <2> QED BY <1>2, <2>1, Apart DEF CallTyped
<1>4. /\ calls' = [calls EXCEPT ![p] = c]
      /\ UNCHANGED <<tokenRows, tokenCache, client, clientState,
                     issued, requested>>
  BY DEF WriteFile, workerProcess, CallGoes, Answer, SetCall
<1>5. PICK content \in Dumped(p) :
        workerFile' = [workerFile EXCEPT ![j] = content]
  BY DEF WriteFile
<1>6. /\ content \in {workerFile[j], calls[p].copy, Torn}
      /\ calls[p].linked /\ workerFile[j] = Torn => content = calls[p].copy
  BY <1>5 DEF Dumped
<1>7. /\ workerFile' \in [WorkerIds -> Registration \cup Unreadable]
      /\ workerFile'[j] = content
      /\ \A i \in WorkerIds : i # j => workerFile'[i] = workerFile[i]
  BY <1>2, <1>5, <1>6 DEF Basics, FilesTyped, Unreadable
<1>8. /\ granted' = IF calls[p].op \in {"enable", "disable"}
                    THEN [granted EXCEPT ![j] = calls[p].copy] ELSE granted
  BY DEF WriteFile
<1>9. /\ granted' \in [WorkerIds -> Registration \cup {Gone}]
      /\ granted'[j] = IF calls[p].op \in {"enable", "disable"}
                       THEN calls[p].copy ELSE granted[j]
      /\ \A i \in WorkerIds : i # j => granted'[i] = granted[i]
  BY <1>2, <1>8 DEF Basics, FilesTyped
<1>10. calls'[p] = c BY <1>3, <1>4 DEF Basics, CallsTyped
<1> HIDE DEF c
<1>11. Basics'
  <2>1. /\ CallsTyped'
        /\ \A q \in RequestThreads :
             calls'[q] # NoCall => issued'[calls'[q].token.id] # 0
    BY <1>2, <1>3, <1>4, CallBasics
  <2> QED BY <1>2, <1>4, <1>7, <1>9, <2>1
    DEF Basics, FilesTyped, CountsTyped, Known
<1>12. \A i \in WorkerIds :
         i # j =>
           /\ workerFile'[i] = workerFile[i] /\ tokenRows'[i] = tokenRows[i]
           /\ granted'[i] = granted[i]
           /\ \A u \in tokenCache' : u.id = i => u \in tokenCache
  BY <1>4, <1>7, <1>9
<1>13. ASSUME NEW id \in WorkerIds, Honest(id), Alone(id)' PROVE Honest(id)'
  <2>1. CASE calls[p].op \notin AdminOps
    <3>1. c = NoCall /\ granted' = granted
      BY <1>3, <1>8, <2>1 DEF AdminOps
    <3>2. id = j /\ Agreed(id)
            => /\ workerFile'[id] \in Registration =>
                    workerFile'[id] = granted[id]
               /\ granted[id] # Gone
               /\ \A u \in tokenCache : u.id = id => u.n = issued[id]
      <4> SUFFICES ASSUME id = j, Agreed(id)
                   PROVE  /\ workerFile'[id] \in Registration =>
                               workerFile'[id] = granted[id]
                          /\ granted[id] # Gone
                          /\ \A u \in tokenCache :
                               u.id = id => u.n = issued[id]
        OBVIOUS
      <4>1. p \in Busy(id) BY <1>1 DEF Busy
      <4>2. granted[id] # Gone /\ calls[p].copy = granted[id]
        BY <1>1, <4>1 DEF Agreed
      <4> QED BY <1>6, <1>7, <4>2, Apart DEF Agreed
    <3> QED
      BY <1>1, <1>4, <1>12, <1>13, <2>1, <3>1, <3>2, WorkerGoesOn
  <2>2. CASE calls[p].op \in AdminOps
    <3>1. ASSUME id = j, Underway(id, calls[p]), c # NoCall
          PROVE  Underway(id, calls[p])'
      <4>1. workerFile'[id] = calls[p].copy
        BY <1>1, <1>6, <1>7, <3>1 DEF Underway
      <4> QED BY <1>3, <1>4, <1>10, <3>1, <4>1 DEF Underway
    <3>2. ASSUME id = j, Underway(id, calls[p]), c = NoCall
          PROVE  /\ workerFile'[id] = granted'[id] /\ granted'[id] # Gone
                 /\ granted'[id].token = issued[id]
                 /\ tokenRows'[id] = issued[id]
                 /\ \A t \in tokenCache' : t.id = id => t.n = issued[id]
      <4>1. workerFile'[id] = calls[p].copy
        BY <1>1, <1>6, <1>7, <3>2 DEF Underway
      <4>2. calls[p].op \in {"enable", "disable"}
        BY <1>2, <1>3, <2>2, <3>2 DEF EditOps, AdminOps
      <4> QED BY <1>2, <1>4, <1>9, <3>2, <4>1, <4>2, Apart DEF Underway
    <3>3. c # NoCall => c.token.id = j /\ c.op \in AdminOps
      BY <1>3 DEF AdminOps
    <3> QED
      BY <1>1, <1>3, <1>4, <1>12, <1>13, <2>2, <3>1, <3>2, <3>3, AdminGoesOn
  <2> QED BY <2>1, <2>2
<1> QED BY <1>11, <1>13

(* The row and the cache follow the file.                                  *)
LEMMA UpdateIndexKeeps ==
  ASSUME Basics, NEW p \in RequestThreads, UpdateIndex(p)
  PROVE  /\ Basics'
         /\ \A id \in WorkerIds : Honest(id) /\ Alone(id)' => Honest(id)'
<1> DEFINE j == calls[p].token.id
           row == IF calls[p].op = "rotate" THEN calls[p].copy.token ELSE 0
           told == IF calls[p].op = "rotate" THEN calls[p].copy ELSE Gone
<1>1. calls[p] # NoCall /\ calls[p].step = "index"
  BY DEF UpdateIndex, CallAt
<1>2. /\ j \in WorkerIds /\ issued[j] # 0
      /\ calls[p].op \in {"rotate", "delete"}
      /\ calls[p].copy \in Registration
  BY <1>1, TypedCall DEF CallTyped
<1>3. row \in TokenNumbers /\ told \in Registration \cup {Gone}
  BY <1>2, MaxAdminAssumption DEF Registration, TokenNumbers
<1>4. /\ calls' = [calls EXCEPT ![p] = NoCall]
      /\ tokenRows' = [tokenRows EXCEPT ![j] = row]
      /\ granted' = [granted EXCEPT ![j] = told]
      /\ tokenCache' = {t \in tokenCache : t.id # j}
      /\ UNCHANGED <<workerFile, client, clientState, issued, requested>>
  BY DEF UpdateIndex, SetRow, Answer, SetCall, workerProcess
<1>5. /\ tokenRows' \in [WorkerIds -> TokenNumbers]
      /\ granted' \in [WorkerIds -> Registration \cup {Gone}]
      /\ tokenRows'[j] = row /\ granted'[j] = told
      /\ \A i \in WorkerIds : i # j =>
           granted'[i] = granted[i] /\ tokenRows'[i] = tokenRows[i]
  BY <1>2, <1>3, <1>4 DEF Basics, FilesTyped
<1>6. Basics'
  <2>1. /\ CallsTyped'
        /\ \A q \in RequestThreads :
             calls'[q] # NoCall => issued'[calls'[q].token.id] # 0
    BY <1>4, CallBasics
  <2> QED BY <1>2, <1>4, <1>5, <2>1
    DEF Basics, FilesTyped, CountsTyped, Known
<1>7. calls[p].op \in AdminOps BY <1>2 DEF AdminOps
<1>8. ASSUME NEW id \in WorkerIds, Honest(id) PROVE Honest(id)'
  <2>1. ASSUME id = j, Underway(id, calls[p])
        PROVE  /\ workerFile[id] = granted'[id]
               /\ granted'[id] # Gone =>
                    /\ granted'[id].token = issued[id]
                    /\ tokenRows'[id] = issued[id]
               /\ \A t \in tokenCache' : t.id # id
    <3>1. CASE calls[p].op = "rotate"
      BY <1>1, <1>4, <1>5, <2>1, <3>1 DEF Underway
    <3>2. CASE calls[p].op = "delete"
      BY <1>4, <1>5, <2>1, <3>2 DEF Underway
    <3> QED BY <1>2, <3>1, <3>2
  <2> HIDE DEF row, told
  <2> QED BY <1>1, <1>4, <1>5, <1>7, <1>8, <2>1, AdminGoesOn
<1> QED BY <1>6, <1>8

-----------------------------------------------------------------------------
(* The administrator's requests.  What a copy of the file is after an      *)
(* edit.                                                                   *)
LEMMA EditedFacts ==
  ASSUME Basics, NEW id \in WorkerIds, workerFile[id] \notin Unreadable,
         NEW op \in EditOps, op = "rotate" => issued[id] + 1 \in TokenNumbers
  PROVE  /\ workerFile[id] \in Registration
         /\ Edited(op, id) \in Registration
         /\ op = "touch" => Edited(op, id) = workerFile[id]
         /\ op = "rotate" => Edited(op, id).token = issued[id] + 1
         /\ op # "rotate" => Edited(op, id).token = workerFile[id].token
<1>1. workerFile[id] \in Registration BY DEF Basics, FilesTyped
<1> DEFINE enabled == IF op \in {"enable", "disable"} THEN op = "enable"
                      ELSE workerFile[id].enabled
           token == IF op = "rotate" THEN issued[id] + 1
                    ELSE workerFile[id].token
<1>2. enabled \in BOOLEAN /\ token \in TokenNumbers
  BY <1>1 DEF Registration
<1>3. /\ op = "touch" => enabled = workerFile[id].enabled
      /\ op # "rotate" => token = workerFile[id].token
      /\ op = "rotate" => token = issued[id] + 1
  OBVIOUS
<1>4. Edited(op, id)
        = [workerFile[id] EXCEPT !.enabled = enabled, !.token = token]
  BY <1>1 DEF Edited, Registration
<1> HIDE DEF enabled, token
<1>5. /\ Edited(op, id) \in Registration
      /\ Edited(op, id).token = token
  BY <1>1, <1>2, <1>4 DEF Registration
<1>6. op = "touch" => Edited(op, id) = workerFile[id]
  BY <1>1, <1>3, <1>4 DEF Registration
<1> QED BY <1>1, <1>3, <1>5, <1>6

LEMMA SendEditKeeps ==
  ASSUME Basics, NEW p \in RequestThreads, NEW op \in EditOps,
         NEW j \in WorkerIds, SendEdit(p, op, j)
  PROVE  /\ Basics'
         /\ \A id \in WorkerIds : Honest(id) /\ Alone(id)' => Honest(id)'
<1> DEFINE copy == Edited(op, j)
           c == Save(op, j, copy)
<1>1. /\ calls[p] = NoCall /\ workerFile[j] \notin Unreadable
      /\ op # "touch" => requested < MaxAdmin
      /\ issued' = IF op = "rotate" THEN [issued EXCEPT ![j] = @ + 1]
                   ELSE issued
      /\ requested' = IF op = "touch" THEN requested ELSE requested + 1
      /\ calls' = [calls EXCEPT ![p] = c]
      /\ UNCHANGED <<workerFile, tokenRows, tokenCache, client, clientState,
                     granted>>
  BY DEF SendEdit, SetCall, registryFiles, workerProcess
<1>2. op = "rotate" => issued[j] + 1 \in TokenNumbers
  BY <1>1, MaxAdminAssumption DEF Basics, CountsTyped, TokenNumbers
<1>3. /\ workerFile[j] \in Registration /\ copy \in Registration
      /\ op = "touch" => copy = workerFile[j]
      /\ op = "rotate" => copy.token = issued[j] + 1
      /\ op # "rotate" => copy.token = workerFile[j].token
  BY <1>1, <1>2, EditedFacts
<1> HIDE DEF copy
<1>4. /\ c \in Call /\ c # NoCall /\ c.op = op /\ c.copy = copy
      /\ c.token.id = j /\ c.step = "truncate" /\ c.linked /\ CallTyped(c)
  BY <1>3, SaveFacts
<1> HIDE DEF c
<1>5. issued[j] # 0 BY <1>3, Apart DEF Basics, Known
<1>6. /\ issued' \in [WorkerIds -> TokenNumbers]
      /\ issued'[j] = IF op = "rotate" THEN issued[j] + 1 ELSE issued[j]
      /\ \A i \in WorkerIds : i # j => issued'[i] = issued[i]
  BY <1>1, <1>2 DEF Basics, CountsTyped
<1>7. /\ requested' \in 0..MaxAdmin
      /\ \A i \in WorkerIds : issued'[i] <= requested' + 1
  <2>1. requested \in Nat /\ \A i \in WorkerIds : issued[i] \in Nat
    BY MaxAdminAssumption DEF Basics, CountsTyped, TokenNumbers
  <2>2. \A i \in WorkerIds : issued[i] <= requested + 1
    BY DEF Basics, CountsTyped
  <2>3. requested' \in 0..MaxAdmin /\ requested <= requested'
    BY <1>1, <2>1, MaxAdminAssumption DEF Basics, CountsTyped
  <2>4. op = "rotate" => requested' = requested + 1 BY <1>1
  <2>5. ASSUME NEW i \in WorkerIds PROVE issued'[i] <= requested' + 1
    <3>1. issued[i] \in Nat /\ issued[i] <= requested + 1 BY <2>1, <2>2
    <3>2. \/ issued'[i] = issued[i]
          \/ op = "rotate" /\ issued'[i] = issued[i] + 1
      BY <1>6
    <3> QED BY <2>1, <2>3, <2>4, <3>1, <3>2
  <2> QED BY <2>3, <2>5
<1>8. \A i \in WorkerIds : issued[i] # 0 <=> issued'[i] # 0
  BY <1>5, <1>6 DEF Basics, CountsTyped, TokenNumbers
<1>9. Basics'
  <2>1. /\ CallsTyped'
        /\ \A q \in RequestThreads :
             calls'[q] # NoCall => issued'[calls'[q].token.id] # 0
    BY <1>1, <1>4, <1>5, <1>8, CallBasics
  <2>2. \A t \in tokenCache : t.id \in WorkerIds
    BY DEF Basics, FilesTyped, Token
  <2>3. client.id \in WorkerIds BY DEF Basics, CountsTyped, Token
  <2> QED BY <1>1, <1>6, <1>7, <1>8, <2>1, <2>2, <2>3
    DEF Basics, FilesTyped, CountsTyped, Known
<1>10. ASSUME NEW id \in WorkerIds, Honest(id), Alone(id)' PROVE Honest(id)'
  <2>1. CASE id # j
    <3>1. issued'[id] = issued[id] BY <1>6, <2>1
    <3> QED
      BY <1>1, <1>4, <1>10, <2>1, <3>1, OthersUntouched, UntouchedHonest
      DEF Basics
  <2>2. CASE id = j
    <3>1. /\ calls'[p] = c
          /\ \A q \in RequestThreads : q # p => calls'[q] = calls[q]
          /\ Busy(id)' \ {p} = Busy(id) \ {p}
      BY <1>1, <1>4, OneCallChanges DEF Basics
    <3>2. p \in Busy(id)' /\ p \notin Busy(id)
      BY <1>1, <1>4, <2>2, <3>1 DEF Busy
    <3>3. \A q \in Busy(id)' : q # p => q \in Busy(id) /\ calls'[q] = calls[q]
      BY <3>1 DEF Busy
    <3>4. \A q \in Busy(id) : calls'[q] = calls[q] /\ q \in Busy(id)' /\ q # p
      BY <3>1, <3>2 DEF Busy
    <3>5. ~Administered(id)
      BY <1>10, <3>2, <3>4 DEF Administered, Alone
    <3>6. Agreed(id) BY <1>10, <3>5 DEF Honest
    <3>7. /\ workerFile[id] = granted[id] /\ granted[id] # Gone
          /\ granted[id].token = issued[id] /\ tokenRows[id] = issued[id]
      BY <1>3, <2>2, <3>6, Apart DEF Agreed
    <3>8. CASE op = "touch"
      <4>1. copy = granted[id] /\ issued' = issued
        BY <1>1, <1>3, <2>2, <3>7, <3>8
      <4>2. op \notin AdminOps BY <3>8 DEF AdminOps
      <4>3. \A q \in Busy(id)' : calls'[q].op \notin AdminOps
        BY <1>4, <3>1, <3>3, <3>5, <4>2 DEF Administered
      <4>4. Agreed(id)'
        BY <1>1, <1>4, <3>1, <3>3, <3>6, <3>7, <4>1 DEF Agreed
      <4> QED BY <1>10, <4>3, <4>4 DEF Honest
    <3>9. CASE op # "touch"
      <4>1. op \in {"enable", "disable", "rotate"} /\ op \in AdminOps
        BY <3>9 DEF EditOps, AdminOps
      <4>2. Busy(id)' = {p}
        BY <1>4, <1>10, <3>1, <3>2, <4>1 DEF Alone
      <4>3. Administered(id)'
        BY <1>4, <3>1, <4>1, <4>2 DEF Administered
      <4>4. c.op \in {"enable", "disable"} =>
              /\ copy.token = issued[id] /\ issued'[id] = issued[id]
              /\ \A t \in tokenCache : t.id = id => t.n = issued[id]
        BY <1>3, <1>4, <1>6, <2>2, <3>6, <3>7 DEF Agreed
      <4>5. Underway(id, calls[p])'
        BY <1>1, <1>3, <1>4, <1>6, <2>2, <3>1, <3>7, <4>1, <4>4 DEF Underway
      <4> QED BY <1>10, <4>2, <4>3, <4>5 DEF Honest
    <3> QED BY <3>8, <3>9
  <2> QED BY <2>1, <2>2
<1> QED BY <1>9, <1>10

LEMMA SendDeleteKeeps ==
  ASSUME Basics, NEW p \in RequestThreads, NEW j \in WorkerIds,
         SendDelete(p, j)
  PROVE  /\ Basics'
         /\ \A id \in WorkerIds : Honest(id) /\ Alone(id)' => Honest(id)'
<1> DEFINE c == [Save("delete", j, Fresh) EXCEPT !.step = "index"]
           cut(q) == [calls[q] EXCEPT !.linked = FALSE]
           parted(q) == q \in Busy(j) /\ calls[q].step = "write"
<1>1. /\ calls[p] = NoCall /\ workerFile[j] # Gone /\ requested < MaxAdmin
      /\ requested' = requested + 1
      /\ workerFile' = [workerFile EXCEPT ![j] = Gone]
      /\ calls' = [q \in RequestThreads |->
           IF q = p THEN c ELSE IF parted(q) THEN cut(q) ELSE calls[q]]
      /\ UNCHANGED <<tokenRows, tokenCache, client, clientState, granted,
                     issued>>
  BY DEF SendDelete, workerProcess
<1>2. /\ c \in Call /\ c # NoCall /\ c.op = "delete" /\ c.token.id = j
      /\ c.step = "index" /\ CallTyped(c)
  <2>1. /\ Save("delete", j, Fresh) \in Call
        /\ Save("delete", j, Fresh).op = "delete"
        /\ Save("delete", j, Fresh).token.id = j
    BY Apart, SaveFacts
  <2>2. /\ c \in Call /\ c.op = "delete" /\ c.token.id = j /\ c.step = "index"
    BY <2>1 DEF Call, CallSteps
  <2> HIDE DEF c
  <2> QED BY <2>2, Apart DEF CallTyped
<1>3. ASSUME NEW q \in RequestThreads, parted(q)
      PROVE  /\ cut(q) \in Call /\ cut(q) # NoCall /\ CallTyped(cut(q))
             /\ cut(q).token = calls[q].token
  <2>1. calls[q] # NoCall BY <1>3 DEF Busy
  <2>2. calls[q] \in Call /\ CallTyped(calls[q]) BY <2>1, TypedCall
  <2>3. /\ cut(q) \in Call /\ cut(q).token = calls[q].token
        /\ cut(q).step = calls[q].step /\ cut(q).op = calls[q].op
    BY <2>2 DEF Call
  <2> HIDE DEF cut
  <2> QED BY <2>2, <2>3, Apart DEF CallTyped
<1>4. /\ calls'[p] = c
      /\ \A q \in RequestThreads : q # p =>
           calls'[q] = IF parted(q) THEN cut(q) ELSE calls[q]
  BY <1>1
<1> HIDE DEF c, cut
<1>5. issued[j] # 0 BY <1>1 DEF Basics, Known
<1>6. /\ workerFile' \in [WorkerIds -> Registration \cup Unreadable]
      /\ workerFile'[j] = Gone
      /\ \A i \in WorkerIds : i # j => workerFile'[i] = workerFile[i]
  BY <1>1 DEF Basics, FilesTyped, Unreadable
<1>7. Basics'
  <2>1. CallsTyped'
    <3>1. \A q \in RequestThreads : calls'[q] \in Call \cup {NoCall}
      BY <1>2, <1>3, <1>4 DEF Basics, CallsTyped
    <3>2. \A q \in RequestThreads : calls'[q] # NoCall => CallTyped(calls'[q])
      BY <1>2, <1>3, <1>4 DEF Basics, CallsTyped
    <3>3. calls' \in [RequestThreads -> Call \cup {NoCall}] BY <1>1, <3>1
    <3> QED BY <3>2, <3>3 DEF CallsTyped, CallTyped
  <2>2. ASSUME NEW q \in RequestThreads, calls'[q] # NoCall
        PROVE  issued[calls'[q].token.id] # 0
    <3>1. parted(q) => calls[q] # NoCall BY DEF Busy
    <3> QED BY <1>2, <1>3, <1>4, <1>5, <2>2, <3>1 DEF Basics, Known
  <2>3. /\ requested' \in 0..MaxAdmin
        /\ \A i \in WorkerIds : issued[i] <= requested' + 1
    <3>1. requested \in Nat /\ \A i \in WorkerIds : issued[i] \in Nat
      BY MaxAdminAssumption DEF Basics, CountsTyped, TokenNumbers
    <3> QED BY <1>1, <3>1, MaxAdminAssumption DEF Basics, CountsTyped
  <2> QED BY <1>1, <1>5, <1>6, <2>1, <2>2, <2>3
    DEF Basics, FilesTyped, CountsTyped, Known
<1>8. ASSUME NEW id \in WorkerIds, Honest(id), Alone(id)' PROVE Honest(id)'
  <2>1. ASSUME NEW q \in RequestThreads, q # p
        PROVE  /\ q \in Busy(id)' <=> q \in Busy(id)
               /\ id # j /\ q \in Busy(id) => calls'[q] = calls[q]
    <3>1. parted(q) => calls[q] # NoCall /\ calls[q].token.id = j
      BY DEF Busy
    <3> QED BY <1>3, <1>4, <2>1, <3>1 DEF Busy
  <2>2. p \notin Busy(id) /\ (p \in Busy(id)' <=> id = j)
    BY <1>1, <1>2, <1>4 DEF Busy
  <2>3. CASE id # j
    <3>1. Busy(id)' = Busy(id) BY <2>1, <2>2, <2>3 DEF Busy
    <3>2. \A q \in Busy(id) : calls'[q] = calls[q]
      BY <2>1, <2>2, <2>3 DEF Busy
    <3>3. Untouched(id) BY <1>1, <1>6, <2>3, <3>1, <3>2 DEF Untouched
    <3> QED BY <1>8, <3>3, UntouchedHonest
  <2>4. CASE id = j
    <3>1. calls'[p].op \in AdminOps BY <1>2, <1>4 DEF AdminOps
    <3>2. Busy(id)' = {p} BY <1>8, <2>2, <2>4, <3>1 DEF Alone
    <3>3. Underway(id, calls[p])' BY <1>2, <1>4, <1>6, <2>4 DEF Underway
    <3> QED BY <1>8, <3>1, <3>2, <3>3 DEF Honest, Administered
  <2> QED BY <2>3, <2>4
<1> QED BY <1>7, <1>8

-----------------------------------------------------------------------------
(* Steps of no handler: a registration takes an id nobody knows.           *)
LEMMA RegisterKeeps ==
  ASSUME Basics, Register
  PROVE  /\ Basics'
         /\ \A id \in WorkerIds : Honest(id) => Honest(id)'
<1>1. PICK j \in WorkerIds :
        /\ issued[j] = 0
        /\ issued' = [issued EXCEPT ![j] = 1]
        /\ workerFile' = [workerFile EXCEPT ![j] = Fresh]
        /\ tokenRows' = [tokenRows EXCEPT ![j] = 1]
        /\ granted' = [granted EXCEPT ![j] = Fresh]
        /\ client' = [id |-> j, n |-> 1] \/ client' = client
  BY DEF Register
<1>2. /\ clientState' = "polling"
      /\ UNCHANGED <<tokenCache, calls, requested>>
  BY DEF Register
<1>3. 1 \in TokenNumbers /\ requested \in 0..MaxAdmin /\ 1 <= requested + 1
  BY MaxAdminAssumption DEF TokenNumbers, Basics, CountsTyped
<1>4. /\ issued' \in [WorkerIds -> TokenNumbers]
      /\ tokenRows' \in [WorkerIds -> TokenNumbers]
      /\ workerFile' \in [WorkerIds -> Registration \cup Unreadable]
      /\ granted' \in [WorkerIds -> Registration \cup {Gone}]
      /\ issued'[j] = 1 /\ tokenRows'[j] = 1
      /\ workerFile'[j] = Fresh /\ granted'[j] = Fresh
      /\ \A i \in WorkerIds : i # j =>
           /\ issued'[i] = issued[i] /\ tokenRows'[i] = tokenRows[i]
           /\ workerFile'[i] = workerFile[i] /\ granted'[i] = granted[i]
  BY <1>1, <1>3, Apart DEF Basics, FilesTyped, CountsTyped
<1>5. Basics'
  <2>1. client' \in Token /\ issued'[client'.id] # 0
    BY <1>1, <1>3, <1>4 DEF Basics, Known, CountsTyped, Token
  <2>2. \A i \in WorkerIds : issued'[i] <= requested + 1
    BY <1>3, <1>4 DEF Basics, CountsTyped
  <2>3. \A i \in WorkerIds : issued[i] # 0 => issued'[i] # 0
    BY <1>1, <1>4
  <2>4. \A t \in tokenCache : t.id \in WorkerIds
    BY DEF Basics, FilesTyped, Token
  <2>5. \A p \in RequestThreads :
          calls[p] # NoCall => calls[p].token.id \in WorkerIds
    BY TypedCall
  <2>6. FilesTyped' BY <1>2, <1>4 DEF Basics, FilesTyped
  <2>7. CallsTyped' BY <1>2 DEF Basics, CallsTyped
  <2>8. CountsTyped'
    BY <1>2, <1>3, <1>4, <2>1, <2>2 DEF Basics, CountsTyped
  <2>9. Known'
    BY <1>1, <1>2, <1>4, <2>1, <2>3, <2>4, <2>5 DEF Basics, Known
  <2> QED BY <2>6, <2>7, <2>8, <2>9 DEF Basics
<1>6. ASSUME NEW id \in WorkerIds, Honest(id) PROVE Honest(id)'
  <2>1. CASE id # j
    <3>1. Untouched(id) BY <1>2, <1>4, <2>1 DEF Untouched, Busy
    <3> QED BY <1>6, <3>1, UntouchedHonest
  <2>2. CASE id = j
    <3>1. Busy(id)' = {} BY <1>1, <1>2, <2>2 DEF Basics, Known, Busy
    <3>2. \A t \in tokenCache' : t.id # id
      BY <1>1, <1>2, <2>2 DEF Basics, Known
    <3>3. Agreed(id)'
      <4>1. Fresh # Gone /\ Fresh.token = 1
        BY Apart DEF Fresh
      <4>2. /\ workerFile'[id] = Fresh /\ granted'[id] = Fresh
            /\ tokenRows'[id] = 1 /\ issued'[id] = 1
        BY <1>4, <2>2
      <4> QED BY <3>1, <3>2, <4>1, <4>2 DEF Agreed
    <3> QED BY <3>1, <3>3 DEF Honest, Alone
  <2> QED BY <2>1, <2>2
<1> QED BY <1>5, <1>6

LEMMA CacheExpiresKeeps ==
  ASSUME Basics, NEW t \in tokenCache, CacheExpires(t)
  PROVE  /\ Basics'
         /\ \A id \in WorkerIds : Honest(id) => Honest(id)'
<1>1. /\ tokenCache' = tokenCache \ {t}
      /\ UNCHANGED <<workerFile, tokenRows, calls, client, clientState,
                     granted, issued, requested>>
  BY DEF CacheExpires, workerProcess, grants
<1>2. Basics'
  BY <1>1 DEF Basics, FilesTyped, CallsTyped, CountsTyped, Known
<1>3. \A id \in WorkerIds : Untouched(id) BY <1>1 DEF Untouched, Busy
<1> QED BY <1>2, <1>3, UntouchedHonest

(* A restart in the middle of an administrator's call is a race too.       *)
LEMMA ServerRestartKeeps ==
  ASSUME Basics, ServerRestart
  PROVE  /\ Basics'
         /\ \A id \in WorkerIds \ raced' : Honest(id) => Honest(id)'
<1>1. /\ calls' = [p \in RequestThreads |-> NoCall] /\ tokenCache' = {}
      /\ UNCHANGED <<workerFile, tokenRows, client, clientState, granted,
                     issued, requested>>
  BY DEF ServerRestart, workerProcess, grants
<1>2. Basics'
  BY <1>1 DEF Basics, FilesTyped, CallsTyped, CountsTyped, Known
<1>3. ASSUME NEW id \in WorkerIds \ raced', Honest(id) PROVE Honest(id)'
  <2>1. ~Administered(id) BY <1>3 DEF ServerRestart
  <2>2. Busy(id)' = {} BY <1>1 DEF Busy
  <2>3. Agreed(id)' BY <1>1, <1>3, <2>1, <2>2 DEF Honest, Agreed
  <2> QED BY <2>2, <2>3 DEF Honest, Alone
<1> QED BY <1>2, <1>3

-----------------------------------------------------------------------------
(* Every step of a handler keeps it.                                       *)
LEMMA HandlerStepKeeps ==
  ASSUME Basics, HandlerStep
  PROVE  /\ Basics'
         /\ \A id \in WorkerIds : Honest(id) /\ Alone(id)' => Honest(id)'
<1>1. CASE \E p \in RequestThreads :
             \E op \in WorkerOps : SendWorkerCall(p, op)
  BY <1>1, SendWorkerCallKeeps
<1>2. CASE \E p \in RequestThreads : WorkerStep(p)
  BY <1>2, VerifyKeeps, RefuseKeeps, RememberKeeps, LoadForBeatKeeps
  DEF WorkerStep
<1>3. CASE \E p \in RequestThreads : FileStep(p)
  BY <1>3, TruncateFileKeeps, WriteFileKeeps, UpdateIndexKeeps DEF FileStep
<1>4. CASE \E p \in RequestThreads, id \in WorkerIds :
             \E op \in EditOps : SendEdit(p, op, id)
  BY <1>4, SendEditKeeps
<1>5. CASE \E p \in RequestThreads, id \in WorkerIds : SendDelete(p, id)
  BY <1>5, SendDeleteKeeps
<1>6. CASE Register BY <1>6, RegisterKeeps
<1>7. CASE \E t \in tokenCache : CacheExpires(t)
  BY <1>7, CacheExpiresKeeps
<1> QED BY <1>1, <1>2, <1>3, <1>4, <1>5, <1>6, <1>7 DEF HandlerStep

(* Every step keeps the administrator's last word.                         *)
LEMMA WordInvNext ==
  ASSUME WordInv, [RegistryNext]_registryVars PROVE WordInv'
<1>1. CASE NotingRaces(HandlerStep)
  <2>1. HandlerStep /\ raced' = raced \cup {id \in WorkerIds : Racing(id)'}
    BY <1>1 DEF NotingRaces
  <2>2. /\ Basics'
        /\ \A id \in WorkerIds : Honest(id) /\ Alone(id)' => Honest(id)'
    BY <2>1, HandlerStepKeeps DEF WordInv
  <2>3. ASSUME NEW id \in WorkerIds \ raced' PROVE Honest(id)'
    <3>1. id \notin raced /\ ~Racing(id)' BY <2>1
    <3>2. ASSUME NEW p \in Busy(id)', NEW q \in Busy(id)',
                 calls'[p].op \in AdminOps, p # q
          PROVE  FALSE
      <4>1. Busy(id)' \in SUBSET RequestThreads BY DEF Busy
      <4>2. Cardinality(Busy(id)') > 1 BY <3>2, <4>1, TwoAreMany
      <4> QED BY <3>1, <3>2, <4>2 DEF Racing, Administered
    <3>3. Alone(id)' BY <3>2 DEF Alone
    <3> QED BY <2>2, <3>1, <3>3 DEF WordInv
  <2>4. raced' \subseteq WorkerIds BY <2>1 DEF WordInv
  <2> QED BY <2>2, <2>3, <2>4 DEF WordInv
<1>2. CASE ServerRestart
  <2>1. /\ Basics'
        /\ \A id \in WorkerIds \ raced' : Honest(id) => Honest(id)'
    BY <1>2, ServerRestartKeeps DEF WordInv
  <2>2. raced \subseteq raced' /\ raced' \subseteq WorkerIds
    BY <1>2 DEF ServerRestart, WordInv
  <2> QED BY <2>1, <2>2 DEF WordInv
<1>3. CASE UNCHANGED registryVars
  <2>1. UNCHANGED <<workerFile, tokenRows, tokenCache, calls, client,
                    clientState, granted, issued, requested, raced>>
    BY <1>3 DEF registryVars
  <2>2. \A id \in WorkerIds : Untouched(id) BY <2>1 DEF Untouched, Busy
  <2>3. \A id \in WorkerIds \ raced' : Honest(id)'
    BY <2>1, <2>2, UntouchedHonest DEF WordInv
  <2>4. Basics' BY <2>1
    DEF WordInv, Basics, FilesTyped, CallsTyped, CountsTyped, Known
  <2> QED BY <2>1, <2>3, <2>4 DEF WordInv
<1> QED BY <1>1, <1>2, <1>3 DEF RegistryNext

(* The invariant holds of every behaviour of the registry.                 *)
THEOREM RegistryInvariant == RegistrySpec => []WordInv
<1>1. RegistryInit => WordInv BY WordInvInit
<1>2. WordInv /\ [RegistryNext]_registryVars => WordInv' BY WordInvNext
<1> QED BY <1>1, <1>2, PTL DEF RegistrySpec

(* Every state of the registry is one its types allow.                     *)
THEOREM RegistryWellTyped == RegistrySpec => []RegistryTypeOK
<1>1. WordInv => RegistryTypeOK
  BY DEF WordInv, Basics, FilesTyped, CallsTyped, CountsTyped, RegistryTypeOK
<1> QED BY <1>1, RegistryInvariant, PTL

(* An administrator's change that no other handler overlapped is never     *)
(* undone, by whatever number of heartbeats, claims, registrations and     *)
(* restarts after it: the file says what was granted, no revoked or        *)
(* replaced token is accepted, and a deleted worker stays deleted.         *)
THEOREM RegistryLastWord == RegistrySpec => []AdminHasTheLastWord
<1>1. WordInv => AdminHasTheLastWord
  <2> SUFFICES ASSUME WordInv, NEW id \in WorkerIds \ raced,
                      ~Administered(id)
               PROVE  /\ workerFile[id] \in Registration =>
                           workerFile[id] = granted[id]
                      /\ \A n \in TokenNumbers :
                           Accepted([id |-> id, n |-> n]) => n = issued[id]
    BY DEF AdminHasTheLastWord
  <2>1. Agreed(id) BY DEF WordInv, Honest
  <2>2. ASSUME NEW n \in TokenNumbers, Accepted([id |-> id, n |-> n])
        PROVE  n = issued[id]
    <3>1. Usable(id) BY <2>2 DEF Accepted, InCache, InRows, InFile
    <3>2. workerFile[id] \in Registration
      BY <3>1 DEF Usable, WordInv, Basics, FilesTyped
    <3>3. workerFile[id] = granted[id] /\ granted[id] # Gone
      BY <2>1, <3>2, Apart DEF Agreed
    <3> QED BY <2>1, <2>2, <3>3 DEF Agreed, Accepted, InCache, InRows, InFile
  <2> QED BY <2>1, <2>2 DEF Agreed
<1> QED BY <1>1, RegistryInvariant, PTL

-----------------------------------------------------------------------------
(***************************************************************************)
(* The log of a run.                                                       *)
(***************************************************************************)

(* The types, without the length of the file.                              *)
Typed ==
  /\ log \in Seq(Lines)
  /\ over \in BOOLEAN
  /\ producer \in [step : {"printing", "waiting", "finishing", "done"},
                   sent : 0..Chunks]
  /\ inFlight \subseteq Printed
  /\ note \in {"none", "due", "written"}
  /\ reader \in Reader(Seq(Lines))
  /\ offset \in Nat
  /\ dialog \in Dialog(Seq(Lines))
  /\ fetch \in [Fetches -> Fetched]

(* Every line of the file was a chunk of its own, but for one.             *)
Accounted ==
  /\ inFlight \subseteq 1..producer.sent
  /\ note # "none" => over
  /\ Len(log) + Cardinality(inFlight) + (IF note = "written" THEN 0 ELSE 1)
       <= producer.sent + 1

(* What the stream holds, knows of the file, and knows of the run.         *)
Following ==
  /\ offset = Len(reader.text)
  /\ reader.size <= Len(log)
  /\ Beginning(reader.text)
  /\ reader.settled => Settled
  /\ reader.settled /\ reader.step = "status" => reader.size = Len(log)
  /\ CompleteStreamIsWhole

(* What the dialog shows are the first lines of the file, in some order,   *)
(* and no fetch of it asks for what is beyond them.                        *)
Among(text, n) == {text[i] : i \in DOMAIN text} = {log[i] : i \in 1..n}
Shows(n) == Among(dialog.text, n)
Watching ==
  /\ \E n \in 0..Len(log) :
       Shows(n) /\ dialog.offset <= n /\ \A f \in Open : fetch[f].from <= n
  /\ \A f \in Fetches : fetch[f].step = "answered" =>
       fetch[f].from <= fetch[f].to /\ fetch[f].to <= Len(log)

(* While its fetches do not overlap, they are as those of the stream.      *)
Serial ==
  ~dialog.overlapped =>
    /\ Beginning(dialog.text) /\ dialog.offset = Len(dialog.text)
    /\ \A f \in Open : fetch[f].from = dialog.offset /\ Open = {f}

LogInv == Typed /\ Accounted /\ Following /\ Watching /\ Serial

-----------------------------------------------------------------------------
(* Chunks in flight are finitely many.                                     *)
LEMMA InFlightFinite ==
  ASSUME Typed PROVE IsFiniteSet(inFlight) /\ Cardinality(inFlight) \in Nat
<1>1. IsFiniteSet(Printed)  BY LogAssumption, FS_Interval DEF Printed
<1>2. IsFiniteSet(inFlight) BY <1>1, FS_Subset DEF Typed
<1> QED BY <1>2, FS_CardinalityType

(* The file is never longer than the chunks and the server's own line.     *)
LEMMA LogBounded ==
  ASSUME Typed, Accounted PROVE Len(log) <= Chunks + 1
<1>1. Cardinality(inFlight) \in Nat BY InFlightFinite
<1>2. Len(log) \in Nat BY DEF Typed
<1>3. producer.sent \in 0..Chunks BY DEF Typed
<1> QED BY <1>1, <1>2, <1>3, LogAssumption DEF Accounted

(* The invariant gives the type invariant of the module.                   *)
LEMMA LogInvTypes == ASSUME LogInv PROVE LogTypeOK
<1>1. Len(log) <= Chunks + 1 BY LogBounded DEF LogInv
<1>2. reader.text \in Seq(Lines) /\ dialog.text \in Seq(Lines)
  BY DEF LogInv, Typed, Reader, Dialog
<1>3. offset \in 0..(Chunks + 1)
  BY <1>1, <1>2, LogAssumption DEF LogInv, Typed, Following, Beginning
<1>4. reader \in Reader({reader.text}) BY <1>2 DEF LogInv, Typed, Reader
<1>5. dialog \in Dialog({dialog.text}) BY <1>2 DEF LogInv, Typed, Dialog
<1> QED BY <1>1, <1>2, <1>3, <1>4, <1>5 DEF LogInv, Typed, LogTypeOK

(* The beginning.                                                          *)
LEMMA LogInvInit == ASSUME LogInit PROVE LogInv
<1> 0 \in 0..(Chunks + 1) /\ 0 \in 0..MaxEmpty /\ 0 \in 0..MaxMishaps
    /\ <<>> \in Seq(Lines)
  BY LogAssumption, EmptySeq
<1>1. Typed
  <2>1. PICK kind \in Kinds :
          reader = [kind |-> kind, step |-> "size", size |-> 0, empty |-> 0,
                    settled |-> FALSE, complete |-> FALSE, text |-> <<>>]
    BY DEF LogInit
  <2>2. reader \in Reader(Seq(Lines)) BY <2>1 DEF Reader
  <2>3. PICK step \in {"polling", "again"} :
          dialog = [step |-> step, offset |-> 0, overlapped |-> FALSE,
                    mishaps |-> 0, text |-> <<>>]
    BY DEF LogInit
  <2>4. dialog \in Dialog(Seq(Lines)) BY <2>3 DEF Dialog
  <2>5. NoFetch \in Fetched BY DEF NoFetch, Fetched
  <2>6. producer \in [step : {"printing", "waiting", "finishing", "done"},
                      sent : 0..Chunks]
    BY LogAssumption DEF LogInit
  <2> QED BY <2>2, <2>4, <2>5, <2>6 DEF LogInit, Typed
<1>2. Accounted
  <2>1. Cardinality(inFlight) = 0 BY FS_EmptySet DEF LogInit
  <2> QED BY <2>1 DEF LogInit, Accounted
<1>3. Following
  BY DEF LogInit, Following, Beginning, CompleteStreamIsWhole
<1>4. dialog.text = <<>> /\ dialog.offset = 0 /\ log = <<>>
  BY DEF LogInit
<1>5. Open = {} /\ \A f \in Fetches : fetch[f].step = "none"
  BY DEF LogInit, Open, NoFetch
<1>6. Watching
  <2>1. 0 \in 0..Len(log) /\ Shows(0) BY <1>4 DEF Shows, Among
  <2> QED BY <1>4, <1>5, <2>1 DEF Watching
<1>7. Serial BY <1>4, <1>5 DEF Serial, Beginning
<1> QED BY <1>1, <1>2, <1>3, <1>6, <1>7 DEF LogInv

-----------------------------------------------------------------------------
(* A chunk that is read ends within the file, and is empty only at the end *)
(* of what its reader knows of.                                            *)
LEMMA ChunkBounds ==
  ASSUME log \in Seq(Lines), NEW from \in Nat, NEW size \in Nat,
         from <= Len(log)
  PROVE  /\ ChunkEnd(from, size) \in from..Len(log)
         /\ ChunkEnd(from, size) = from /\ size <= Len(log) => from >= size
<1>1. Len(log) \in Nat OBVIOUS
<1> QED BY <1>1, LogAssumption DEF ChunkEnd, LesserOf

(* The lines of a chunk.                                                   *)
LEMMA ChunkLines ==
  ASSUME log \in Seq(Lines), NEW from \in Nat, NEW to \in from..Len(log)
  PROVE  LET chunk == SubSeq(log, from + 1, to) IN
         /\ chunk \in Seq(Lines)
         /\ Len(chunk) \in Nat /\ Len(chunk) = to - from
         /\ \A i \in 1..Len(chunk) : chunk[i] = log[from + i]
<1>1. Len(log) \in Nat /\ to \in Nat OBVIOUS
<1>2. \A i \in from + 1..to : log[i] \in Lines BY <1>1
<1> QED BY <1>1, <1>2

(* A chunk of the file behind the lines before it is a beginning again.    *)
LEMMA ChunkBehind ==
  ASSUME log \in Seq(Lines), NEW text \in Seq(Lines), Beginning(text),
         NEW to \in Len(text)..Len(log)
  PROVE  LET longer == text \o SubSeq(log, Len(text) + 1, to) IN
         /\ longer \in Seq(Lines)
         /\ Len(longer) = to
         /\ Beginning(longer)
<1> DEFINE from == Len(text)
           chunk == SubSeq(log, from + 1, to)
           longer == text \o chunk
<1>1. Len(log) \in Nat /\ from \in Nat /\ to \in Nat OBVIOUS
<1>3. /\ chunk \in Seq(Lines)
      /\ Len(chunk) \in Nat /\ Len(chunk) = to - from
      /\ \A i \in 1..Len(chunk) : chunk[i] = log[from + i]
  BY <1>1, ChunkLines
<1> HIDE DEF chunk
<1>4. /\ longer \in Seq(Lines)
      /\ Len(longer) = to
  BY <1>1, <1>3
<1>5. \A i \in 1..to : longer[i] = log[i]
  <2> SUFFICES ASSUME NEW i \in 1..to PROVE longer[i] = log[i]
    OBVIOUS
  <2>1. CASE i <= from
    <3>1. i \in DOMAIN text /\ longer[i] = text[i] BY <1>1, <1>3, <2>1
    <3> QED BY <3>1 DEF Beginning
  <2>2. CASE i > from
    <3> DEFINE k == i - from
    <3>1. k \in 1..Len(chunk) /\ i = from + k BY <1>1, <1>3, <2>2
    <3>2. longer[i] = chunk[k] BY <1>1, <1>3, <2>2
    <3> HIDE DEF k
    <3>3. chunk[k] = log[from + k] BY <1>3, <3>1
    <3> QED BY <3>1, <3>2, <3>3
  <2>3. i <= from \/ i > from BY <1>1
  <2> HIDE DEF longer, from
  <2> QED BY <2>1, <2>2, <2>3
<1>6. Beginning(longer)
  <2>1. DOMAIN longer = 1..to BY <1>4
  <2> HIDE DEF longer
  <2> QED BY <1>1, <1>4, <1>5, <2>1 DEF Beginning
<1> QED BY <1>4, <1>6 DEF chunk

(* The lines of a chunk that begins within those shown join them.          *)
LEMMA ChunkAmong ==
  ASSUME log \in Seq(Lines), NEW text \in Seq(Lines), NEW n \in 0..Len(log),
         NEW from \in 0..n, NEW to \in from..Len(log),
         NEW longer, longer = text \o SubSeq(log, from + 1, to),
         Among(text, n)
  PROVE  /\ longer \in Seq(Lines)
         /\ Among(longer, IF n < to THEN to ELSE n)
<1> DEFINE chunk == SubSeq(log, from + 1, to)
           m == IF n < to THEN to ELSE n
<1>1. /\ Len(log) \in Nat /\ n \in Nat /\ from \in Nat /\ to \in Nat
      /\ Len(text) \in Nat /\ DOMAIN text = 1..Len(text)
  OBVIOUS
<1>3. /\ chunk \in Seq(Lines)
      /\ Len(chunk) \in Nat /\ Len(chunk) = to - from
      /\ \A i \in 1..Len(chunk) : chunk[i] = log[from + i]
  BY <1>1, ChunkLines
<1>0. longer = text \o chunk OBVIOUS
<1> HIDE DEF chunk
<1>4. /\ longer \in Seq(Lines)
      /\ DOMAIN longer = 1..(Len(text) + Len(chunk))
      /\ \A i \in 1..Len(text) : longer[i] = text[i]
      /\ \A i \in 1..Len(chunk) : longer[Len(text) + i] = chunk[i]
  <2>1. longer \in Seq(Lines) /\ Len(longer) = Len(text) + Len(chunk)
    <3>1. (text \o chunk) \in Seq(Lines) BY <1>3
    <3>2. Len(text \o chunk) = Len(text) + Len(chunk) BY <1>3, ConcatProperties
    <3> QED BY <1>0, <3>1, <3>2
  <2>2. \A i \in 1..Len(text) : longer[i] = text[i] BY <1>0, <1>1, <1>3
  <2>3. \A i \in 1..Len(chunk) : longer[Len(text) + i] = chunk[i]
    BY <1>0, <1>1, <1>3
  <2>4. DOMAIN longer = 1..(Len(text) + Len(chunk)) BY <2>1
  <2> QED BY <2>1, <2>2, <2>3, <2>4
<1>5. ASSUME NEW i \in DOMAIN longer
      PROVE  \E j \in 1..m : longer[i] = log[j]
  <2>1. CASE i <= Len(text)
    <3>1. longer[i] = text[i] /\ i \in DOMAIN text
      BY <1>1, <1>3, <1>4, <2>1
    <3>2. PICK j \in 1..n : text[i] = log[j] BY <3>1 DEF Among
    <3>3. j \in 1..m BY <1>1
    <3> QED BY <3>1, <3>2, <3>3
  <2>2. CASE i > Len(text)
    <3> DEFINE k == i - Len(text)
    <3>1. k \in 1..Len(chunk) /\ i = Len(text) + k
      BY <1>1, <1>3, <1>4, <2>2
    <3> HIDE DEF k
    <3>2. longer[i] = chunk[k] /\ chunk[k] = log[from + k]
      BY <1>3, <1>4, <3>1
    <3>3. from + k \in 1..m BY <1>1, <1>3, <3>1
    <3> HIDE DEF m
    <3> QED BY <3>2, <3>3
  <2> QED BY <1>1, <1>3, <1>4, <2>1, <2>2
<1>6. ASSUME NEW j \in 1..m
      PROVE  \E i \in DOMAIN longer : longer[i] = log[j]
  <2>1. CASE j <= n
    <3>1. j \in 1..n BY <1>1, <2>1
    <3>2. PICK i \in DOMAIN text : text[i] = log[j] BY <3>1 DEF Among
    <3>3. longer[i] = text[i] /\ i \in DOMAIN longer BY <1>1, <1>3, <1>4
    <3> QED BY <3>2, <3>3
  <2>2. CASE j > n
    <3> DEFINE k == j - from
    <3>1. k \in 1..Len(chunk) /\ j = from + k BY <1>1, <1>3, <2>2
    <3> HIDE DEF k
    <3>2. longer[Len(text) + k] = chunk[k] /\ chunk[k] = log[from + k]
      BY <1>3, <1>4, <3>1
    <3>3. Len(text) + k \in DOMAIN longer BY <1>1, <1>3, <1>4, <3>1
    <3> QED BY <3>1, <3>2, <3>3
  <2> QED BY <1>1, <2>1, <2>2
<1>7. {longer[i] : i \in DOMAIN longer} = {log[i] : i \in 1..m}
  <2> HIDE DEF m
  <2>1. \A i \in DOMAIN longer : longer[i] \in {log[j] : j \in 1..m}
    BY <1>5
  <2>2. \A j \in 1..m : log[j] \in {longer[i] : i \in DOMAIN longer}
    BY <1>6
  <2> QED BY <2>1, <2>2
<1> QED BY <1>4, <1>7 DEF Among

-----------------------------------------------------------------------------
(* A beginning of the file is one when the file grows, and the dialog      *)
(* shows the same lines of it.                                             *)
LEMMA LongerFile ==
  ASSUME log \in Seq(Lines), NEW line \in Lines, AddLine(line)
  PROVE  /\ log' \in Seq(Lines) /\ Len(log') = Len(log) + 1
         /\ \A i \in 1..Len(log) : log'[i] = log[i]
         /\ \A text \in Seq(Lines) : Beginning(text) =>
              Len(text) <= Len(log') /\ \A i \in DOMAIN text : text[i] = log'[i]
<1>1. log' \in Seq(Lines) /\ Len(log') = Len(log) + 1 BY DEF AddLine
<1>2. \A i \in 1..Len(log) : log'[i] = log[i] BY DEF AddLine
<1>3. ASSUME NEW text \in Seq(Lines), Beginning(text)
      PROVE  Len(text) <= Len(log') /\ \A i \in DOMAIN text : text[i] = log'[i]
  <2>1. DOMAIN text = 1..Len(text) /\ Len(text) \in Nat /\ Len(log) \in Nat
    OBVIOUS
  <2>2. Len(text) <= Len(log) BY <1>3 DEF Beginning
  <2>3. \A i \in DOMAIN text : i \in 1..Len(log) BY <2>1, <2>2
  <2> QED BY <1>1, <1>2, <1>3, <2>1, <2>2, <2>3 DEF Beginning
<1> QED BY <1>1, <1>2, <1>3

(* A line more leaves the followers what they are, unless the run has      *)
(* settled.                                                                *)
LEMMA LineAdded ==
  ASSUME Typed, Following, Watching, Serial,
         NEW line \in Lines, AddLine(line), ~Settled, UNCHANGED follower
  PROVE  /\ log' \in Seq(Lines)
         /\ Len(log') = Len(log) + 1
         /\ Following' /\ Watching' /\ Serial'
<1> UNCHANGED <<reader, offset, dialog, fetch>>
  BY DEF follower, stream, window
<1> log \in Seq(Lines) /\ Len(log) \in Nat BY DEF Typed
<1>1. /\ log' \in Seq(Lines) /\ Len(log') = Len(log) + 1
      /\ \A i \in 1..Len(log) : log'[i] = log[i]
      /\ \A text \in Seq(Lines) : Beginning(text) =>
           Len(text) <= Len(log') /\ \A i \in DOMAIN text : text[i] = log'[i]
  BY LongerFile
<1>2. reader.text \in Seq(Lines) /\ reader.size \in Nat
      /\ dialog.text \in Seq(Lines)
  BY LogAssumption DEF Typed, Reader, Dialog
<1>3. Beginning(reader.text)'
  BY <1>1, <1>2 DEF Following, Beginning
<1>4. Following'
  BY <1>1, <1>2, <1>3 DEF Following, CompleteStreamIsWhole
<1>5. Serial'
  BY <1>1, <1>2 DEF Serial, Beginning, Open
<1>6. Watching'
  <2>1. PICK n \in 0..Len(log) :
          Shows(n) /\ dialog.offset <= n /\ \A f \in Open : fetch[f].from <= n
    BY DEF Watching
  <2>2. \A i \in 1..n : log'[i] = log[i] BY <1>1
  <2>3. Shows(n)' BY <2>1, <2>2 DEF Shows, Among
  <2>4. n \in 0..Len(log') BY <1>1
  <2>5. Open' = Open BY DEF Open
  <2>6. \A f \in Fetches : fetch[f].step = "answered" =>
          fetch[f].to <= Len(log')
    BY <1>1 DEF Watching, Typed, Fetched
  <2> QED BY <2>1, <2>3, <2>4, <2>5, <2>6 DEF Watching
<1> QED BY <1>1, <1>4, <1>5, <1>6

(* What changes neither the file nor a follower keeps what they are, if it *)
(* does not unsettle the run.                                              *)
LEMMA FollowingKept ==
  ASSUME Following, UNCHANGED <<log, stream>>, Settled => Settled'
  PROVE  Following'
  BY DEF Following, Beginning, CompleteStreamIsWhole, stream
LEMMA WatchingKept ==
  ASSUME Watching, Serial, UNCHANGED <<log, window>>
  PROVE  Watching' /\ Serial'
  BY DEF Watching, Serial, Beginning, Shows, Among, Open, window

-----------------------------------------------------------------------------
(* A step of the stream.  After any read, the invariant holds again.       *)
LEMMA ReadKeeps ==
  ASSUME LogInv, reader.step = "status",
         NEW empty \in 0..MaxEmpty, NEW ends \in BOOLEAN,
         ends => ChunkRead = <<>>,
         Received(ChunkRead, empty, ends), UNCHANGED <<log, run, window>>
  PROVE  LogInv'
<1> USE DEF LogInv
<1> DEFINE to == ChunkEnd(offset, reader.size)
<1>1. reader \in Reader(Seq(Lines)) /\ over \in BOOLEAN
      /\ log \in Seq(Lines) /\ Len(log) \in Nat
      /\ reader.text \in Seq(Lines) /\ reader.size \in Nat
  BY LogAssumption DEF Typed, Reader
<1>2. /\ offset' = offset + Len(ChunkRead)
      /\ reader'.text = reader.text \o ChunkRead
      /\ reader'.size = reader.size
      /\ reader'.settled = reader.settled
      /\ reader'.complete = (ends /\ Complete)
      /\ reader'.step = IF ends THEN "ended" ELSE "size"
  BY <1>1 DEF Received, Reader
<1>3. offset = Len(reader.text) /\ Beginning(reader.text)
      /\ offset <= Len(log) /\ offset \in Nat
  BY <1>1 DEF Following, Beginning
<1>4. to \in offset..Len(log) /\ (to = offset => offset >= reader.size)
  BY <1>1, <1>3, ChunkBounds DEF Following
<1>5. ChunkRead = SubSeq(log, offset + 1, to) BY DEF ChunkRead
<1>6. Len(ChunkRead) = to - offset
  <2> HIDE DEF to
  <2> QED BY <1>1, <1>3, <1>4, <1>5, ChunkLines
<1>7. /\ reader'.text \in Seq(Lines)
      /\ Len(reader'.text) = to
      /\ Beginning(reader'.text)
  <2> HIDE DEF to
  <2> QED BY <1>1, <1>2, <1>3, <1>4, <1>5, ChunkBehind
<1>8. offset' = to /\ offset' \in Nat
  <2> HIDE DEF to
  <2> QED BY <1>2, <1>3, <1>4, <1>6
<1>9. reader' \in Reader(Seq(Lines))
  <2>1. Complete \in BOOLEAN BY DEF Complete, CompleteAt
  <2> QED BY <1>1, <1>7, <2>1 DEF Received, Reader
<1>10. Typed' BY <1>8, <1>9 DEF Typed, run, window
<1>11. Accounted' BY DEF Accounted, run
<1>12. Settled' = Settled BY DEF Settled, run
<1>13. CompleteStreamIsWhole'
  <2> SUFFICES ASSUME reader'.step = "ended", reader'.settled
               PROVE  reader'.text = log'
    BY DEF CompleteStreamIsWhole
  <2>1. ChunkRead = <<>> /\ Len(ChunkRead) = 0 BY <1>2
  <2>2. to = offset
    <3> HIDE DEF to
    <3> QED BY <1>3, <1>4, <1>6, <2>1
  <2>3. offset >= Len(log) BY <1>2, <1>4, <2>2 DEF Following
  <2>4. Len(reader'.text) = Len(log) BY <1>1, <1>3, <1>7, <2>2, <2>3
  <2>5. DOMAIN reader'.text = 1..Len(log) BY <1>7, <2>4
  <2>6. \A i \in 1..Len(log) : reader'.text[i] = log[i]
    BY <1>7, <2>5 DEF Beginning
  <2> QED BY <1>1, <1>7, <2>4, <2>6, SeqEqual
<1>14. Beginning(reader.text)' BY <1>7 DEF Beginning
<1>15. Following'
  BY <1>2, <1>7, <1>8, <1>12, <1>13, <1>14 DEF Following
<1> QED BY <1>10, <1>11, <1>15, WatchingKept

(* The question for the size.                                              *)
LEMMA AskKeeps == ASSUME LogInv, AskSize PROVE LogInv'
<1> USE DEF LogInv
<1>1. Len(log) \in 0..(Chunks + 1)
  BY LogBounded, LogAssumption DEF Typed
<1>2. reader \in Reader(Seq(Lines)) BY DEF Typed
<1>3. Settled \in BOOLEAN BY DEF Settled, Typed
<1>4. /\ reader' \in Reader(Seq(Lines))
      /\ reader'.text = reader.text
      /\ reader'.size = Len(log)
      /\ reader'.settled = Settled
      /\ reader'.step = "status"
  BY <1>1, <1>2, <1>3 DEF AskSize, Reader
<1>5. Typed' BY <1>4 DEF Typed, AskSize, run, window
<1>6. Accounted' BY DEF Accounted, AskSize, run
<1>7. Settled' = Settled BY DEF Settled, AskSize, run
<1>8. Following'
  BY <1>1, <1>4, <1>7
  DEF Following, Beginning, CompleteStreamIsWhole, AskSize
<1> QED BY <1>5, <1>6, <1>8, WatchingKept DEF AskSize

-----------------------------------------------------------------------------
(* A step of the dialog leaves all but the dialog and its fetches.         *)
LEMMA DialogAlone ==
  ASSUME LogInv, UNCHANGED <<log, run, stream>>,
         dialog' \in Dialog(Seq(Lines)), fetch' \in [Fetches -> Fetched]
  PROVE  Typed' /\ Accounted' /\ Following'
<1>1. Typed' BY DEF LogInv, Typed, run, stream
<1>2. Accounted' BY DEF LogInv, Accounted, run
<1>3. Settled' = Settled BY DEF Settled, run
<1>4. Following' BY <1>3, FollowingKept DEF LogInv
<1> QED BY <1>1, <1>2, <1>4

(* What is known of the dialog and its fetches.                            *)
TypedFetch(f) ==
  /\ fetch[f] \in Fetched
  /\ fetch[f].from \in Nat /\ fetch[f].size \in Nat /\ fetch[f].to \in Nat
TypedDialog ==
  /\ log \in Seq(Lines) /\ Len(log) \in 0..(Chunks + 1) /\ Chunks \in Nat
  /\ dialog \in Dialog(Seq(Lines)) /\ dialog.text \in Seq(Lines)
  /\ dialog.offset \in Nat /\ dialog.overlapped \in BOOLEAN
  /\ fetch \in [Fetches -> Fetched]
LEMMA DialogTyped ==
  ASSUME LogInv PROVE TypedDialog /\ \A f \in Fetches : TypedFetch(f)
<1>1. Len(log) \in 0..(Chunks + 1) /\ Chunks \in Nat
  BY LogBounded, LogAssumption DEF LogInv, Typed
<1>2. dialog \in Dialog(Seq(Lines)) BY DEF LogInv, Typed
<1>3. dialog.text \in Seq(Lines) /\ dialog.offset \in Nat
      /\ dialog.overlapped \in BOOLEAN
  BY <1>2, LogAssumption DEF Dialog
<1>4. ASSUME NEW f \in Fetches PROVE TypedFetch(f)
  <2>1. fetch[f] \in Fetched BY DEF LogInv, Typed
  <2> QED BY <2>1, LogAssumption DEF Fetched, TypedFetch
<1> QED BY <1>1, <1>2, <1>3, <1>4 DEF LogInv, Typed, TypedDialog

(* A fetch begins from the offset of the moment.                           *)
LEMMA FetchBeginKeeps ==
  ASSUME LogInv, NEW f \in Fetches,
         NEW step \in {"polling", "again", "ended"}, Begin(f, step)
  PROVE  LogInv'
<1>0. TypedDialog /\ TypedFetch(f) BY DialogTyped
<1>1. PICK n \in 0..Len(log) :
        Shows(n) /\ dialog.offset <= n /\ \A g \in Open : fetch[g].from <= n
  BY DEF LogInv, Watching
<1>2. /\ dialog'.text = dialog.text /\ dialog'.offset = dialog.offset
      /\ dialog'.overlapped = (dialog.overlapped \/ Open # {})
      /\ dialog' \in Dialog(Seq(Lines))
  <2> DEFINE mishaps == IF Open = {} THEN dialog.mishaps
                        ELSE dialog.mishaps + 1
  <2>1. Open # {} => dialog.mishaps < MaxMishaps BY DEF Begin
  <2>2. mishaps \in 0..MaxMishaps
    BY <1>0, <2>1, LogAssumption DEF TypedDialog, Dialog
  <2>3. dialog' = [dialog EXCEPT !.step = step, !.mishaps = mishaps,
                     !.overlapped = dialog.overlapped \/ Open # {}]
    BY <1>0 DEF Begin, TypedDialog, Dialog
  <2> HIDE DEF mishaps
  <2> QED BY <1>0, <2>2, <2>3 DEF TypedDialog, Dialog
<1>3. /\ fetch'[f] = [NoFetch EXCEPT !.step = "size", !.from = dialog.offset]
      /\ \A g \in Fetches : g # f => fetch'[g] = fetch[g]
  BY <1>0 DEF Begin, TypedDialog
<1>4. fetch'[f] \in Fetched /\ fetch'[f].from = dialog.offset
      /\ fetch'[f].step = "size"
  <2>1. dialog.offset \in 0..(Chunks + 1) /\ 0 \in 0..(Chunks + 1)
    BY <1>0, <1>1 DEF TypedDialog
  <2> QED BY <1>3, <2>1 DEF NoFetch, Fetched
<1>5. fetch' \in [Fetches -> Fetched]
  BY <1>0, <1>3, <1>4 DEF Begin, TypedDialog
<1>6. Open' = Open \cup {f} /\ f \notin Open
  BY <1>3, <1>4 DEF Open, Begin
<1>7. UNCHANGED <<log, run, stream>> BY DEF Begin
<1>8. Watching'
  <2>1. Shows(n)' BY <1>1, <1>2, <1>7 DEF Shows, Among
  <2>2. \A g \in Open' : fetch'[g].from <= n
    BY <1>1, <1>3, <1>4, <1>6 DEF Open
  <2>3. \A g \in Fetches : fetch'[g].step = "answered" =>
          fetch'[g].from <= fetch'[g].to /\ fetch'[g].to <= Len(log)
    BY <1>3, <1>4 DEF LogInv, Watching
  <2> QED BY <1>1, <1>2, <1>7, <2>1, <2>2, <2>3 DEF Watching
<1>9. Serial'
  BY <1>2, <1>4, <1>6, <1>7 DEF LogInv, Serial, Beginning
<1> QED BY <1>2, <1>5, <1>7, <1>8, <1>9, DialogAlone DEF LogInv

(* A fetch is answered with the size, then with the chunk and the status.  *)
LEMMA AnswerKeeps ==
  ASSUME LogInv, NEW f \in Fetches, FetchSize(f) \/ AnswerFetch(f)
  PROVE  LogInv'
<1>0. TypedDialog /\ TypedFetch(f) BY DialogTyped
<1>1. PICK n \in 0..Len(log) :
        Shows(n) /\ dialog.offset <= n /\ \A g \in Open : fetch[g].from <= n
  BY DEF LogInv, Watching
<1>2. UNCHANGED <<log, run, stream, dialog>> BY DEF FetchSize, AnswerFetch
<1>3. f \in Open BY DEF Open, FetchSize, AnswerFetch
<1>4. ChunkEnd(fetch[f].from, fetch[f].size) \in fetch[f].from..Len(log)
  <2>1. fetch[f].from <= Len(log)
    BY <1>0, <1>1, <1>3 DEF TypedDialog, TypedFetch
  <2> QED BY <1>0, <2>1, ChunkBounds DEF TypedDialog, TypedFetch
<1>5. /\ \A g \in Fetches : g # f => fetch'[g] = fetch[g]
      /\ fetch'[f].from = fetch[f].from
      /\ fetch'[f].step # "none"
      /\ fetch'[f].step = "answered" =>
           fetch'[f].to = ChunkEnd(fetch[f].from, fetch[f].size)
      /\ fetch' \in [Fetches -> Fetched]
  <2> DEFINE to == ChunkEnd(fetch[f].from, fetch[f].size)
  <2>2. to \in 0..(Chunks + 1)
    <3>1. to \in fetch[f].from..Len(log) BY <1>4
    <3> HIDE DEF to
    <3> QED BY <1>0, <3>1 DEF TypedDialog, TypedFetch
  <2> HIDE DEF to
  <2>3. CASE FetchSize(f)
    BY <1>0, <2>3 DEF FetchSize, TypedDialog, TypedFetch, Fetched
  <2>4. CASE AnswerFetch(f)
    <3>1. CompleteAt(fetch[f].size) \in BOOLEAN
      BY DEF CompleteAt, LogInv, Typed
    <3> QED BY <1>0, <2>2, <2>4, <3>1
      DEF AnswerFetch, TypedDialog, TypedFetch, Fetched, to
  <2> QED BY <2>3, <2>4
<1>6. fetch'[f].step = "answered" =>
        fetch'[f].from <= fetch'[f].to /\ fetch'[f].to <= Len(log)
  BY <1>4, <1>5
<1>7. Open' = Open BY <1>3, <1>5 DEF Open
<1>8. Watching'
  <2>1. Shows(n)' BY <1>1, <1>2 DEF Shows, Among
  <2>2. \A g \in Open' : fetch'[g].from <= n
    BY <1>1, <1>5, <1>7 DEF Open
  <2>3. \A g \in Fetches : fetch'[g].step = "answered" =>
          fetch'[g].from <= fetch'[g].to /\ fetch'[g].to <= Len(log)
    BY <1>5, <1>6 DEF LogInv, Watching
  <2> QED BY <1>1, <1>2, <2>1, <2>2, <2>3 DEF Watching
<1>9. Serial'
  <2>1. \A g \in Open : fetch'[g].from = fetch[g].from BY <1>5 DEF Open
  <2> QED BY <1>2, <1>7, <2>1 DEF LogInv, Serial, Beginning
<1> QED BY <1>0, <1>2, <1>5, <1>8, <1>9, DialogAlone DEF LogInv, TypedDialog

(* What closes a fetch closes no other.                                    *)
LEMMA FetchClosed ==
  ASSUME LogInv, NEW f \in Fetches, fetch' = [fetch EXCEPT ![f] = NoFetch]
  PROVE  /\ fetch' \in [Fetches -> Fetched]
         /\ fetch'[f].step = "none"
         /\ \A g \in Fetches : g # f => fetch'[g] = fetch[g]
         /\ Open' = Open \ {f}
<1>1. NoFetch \in Fetched /\ NoFetch.step = "none"
  BY LogAssumption DEF NoFetch, Fetched
<1>2. /\ fetch' \in [Fetches -> Fetched]
      /\ fetch'[f].step = "none"
      /\ \A g \in Fetches : g # f => fetch'[g] = fetch[g]
  BY <1>1 DEF LogInv, Typed
<1> QED BY <1>2 DEF Open

(* A chunk that is shown is a part of the file, and no line before it is   *)
(* missing.                                                                *)
LEMMA ShowKeeps ==
  ASSUME LogInv, NEW f \in Fetches, ShowChunk(f) PROVE LogInv'
<1>0. TypedDialog /\ TypedFetch(f) BY DialogTyped
<1> DEFINE from == fetch[f].from
           to == fetch[f].to
           chunk == SubSeq(log, from + 1, to)
<1>1. PICK n \in 0..Len(log) :
        Shows(n) /\ dialog.offset <= n /\ \A g \in Open : fetch[g].from <= n
  BY DEF LogInv, Watching
<1>2. UNCHANGED <<log, run, stream>> BY DEF ShowChunk
<1>3. f \in Open BY DEF Open, ShowChunk
<1>4. /\ from \in 0..n /\ to \in from..Len(log)
      /\ log \in Seq(Lines) /\ Len(log) \in Nat
      /\ dialog.text \in Seq(Lines) /\ from \in Nat /\ to \in Nat
  BY <1>0, <1>1, <1>3
  DEF ShowChunk, LogInv, Watching, TypedDialog, TypedFetch
<1>5. /\ fetch' \in [Fetches -> Fetched]
      /\ fetch'[f].step = "none"
      /\ \A g \in Fetches : g # f => fetch'[g] = fetch[g]
      /\ Open' = Open \ {f}
  BY FetchClosed DEF ShowChunk
<1> HIDE DEF from, to, chunk
<1>6. /\ dialog'.text = dialog.text \o chunk
      /\ dialog'.offset = to
      /\ dialog'.overlapped = dialog.overlapped
  BY <1>0 DEF ShowChunk, Dialog, TypedDialog, from, to, chunk
<1>7. dialog'.text \in Seq(Lines)
      /\ \E m \in 0..Len(log) :
           to <= m /\ n <= m /\ Among(dialog'.text, m)
  <2> DEFINE m == IF n < to THEN to ELSE n
  <2>1. Among(dialog.text, n) BY <1>1 DEF Shows, Among
  <2>2. dialog'.text = dialog.text \o SubSeq(log, from + 1, to)
    BY <1>6 DEF chunk
  <2>3. dialog'.text \in Seq(Lines) /\ Among(dialog'.text, m)
    BY <1>1, <1>4, <2>1, <2>2, ChunkAmong
  <2>4. m \in 0..Len(log) /\ to <= m /\ n <= m BY <1>4
  <2> HIDE DEF m
  <2> QED BY <2>3, <2>4
<1>8. PICK m \in 0..Len(log) : to <= m /\ n <= m /\ Among(dialog'.text, m)
  BY <1>7
<1>9. dialog' \in Dialog(Seq(Lines))
  <2>1. to \in 0..(Chunks + 1) BY <1>0, <1>4 DEF TypedDialog
  <2>2. dialog' = [dialog EXCEPT !.text = dialog'.text, !.offset = to,
                                 !.step = dialog'.step]
        /\ dialog'.step \in {"polling", "again", "ended"}
    BY <1>0 DEF ShowChunk, Dialog, TypedDialog, to
  <2> QED BY <1>0, <1>7, <2>1, <2>2 DEF Dialog, TypedDialog
<1>10. Watching'
  <2>1. Shows(m)' BY <1>2, <1>8 DEF Shows, Among
  <2>2. \A g \in Open' : fetch'[g].from <= m
    BY <1>1, <1>4, <1>5, <1>8, DialogTyped DEF Open, TypedFetch
  <2>3. \A g \in Fetches : fetch'[g].step = "answered" =>
          fetch'[g].from <= fetch'[g].to /\ fetch'[g].to <= Len(log)
    BY <1>5 DEF LogInv, Watching
  <2>4. m \in 0..Len(log') /\ dialog'.offset <= m BY <1>2, <1>6, <1>8
  <2> QED BY <1>2, <2>1, <2>2, <2>3, <2>4 DEF Watching
<1>11. Serial'
  <2> SUFFICES ASSUME ~dialog.overlapped
               PROVE  /\ Beginning(dialog.text)'
                      /\ dialog'.offset = Len(dialog'.text)
                      /\ Open' = {}
    BY <1>6 DEF Serial
  <2>1. /\ Beginning(dialog.text) /\ dialog.offset = Len(dialog.text)
        /\ from = dialog.offset /\ Open = {f}
    BY <1>3 DEF LogInv, Serial, from
  <2>2. /\ Len(dialog'.text) = to
        /\ Beginning(dialog'.text)
    <3>1. to \in Len(dialog.text)..Len(log) BY <1>4, <2>1
    <3>2. chunk = SubSeq(log, Len(dialog.text) + 1, to) BY <2>1 DEF chunk
    <3> QED BY <1>4, <1>6, <2>1, <3>1, <3>2, ChunkBehind
  <2> QED BY <1>2, <1>5, <1>6, <2>1, <2>2 DEF Beginning
<1> QED BY <1>2, <1>5, <1>9, <1>10, <1>11, DialogAlone DEF LogInv

(* A fetch that fails is forgotten.                                        *)
LEMMA FailKeeps ==
  ASSUME LogInv, NEW f \in Fetches, FetchFails(f) PROVE LogInv'
<1>0. TypedDialog /\ TypedFetch(f) BY DialogTyped
<1>1. UNCHANGED <<log, run, stream>> BY DEF FetchFails
<1>2. /\ fetch' \in [Fetches -> Fetched]
      /\ fetch'[f].step = "none"
      /\ \A g \in Fetches : g # f => fetch'[g] = fetch[g]
      /\ Open' = Open \ {f}
  BY FetchClosed DEF FetchFails
<1>3. /\ dialog'.text = dialog.text /\ dialog'.offset = dialog.offset
      /\ dialog'.overlapped = dialog.overlapped
      /\ dialog' \in Dialog(Seq(Lines))
  <2>1. dialog.mishaps + 1 \in 0..MaxMishaps
    BY <1>0, LogAssumption DEF FetchFails, TypedDialog, Dialog
  <2>2. dialog' = [dialog EXCEPT !.mishaps = dialog.mishaps + 1]
    BY DEF FetchFails
  <2> QED BY <1>0, <2>1, <2>2 DEF TypedDialog, Dialog
<1>4. Watching'
  <2>1. PICK n \in 0..Len(log) :
          Shows(n) /\ dialog.offset <= n /\ \A g \in Open : fetch[g].from <= n
    BY DEF LogInv, Watching
  <2>2. Shows(n)' BY <1>1, <1>3, <2>1 DEF Shows, Among
  <2>3. \A g \in Open' : fetch'[g].from <= n BY <1>2, <2>1 DEF Open
  <2>4. \A g \in Fetches : fetch'[g].step = "answered" =>
          fetch'[g].from <= fetch'[g].to /\ fetch'[g].to <= Len(log)
    BY <1>2 DEF LogInv, Watching
  <2> QED BY <1>1, <1>3, <2>1, <2>2, <2>3, <2>4 DEF Watching
<1>5. Serial'
  <2> SUFFICES ASSUME ~dialog.overlapped
               PROVE  /\ Beginning(dialog.text)'
                      /\ dialog'.offset = Len(dialog'.text)
                      /\ Open' = {}
    BY <1>3 DEF Serial
  <2>1. f \in Open BY DEF FetchFails
  <2> QED BY <1>1, <1>2, <1>3, <2>1 DEF LogInv, Serial, Beginning
<1> QED BY <1>1, <1>2, <1>3, <1>4, <1>5, DialogAlone DEF LogInv

-----------------------------------------------------------------------------
(* Every step keeps the invariant.                                         *)
LEMMA LogInvNext == ASSUME LogInv, [LogNext]_logVars PROVE LogInv'
<1> USE DEF LogInv
<1>0. IsFiniteSet(inFlight) /\ Cardinality(inFlight) \in Nat
  BY InFlightFinite
<1>1. CASE SendLog
  <2>1. producer.sent \in 0..Chunks /\ producer.sent < Chunks
    BY <1>1 DEF Typed, SendLog
  <2>2. producer' = [step |-> "waiting", sent |-> producer.sent + 1]
    BY <1>1 DEF SendLog
  <2>3. Typed'
    <3>1. producer.sent + 1 \in 1..Chunks BY <2>1, LogAssumption
    <3>2. producer' \in [step : {"printing", "waiting", "finishing", "done"},
                         sent : 0..Chunks]
      BY <2>2, <3>1
    <3>3. inFlight' \subseteq Printed
      BY <1>1, <3>1 DEF Typed, SendLog, Printed
    <3> QED BY <1>1, <3>2, <3>3 DEF Typed, SendLog, follower, stream, window
  <2>4. producer.sent + 1 \notin inFlight BY <2>1 DEF Accounted
  <2>5. Cardinality(inFlight') = Cardinality(inFlight) + 1
    BY <1>0, <1>1, <2>4, FS_AddElement DEF SendLog
  <2>6. Accounted'
    <3>1. inFlight' \subseteq 1..producer'.sent
      <4>1. inFlight \subseteq 1..producer.sent BY DEF Accounted
      <4>2. inFlight' = inFlight \cup {producer.sent + 1} BY <1>1 DEF SendLog
      <4>3. producer'.sent = producer.sent + 1 BY <2>2
      <4>4. 1..producer'.sent = 1..producer.sent \cup {producer.sent + 1}
        BY <2>1, <4>3
      <4> QED BY <4>1, <4>2, <4>4
    <3>2. Len(log) \in Nat BY DEF Typed
    <3> QED BY <1>0, <1>1, <2>1, <2>2, <2>5, <3>1, <3>2 DEF Accounted, SendLog
  <2>7. Following'
    BY <1>1, FollowingKept DEF SendLog, follower, Settled
  <2> QED BY <1>1, <2>3, <2>6, <2>7, WatchingKept DEF SendLog, follower
<1>2. ASSUME NEW c \in inFlight, AppendLog(c) PROVE LogInv'
  <2>1. c \in Lines BY DEF Typed, Lines
  <2>2. ~Settled BY DEF Settled
  <2>3. /\ log' \in Seq(Lines)
        /\ Len(log') = Len(log) + 1
        /\ Following' /\ Watching' /\ Serial'
    BY <1>2, <2>1, <2>2, LineAdded DEF AppendLog
  <2>4. producer' \in [step : {"printing", "waiting", "finishing", "done"},
                       sent : 0..Chunks]
        /\ producer'.sent = producer.sent
    BY <1>2 DEF AppendLog, Answered, Typed
  <2>5. Typed'
    BY <1>2, <2>3, <2>4 DEF Typed, AppendLog, follower, stream, window
  <2>6. Cardinality(inFlight') = Cardinality(inFlight) - 1
    BY <1>0, <1>2, FS_RemoveElement DEF AppendLog
  <2>7. Accounted'
    <3>1. Len(log) \in Nat /\ producer.sent \in 0..Chunks BY DEF Typed
    <3> QED BY <1>0, <1>2, <2>3, <2>4, <2>6, <3>1 DEF Accounted, AppendLog
  <2> QED BY <2>3, <2>5, <2>7
<1>3. ASSUME NEW c \in inFlight, PostLost(c) PROVE LogInv'
  <2>1. producer' \in [step : {"printing", "waiting", "finishing", "done"},
                       sent : 0..Chunks]
        /\ producer'.sent = producer.sent
        /\ (producer.step = "done" => producer' = producer)
    BY <1>3 DEF PostLost, Answered, Typed
  <2>2. Typed' BY <1>3, <2>1 DEF Typed, PostLost, follower, stream, window
  <2>3. Cardinality(inFlight') = Cardinality(inFlight) - 1
    BY <1>0, <1>3, FS_RemoveElement DEF PostLost
  <2>4. Accounted'
    <3>1. Len(log) \in Nat /\ producer.sent \in 0..Chunks BY DEF Typed
    <3> QED BY <1>0, <1>3, <2>1, <2>3, <3>1 DEF Accounted, PostLost
  <2>5. Following'
    BY <1>3, FollowingKept DEF PostLost, follower, Settled
  <2> QED BY <1>3, <2>2, <2>4, <2>5, WatchingKept DEF PostLost, follower
<1>4. CASE PostTimesOut \/ OutputEnds \/ FinishExecution
  <2>1. producer' \in [step : {"printing", "waiting", "finishing", "done"},
                       sent : 0..Chunks]
        /\ producer'.sent = producer.sent
        /\ producer.step # "done"
    BY <1>4 DEF PostTimesOut, OutputEnds, FinishExecution, Typed
  <2>2. over' \in BOOLEAN /\ (over => over')
    BY <1>4 DEF PostTimesOut, OutputEnds, FinishExecution, Typed
  <2>3. UNCHANGED <<log, inFlight, note, follower>>
    BY <1>4 DEF PostTimesOut, OutputEnds, FinishExecution
  <2>4. Typed' BY <2>1, <2>2, <2>3 DEF Typed, follower, stream, window
  <2>5. Accounted' BY <2>1, <2>2, <2>3 DEF Accounted
  <2>6. Following'
    BY <2>1, <2>3, FollowingKept DEF follower, Settled
  <2> QED BY <2>3, <2>4, <2>5, <2>6, WatchingKept DEF follower
<1>5. CASE EndByServer
  <2>1. Typed' BY <1>5 DEF Typed, EndByServer, follower, stream, window
  <2>2. Accounted' BY <1>5 DEF Accounted, EndByServer, Typed
  <2>3. Following'
    BY <1>5, FollowingKept DEF EndByServer, follower, Settled
  <2> QED BY <1>5, <2>1, <2>2, <2>3, WatchingKept DEF EndByServer, follower
<1>6. CASE WriteNote
  <2>1. 0 \in Lines /\ ~Settled BY <1>6 DEF WriteNote, Settled, Lines
  <2>2. /\ log' \in Seq(Lines)
        /\ Len(log') = Len(log) + 1
        /\ Following' /\ Watching' /\ Serial'
    BY <1>6, <2>1, LineAdded DEF WriteNote
  <2>3. Typed' BY <1>6, <2>2 DEF Typed, WriteNote, follower, stream, window
  <2>4. Accounted'
    <3>1. Len(log) \in Nat /\ producer.sent \in 0..Chunks BY DEF Typed
    <3> QED BY <1>0, <1>6, <2>2, <3>1 DEF Accounted, WriteNote
  <2> QED BY <2>2, <2>3, <2>4
<1>7. CASE AskSize BY <1>7, AskKeeps
<1>8. CASE StreamReads
  <2> DEFINE empty == EmptyReads(ChunkRead)
             ends == /\ ChunkRead = <<>>
                     /\ Complete \/ (over /\ empty = MaxEmpty)
  <2>1. empty \in 0..MaxEmpty
    <3>1. reader.empty \in 0..MaxEmpty BY DEF Typed, Reader
    <3> QED BY <3>1, LogAssumption DEF EmptyReads, LesserOf
  <2>2. ends \in BOOLEAN /\ (ends => ChunkRead = <<>>) OBVIOUS
  <2>3. /\ reader.step = "status"
        /\ Received(ChunkRead, empty, ends)
        /\ UNCHANGED <<log, run, window>>
    BY <1>8 DEF StreamReads
  <2> HIDE DEF empty, ends
  <2> QED BY <2>1, <2>2, <2>3, ReadKeeps
<1>9. ASSUME NEW f \in Fetches,
             \/ FetchChunk(f) \/ FetchSize(f) \/ AnswerFetch(f) \/ ShowChunk(f)
             \/ Refresh(f) \/ FetchFails(f)
      PROVE  LogInv'
  <2>1. dialog.step \in {"polling", "again", "ended"} BY DEF Typed, Dialog
  <2>2. CASE FetchChunk(f)
    <3> DEFINE step == IF dialog.step = "again" THEN "ended" ELSE "polling"
    <3>1. step \in {"polling", "again", "ended"} OBVIOUS
    <3>2. Begin(f, step) BY <2>2 DEF FetchChunk
    <3> HIDE DEF step
    <3> QED BY <3>1, <3>2, FetchBeginKeeps
  <2>3. CASE Refresh(f) BY <2>1, <2>3, FetchBeginKeeps DEF Refresh
  <2> QED BY <1>9, <2>2, <2>3, AnswerKeeps, ShowKeeps, FailKeeps
<1>10. CASE UNCHANGED logVars
  <2>1. Typed' BY <1>10 DEF Typed, logVars
  <2>2. Accounted' BY <1>10 DEF Accounted, logVars
  <2>3. Following' BY <1>10, FollowingKept DEF logVars, stream, Settled
  <2>4. Watching' /\ Serial'
    BY <1>10, WatchingKept DEF logVars, window
  <2> QED BY <2>1, <2>2, <2>3, <2>4
<1> QED
  BY <1>1, <1>2, <1>3, <1>4, <1>5, <1>6, <1>7, <1>8, <1>9, <1>10
  DEF LogNext, ProducerStep, ServerStep, ReaderStep

-----------------------------------------------------------------------------
(* Every reachable state is well typed and satisfies the invariant.        *)
THEOREM LogInvariant == LogSpec => []LogInv
<1>1. LogInit => LogInv BY LogInvInit
<1>2. LogInv /\ [LogNext]_logVars => LogInv' BY LogInvNext
<1> QED BY <1>1, <1>2, PTL DEF LogSpec

(* The file is never longer than what was posted and the server's note.    *)
THEOREM LogWellTyped == LogSpec => []LogTypeOK
<1>1. LogInv => LogTypeOK BY LogInvTypes
<1> QED BY <1>1, LogInvariant, PTL

(* What a reader holds is a beginning of the log, whatever the sizes of    *)
(* the reads and whenever the file grows between a question and its        *)
(* answer: a stream's always, a dialog's until two of its fetches overlap. *)
THEOREM LogPrefixHeld == LogSpec => []ReaderHoldsPrefix
<1>1. LogInv => ReaderHoldsPrefix
  BY DEF LogInv, Following, Serial, ReaderHoldsPrefix
<1> QED BY <1>1, LogInvariant, PTL

(* A dialog shows every line before any line it shows, however its fetches *)
(* overlap, fail and are answered out of order.                            *)
THEOREM LogShowsNoGap == LogSpec => []ShowsNoGap
<1>1. LogInv => ShowsNoGap BY DEF LogInv, Watching, Shows, Among, ShowsNoGap
<1> QED BY <1>1, LogInvariant, PTL

(* A stream that ends as complete, after the run had settled, has it all.  *)
THEOREM LogCompleteIsWhole == LogSpec => []CompleteStreamIsWhole
<1>1. LogInv => CompleteStreamIsWhole BY DEF LogInv, Following
<1> QED BY <1>1, LogInvariant, PTL
=============================================================================
