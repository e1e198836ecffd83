---------------------------- MODULE RsdClientsProofs ----------------------------
(***************************************************************************)
(* Theorems about RsdClients, for any number of threads, client objects    *)
(* and credentials, any size of the cache and any mix of operations.       *)
(*                                                                         *)
(*   RsdTypes          the type invariant                                  *)
(*   CacheHandsOut     what the cache hands out can be used                *)
(*   ClientsAreClosed  no open client is forgotten                         *)
(*   CallsGoOn         nobody closes a client during a call                *)
(*   VerifiedIsProven  verified means tested, unless updates overlapped    *)
(***************************************************************************)
EXTENDS RsdClients, SequenceTheorems, TLAPS

EntryTypes  == [client : Clients, cred : Creds, old : BOOLEAN]
ClientTypes == [open : BOOLEAN, retired : BOOLEAN, lock : Threads \cup {None}]
CallNames   == {"pull", "start", "wait", "pdf", "status"}
ReqTypes ==
  [at : Steps, op : Operations, calls : Seq(CallNames),
   loaded : Configs, new : Configs, mine : Clients \cup {None},
   closing : SUBSET Clients, left : 1..Tries,
   result : {"none", "ok", "down", "auth", "retired"},
   count : Nat, owner : Owners, stored : Owners]

\* The variables that are neither clients nor requests.
TypeShared ==
  /\ config \in Configs /\ rowLock \in Threads \cup {None}
  /\ cacheLock \in Threads \cup {None}
  /\ proofs \subseteq Creds /\ accepted \subseteq Creds /\ raced \in BOOLEAN
  /\ dossier \in [known : BOOLEAN, row : {"none", "processing", "done", "failed"},
                   falhas : 0..TransientMax, failures : 0..TransientMax, overlapped : BOOLEAN]
  /\ vehicle \in [atual : Owners, anterior : Owners \cup {None}, portal : Owners]
  /\ offered \in Mixes

-----------------------------------------------------------------------------
(* The inductive invariant. *)

ClientsOf(s) == {s[n].client : n \in 1..Len(s)}

\* An entry for each credential, and a client of its own in each.
Distinct(s) ==
  \A m, n \in 1..Len(s) : m # n => s[m].cred # s[n].cred /\ s[m].client # s[n].client

Writers == {"save", "revoke"}
Callers == {"pull", "start", "poll", "pdf", "update"}

\* What a request q carries at each place.
Carries(q) ==
  /\ q.at = "idle" => q.mine = None
  /\ q.at # "idle" /\ q.op \in Writers =>
       q.at \in {"flush", "clear", "close", "commit"} /\ q.mine = None
  /\ q.at # "idle" /\ q.op = "test" =>
       /\ q.at \in {"http", "read_row", "write_row", "history"}
       /\ q.mine = None /\ q.loaded.cred \in Creds
  /\ q.at # "idle" /\ q.op \in Callers =>
       /\ q.at \notin {"flush", "clear", "commit"} /\ q.loaded.cred \in Creds
       /\ q.mine = None <=> q.at = "lock"
       /\ q.at \in {"lock", "close", "call", "http"} => q.calls # <<>>
  /\ q.at = "close" => q.closing # {}
  /\ q.closing # {} => q.at \in {"lock", "clear", "close"}
  /\ q.mine \notin q.closing

CacheSound ==
  /\ Len(cache) <= CacheSize
  /\ Distinct(cache)
  /\ \A c \in ClientsOf(cache) : client[c].open /\ ~client[c].retired

\* A client that left the cache is retired for as long as anyone refers to it,
\* and it was the cache or a request that opened it.
Referenced(q) ==
  /\ \A c \in q.closing : client[c].retired /\ c \notin ClientsOf(cache)
  /\ q.mine # None => client[q.mine].retired \/ q.mine \in ClientsOf(cache)

Reachable ==
  \A c \in Clients : client[c].open =>
    c \in ClientsOf(cache) \/ \E r \in Threads : c \in req[r].closing

\* The lock of a client is held by the request that calls the portal with it.
Locked ==
  \A c \in Clients : client[c].lock # None =>
    /\ client[c].open /\ ~client[c].retired
    /\ req[client[c].lock].at = "http" /\ req[client[c].lock].op # "test"
    /\ req[client[c].lock].mine = c

\* A row that shows a status nobody has earned.
Earned(row) == row.status = "verified" /\ row.cred # None => row.cred \in accepted \/ raced

\* A request that is about to write "verified" has a test that passed.
Entitled(q) ==
  /\ q.at \in {"clear", "close", "commit"} /\ q.op \in Writers => Earned(q.new)
  /\ q.at \in {"read_row", "write_row"} /\ q.result = "ok" => q.op = "test"
  /\ q.at \in {"read_row", "write_row", "history"} /\ q.op = "test" /\ q.result = "ok" =>
       q.loaded.cred \in accepted
  /\ q.at = "write_row" => q.new.cred = q.loaded.cred

Proven == Earned(config) /\ proofs \subseteq accepted

IInv ==
  /\ TypeRsd /\ CacheSound /\ Reachable /\ Locked /\ Proven
  /\ \A r \in Threads : Carries(req[r]) /\ Referenced(req[r]) /\ Entitled(req[r])

-----------------------------------------------------------------------------
(* Sequences of entries. *)

LEMMA Removed ==
  ASSUME NEW S, NEW s \in Seq(S), NEW n \in 1..Len(s)
  PROVE  /\ RemoveAt(s, n) \in Seq(S) /\ Len(RemoveAt(s, n)) = Len(s) - 1
         /\ \A i \in 1..(Len(s) - 1) :
              RemoveAt(s, n)[i] = IF i < n THEN s[i] ELSE s[i + 1]
<1> DEFINE a == SubSeq(s, 1, n - 1)
           b == SubSeq(s, n + 1, Len(s))
<1>1. Len(s) \in Nat /\ n \in Nat
  BY LenProperties
<1>2. a \in Seq(S) /\ Len(a) = n - 1 /\ \A i \in 1..(n - 1) : a[i] = s[i]
  <2>1. CASE n = 1
    BY <1>1, <2>1, SubSeqEmpty, SubSeqProperties
  <2>2. CASE n # 1
    BY <1>1, <2>2, SubSeqProperties
  <2> QED BY <2>1, <2>2
<1>3. b \in Seq(S) /\ Len(b) = Len(s) - n /\ \A i \in 1..(Len(s) - n) : b[i] = s[n + i]
  <2>1. CASE n = Len(s)
    BY <1>1, <2>1, SubSeqEmpty, SubSeqProperties
  <2>2. CASE n # Len(s)
    BY <1>1, <2>2, SubSeqProperties
  <2> QED BY <2>1, <2>2
<1>4. RemoveAt(s, n) = a \o b
  BY DEF RemoveAt
<1> HIDE DEF a, b
<1>5. /\ a \o b \in Seq(S) /\ Len(a \o b) = Len(s) - 1
      /\ \A i \in 1..(Len(s) - 1) : (a \o b)[i] = IF i <= n - 1 THEN a[i] ELSE b[i - (n - 1)]
  <2>1. /\ a \o b \in Seq(S) /\ Len(a \o b) = Len(a) + Len(b)
        /\ \A i \in 1..(Len(a) + Len(b)) :
             (a \o b)[i] = IF i <= Len(a) THEN a[i] ELSE b[i - Len(a)]
    BY <1>2, <1>3, ConcatProperties
  <2>2. Len(a) = n - 1 /\ Len(a) + Len(b) = Len(s) - 1
    BY <1>1, <1>2, <1>3
  <2> QED BY <2>1, <2>2
<1>6. ASSUME NEW i \in 1..(Len(s) - 1)
      PROVE  (a \o b)[i] = IF i < n THEN s[i] ELSE s[i + 1]
  <2>1. CASE i < n
    BY <1>1, <1>2, <1>5, <2>1
  <2>2. CASE ~(i < n)
    <3>1. i - (n - 1) \in 1..(Len(s) - n) /\ n + (i - (n - 1)) = i + 1
      BY <1>1, <2>2
    <3> QED BY <1>1, <1>3, <1>5, <2>2, <3>1
  <2> QED BY <2>1, <2>2
<1> QED BY <1>4, <1>5, <1>6

\* An entry that leaves takes its client along.
LEMMA RemovedEntry ==
  ASSUME NEW s \in Seq(EntryTypes), Distinct(s), NEW n \in 1..Len(s)
  PROVE  /\ RemoveAt(s, n) \in Seq(EntryTypes) /\ Len(RemoveAt(s, n)) = Len(s) - 1
         /\ Distinct(RemoveAt(s, n))
         /\ ClientsOf(RemoveAt(s, n)) = ClientsOf(s) \ {s[n].client}
         /\ \A i \in 1..Len(RemoveAt(s, n)) : RemoveAt(s, n)[i].cred # s[n].cred
<1> DEFINE t == RemoveAt(s, n)
           p(i) == IF i < n THEN i ELSE i + 1
<1>1. /\ t \in Seq(EntryTypes) /\ Len(t) = Len(s) - 1 /\ Len(s) \in Nat
      /\ \A i \in 1..(Len(s) - 1) : t[i] = IF i < n THEN s[i] ELSE s[i + 1]
  BY Removed, LenProperties
<1>2. ASSUME NEW i \in 1..Len(t)
      PROVE  p(i) \in 1..Len(s) /\ p(i) # n /\ t[i] = s[p(i)]
  BY <1>1
<1>3. ASSUME NEW i \in 1..Len(t), NEW j \in 1..Len(t), i # j
      PROVE  p(i) # p(j)
  BY <1>1, <1>3
<1>4. ASSUME NEW m \in 1..Len(s), m # n
      PROVE  \E i \in 1..Len(t) : p(i) = m
  <2>1. CASE m < n
    BY <1>1, <2>1
  <2>2. CASE m > n
    <3>1. m - 1 \in 1..Len(t) /\ p(m - 1) = m
      BY <1>1, <2>2
    <3> QED BY <3>1
  <2> QED BY <1>1, <1>4, <2>1, <2>2
<1> HIDE DEF t, p
<1>5. Distinct(t)
  BY <1>2, <1>3 DEF Distinct
<1>6. ClientsOf(t) = ClientsOf(s) \ {s[n].client}
  <2>1. ASSUME NEW c \in ClientsOf(t) PROVE c \in ClientsOf(s) \ {s[n].client}
    BY <1>2, <2>1 DEF ClientsOf, Distinct
  <2>2. ASSUME NEW c \in ClientsOf(s), c # s[n].client PROVE c \in ClientsOf(t)
    <3>1. PICK m \in 1..Len(s) : c = s[m].client
      BY DEF ClientsOf
    <3>2. PICK i \in 1..Len(t) : p(i) = m
      BY <1>4, <2>2, <3>1
    <3> QED BY <1>2, <3>1, <3>2 DEF ClientsOf
  <2> QED BY <2>1, <2>2
<1>7. \A i \in 1..Len(t) : t[i].cred # s[n].cred
  BY <1>2 DEF Distinct
<1> QED BY <1>1, <1>5, <1>6, <1>7 DEF t

LEMMA AppendedEntry ==
  ASSUME NEW s \in Seq(EntryTypes), Distinct(s), NEW e \in EntryTypes,
         e.client \notin ClientsOf(s),
         \A i \in 1..Len(s) : s[i].cred # e.cred
  PROVE  /\ Append(s, e) \in Seq(EntryTypes) /\ Len(Append(s, e)) = Len(s) + 1
         /\ Distinct(Append(s, e))
         /\ ClientsOf(Append(s, e)) = ClientsOf(s) \cup {e.client}
<1> DEFINE t == Append(s, e)
<1>1. /\ t \in Seq(EntryTypes) /\ Len(t) = Len(s) + 1 /\ Len(s) \in Nat
      /\ \A i \in 1..Len(s) : t[i] = s[i]
      /\ t[Len(s) + 1] = e
  BY AppendProperties, LenProperties
<1> HIDE DEF t
<1>2. \A i \in 1..Len(t) : i \in 1..Len(s) \/ i = Len(s) + 1
  BY <1>1
<1>3. Distinct(t)
  <2> SUFFICES ASSUME NEW m \in 1..Len(t), NEW n \in 1..Len(t), m # n
               PROVE  t[m].cred # t[n].cred /\ t[m].client # t[n].client
    BY DEF Distinct
  <2>1. CASE m \in 1..Len(s) /\ n \in 1..Len(s)
    BY <1>1, <2>1 DEF Distinct
  <2>2. CASE m \in 1..Len(s) /\ n = Len(s) + 1
    BY <1>1, <2>2 DEF ClientsOf
  <2>3. CASE m = Len(s) + 1 /\ n \in 1..Len(s)
    BY <1>1, <2>3 DEF ClientsOf
  <2> QED BY <1>2, <2>1, <2>2, <2>3
<1>4. ClientsOf(t) = ClientsOf(s) \cup {e.client}
  <2>1. ASSUME NEW c \in ClientsOf(t) PROVE c \in ClientsOf(s) \cup {e.client}
    BY <1>1, <1>2, <2>1 DEF ClientsOf
  <2>2. ASSUME NEW c \in ClientsOf(s) PROVE c \in ClientsOf(t)
    BY <1>1, <2>2 DEF ClientsOf
  <2>3. e.client \in ClientsOf(t)
    BY <1>1 DEF ClientsOf
  <2> QED BY <2>1, <2>2, <2>3
<1> QED BY <1>1, <1>3, <1>4 DEF t

-----------------------------------------------------------------------------
(* Types, in parts. *)

LEMMA Typed ==
  ASSUME TypeRsd
  PROVE  /\ TypeShared /\ client \in [Clients -> ClientTypes]
         /\ cache \in Seq(EntryTypes) /\ req \in [Threads -> ReqTypes]
BY DEF TypeRsd, TypeShared, ClientTypes, EntryTypes, ReqTypes, CallNames

LEMMA TypedAfter ==
  ASSUME TypeShared', client' \in [Clients -> ClientTypes],
         cache' \in Seq(EntryTypes), req' \in [Threads -> ReqTypes]
  PROVE  TypeRsd'
BY DEF TypeRsd, TypeShared, ClientTypes, EntryTypes, ReqTypes, CallNames

LEMMA Words ==
  /\ NoRow \in Configs /\ NoRow.cred = None /\ NoRow.status = "saved_unverified"
  /\ Fresh \in ClientTypes /\ ~Fresh.open /\ ~Fresh.retired /\ Fresh.lock = None
  /\ \A c \in Clients : c # None
  /\ \A r \in Threads : r # None
  /\ \A c \in Creds : c # None
  /\ CacheSize \in Nat /\ CacheSize > 0 /\ TransientMax \in Nat
  /\ Tries \in Nat /\ Tries > 0
BY RsdAssumption DEF NoRow, Fresh, Configs, Statuses, ClientTypes

LEMMA IdleTypes ==
  ASSUME NEW row \in Configs
  PROVE  /\ Idle(row) \in ReqTypes
         /\ Idle(row).at = "idle" /\ Idle(row).mine = None /\ Idle(row).closing = {}
         /\ Idle(row).loaded = row /\ Idle(row).new = row /\ Idle(row).result = "none"
         /\ Idle(row).op = "pull"
<1>1. <<>> \in Seq(CallNames) /\ 0 \in Owners /\ Tries \in 1..Tries
  BY RsdAssumption, EmptySeq DEF Owners
<1> QED BY <1>1 DEF Idle, ReqTypes, Steps, Operations

LEMMA Entries ==
  ASSUME NEW s \in Seq(EntryTypes)
  PROVE  /\ Len(s) \in Nat /\ ClientsOf(s) \subseteq Clients
         /\ \A n \in 1..Len(s) : s[n] \in EntryTypes /\ s[n].client \in ClientsOf(s)
<1>1. Len(s) \in Nat /\ \A n \in 1..Len(s) : s[n] \in EntryTypes
  BY LenProperties, ElementOfSeq
<1> QED BY <1>1 DEF ClientsOf, EntryTypes

\* A request that goes on to another place, and what it keeps.
LEMMA SetAt ==
  ASSUME NEW q \in ReqTypes, NEW s \in Steps
  PROVE  LET k == [q EXCEPT !.at = s] IN
         /\ k \in ReqTypes /\ k.at = s /\ k.op = q.op /\ k.calls = q.calls
         /\ k.loaded = q.loaded /\ k.new = q.new /\ k.mine = q.mine /\ k.closing = q.closing
         /\ k.left = q.left /\ k.result = q.result /\ k.count = q.count
         /\ k.owner = q.owner /\ k.stored = q.stored
BY DEF ReqTypes

\* A request that only goes on to another place.
LEMMA Goings ==
  ASSUME req \in [Threads -> ReqTypes], NEW r \in Threads, NEW s \in Steps, Goes(r, s)
  PROVE  \E k \in ReqTypes :
           /\ req' = [req EXCEPT ![r] = k]
           /\ k.at = s /\ k.op = req[r].op /\ k.mine = req[r].mine /\ k.result = req[r].result
           /\ k.closing = req[r].closing /\ k.loaded = req[r].loaded /\ k.new = req[r].new
<1>1. PICK k \in ReqTypes : k = [req[r] EXCEPT !.at = s]
  BY SetAt
<1>2. req' = [req EXCEPT ![r] = k]
  BY <1>1 DEF Goes
<1>3. req[r] \in ReqTypes
  OBVIOUS
<1>4. /\ k.at = s /\ k.op = req[r].op /\ k.mine = req[r].mine /\ k.result = req[r].result
      /\ k.closing = req[r].closing /\ k.loaded = req[r].loaded /\ k.new = req[r].new
  BY <1>1, <1>3 DEF ReqTypes
<1> QED BY <1>2, <1>4

-----------------------------------------------------------------------------
(* Steps of a request that is not in a call, and leaves the cache alone. *)

LEMMA Moves ==
  ASSUME IInv, NEW r \in Threads, NEW k \in ReqTypes,
         req' = [req EXCEPT ![r] = k], UNCHANGED <<cache, client>>, TypeShared',
         Carries(k), k.mine = req[r].mine, k.closing = req[r].closing,
         req[r].at = "http" => req[r].op = "test",
         Entitled(k)', Proven', accepted \subseteq accepted', raced => raced'
  PROVE  IInv'
<1>1. /\ req \in [Threads -> ReqTypes] /\ client \in [Clients -> ClientTypes]
      /\ cache \in Seq(EntryTypes)
  BY Typed DEF IInv
<1>2. req' \in [Threads -> ReqTypes] /\ req'[r] = k
      /\ \A q \in Threads : q # r => req'[q] = req[q]
  BY <1>1
<1>3. TypeRsd'
  BY <1>1, <1>2, TypedAfter
<1>4. CacheSound'
  BY DEF IInv, CacheSound, Distinct, ClientsOf
<1>5. Reachable'
  <2> SUFFICES ASSUME NEW c \in Clients, client[c].open, c \notin ClientsOf(cache)
               PROVE  \E q \in Threads : c \in req'[q].closing
    BY DEF Reachable, ClientsOf
  <2>1. PICK q \in Threads : c \in req[q].closing
    BY DEF IInv, Reachable
  <2> QED BY <1>2, <2>1
<1>6. Locked'
  <2> SUFFICES ASSUME NEW c \in Clients, client[c].lock # None
               PROVE  /\ client[c].open /\ ~client[c].retired
                      /\ req'[client[c].lock].at = "http" /\ req'[client[c].lock].op # "test"
                      /\ req'[client[c].lock].mine = c
    BY DEF Locked
  <2>1. client[c].lock \in Threads
    BY <1>1 DEF ClientTypes
  <2>2. client[c].lock # r
    BY DEF IInv, Locked
  <2> QED BY <1>2, <2>1, <2>2 DEF IInv, Locked
<1>7. ASSUME NEW q \in Threads
      PROVE  Carries(req[q])' /\ Referenced(req[q])' /\ Entitled(req[q])'
  <2>1. CASE q = r
    <3>1. Referenced(req[r])
      BY DEF IInv
    <3>2. Referenced(req[r])'
      BY <1>2, <3>1 DEF Referenced, ClientsOf
    <3>3. Carries(req[r])'
      BY <1>2 DEF Carries
    <3>4. Entitled(req[r])'
      BY <1>2 DEF Entitled, Earned
    <3> QED BY <2>1, <3>2, <3>3, <3>4
  <2>2. CASE q # r
    <3>1. Carries(req[q]) /\ Referenced(req[q]) /\ Entitled(req[q]) /\ req'[q] = req[q]
      BY <1>2, <2>2 DEF IInv
    <3>2. Carries(req[q])' /\ Referenced(req[q])'
      BY <3>1 DEF Carries, Referenced, ClientsOf
    <3>3. Entitled(req[q])'
      BY <3>1 DEF Entitled, Earned
    <3> QED BY <3>2, <3>3
  <2> QED BY <2>1, <2>2
<1> QED BY <1>3, <1>4, <1>5, <1>6, <1>7 DEF IInv

\* A step of a request with its own client, which stays open, or is opened
\* while it is cached, and stays retired or not.
LEMMA PortalMoves ==
  ASSUME IInv, NEW r \in Threads, NEW k \in ReqTypes, NEW c \in Clients, NEW d \in ClientTypes,
         req' = [req EXCEPT ![r] = k], client' = [client EXCEPT ![c] = d],
         UNCHANGED <<cache, config, proofs, accepted, raced>>, TypeShared',
         req[r].mine = c, k.mine = c, k.closing = req[r].closing,
         Carries(k), Entitled(k),
         d.retired = client[c].retired, client[c].open => d.open,
         d.open => client[c].open \/ c \in ClientsOf(cache),
         d.lock # None => d.lock = r /\ d.open /\ ~d.retired /\ k.at = "http" /\ k.op # "test"
  PROVE  IInv'
<1>1. /\ req \in [Threads -> ReqTypes] /\ client \in [Clients -> ClientTypes]
      /\ cache \in Seq(EntryTypes)
  BY Typed DEF IInv
<1>2. /\ req' \in [Threads -> ReqTypes] /\ req'[r] = k
      /\ \A q \in Threads : q # r => req'[q] = req[q]
  BY <1>1
<1>3. /\ client' \in [Clients -> ClientTypes] /\ client'[c] = d
      /\ \A e \in Clients : e # c => client'[e] = client[e]
      /\ \A e \in Clients : /\ client'[e].retired = client[e].retired
                            /\ client[e].open => client'[e].open
                            /\ client'[e].open => client[e].open \/ e \in ClientsOf(cache)
  BY <1>1
<1>4. TypeRsd'
  BY <1>1, <1>2, <1>3, TypedAfter
<1>5. ClientsOf(cache) \subseteq Clients
  BY <1>1, Entries
<1>6. CacheSound'
  BY <1>3, <1>5 DEF IInv, CacheSound, Distinct, ClientsOf
<1>7. Reachable'
  <2> SUFFICES ASSUME NEW e \in Clients, client'[e].open, e \notin ClientsOf(cache)
               PROVE  \E q \in Threads : e \in req'[q].closing
    BY DEF Reachable, ClientsOf
  <2>1. PICK q \in Threads : e \in req[q].closing
    BY <1>3 DEF IInv, Reachable
  <2> QED BY <1>2, <2>1
<1>8. Locked'
  <2> SUFFICES ASSUME NEW e \in Clients, client'[e].lock # None
               PROVE  /\ client'[e].open /\ ~client'[e].retired
                      /\ req'[client'[e].lock].at = "http"
                      /\ req'[client'[e].lock].op # "test"
                      /\ req'[client'[e].lock].mine = e
    BY DEF Locked
  <2>1. CASE e = c
    BY <1>2, <1>3, <2>1
  <2>2. CASE e # c
    <3>1. client'[e] = client[e] /\ client[e].lock \in Threads
      BY <1>1, <1>3, <2>2 DEF ClientTypes
    <3>2. client[e].lock # r
      BY <2>2, <3>1 DEF IInv, Locked
    <3> QED BY <1>2, <3>1, <3>2 DEF IInv, Locked
  <2> QED BY <2>1, <2>2
<1>9. ASSUME NEW q \in Threads
      PROVE  Carries(req[q])' /\ Referenced(req[q])' /\ Entitled(req[q])'
  <2>0. req[q].closing \subseteq Clients /\ req[q].mine \in Clients \cup {None}
    BY <1>1 DEF ReqTypes
  <2>1. /\ req'[q].closing = req[q].closing /\ req'[q].mine = req[q].mine
    BY <1>2
  <2>2. Referenced(req[q])
    BY DEF IInv
  <2>3. Referenced(req[q])'
    BY <1>3, <2>0, <2>1, <2>2 DEF Referenced, ClientsOf
  <2>4. CASE q = r
    BY <1>2, <2>3, <2>4 DEF Carries, Entitled, Earned
  <2>5. CASE q # r
    <3>1. Carries(req[q]) /\ Entitled(req[q]) /\ req'[q] = req[q]
      BY <1>2, <2>5 DEF IInv
    <3> QED BY <2>3, <3>1 DEF Carries, Entitled, Earned
  <2> QED BY <2>4, <2>5
<1>10. Proven'
  BY DEF IInv, Proven, Earned
<1> QED BY <1>4, <1>6, <1>7, <1>8, <1>9, <1>10 DEF IInv

\* The end of a request, and of a client that nobody else refers to.
LEMMA EndsKeep ==
  ASSUME IInv, NEW r \in Threads, Ends(r), req[r].at \in {"commit", "history", "add"},
         UNCHANGED cache, TypeShared', Proven', accepted \subseteq accepted', raced => raced'
  PROVE  IInv'
<1> DEFINE k == Idle(NoRow)
           gone == {c \in Clients : c = req[r].mine /\ c \in Unused(r)}
<1>1. /\ req \in [Threads -> ReqTypes] /\ client \in [Clients -> ClientTypes]
      /\ cache \in Seq(EntryTypes)
  BY Typed DEF IInv
<1>2. /\ k \in ReqTypes /\ k.at = "idle" /\ k.mine = None /\ k.closing = {}
  BY IdleTypes, Words
<1> HIDE DEF k
<1>3. /\ req' \in [Threads -> ReqTypes] /\ req'[r] = k
      /\ \A q \in Threads : q # r => req'[q] = req[q]
  BY <1>1, <1>2 DEF Ends, k
<1>4. /\ client' \in [Clients -> ClientTypes]
      /\ \A c \in gone : client'[c] = Fresh
      /\ \A c \in Clients : c \notin gone => client'[c] = client[c]
  BY <1>1, Words DEF Ends
<1>5. \A c \in gone : /\ c \notin ClientsOf(cache)
                      /\ \A q \in Threads \ {r} : req[q].mine # c /\ c \notin req[q].closing
  BY DEF Unused, ClientsOf
<1> HIDE DEF gone
<1>6. TypeRsd'
  BY <1>1, <1>3, <1>4, TypedAfter
<1>7. ClientsOf(cache) \subseteq Clients
  BY <1>1, Entries
<1>8. CacheSound'
  BY <1>4, <1>5, <1>7 DEF IInv, CacheSound, Distinct, ClientsOf
<1>9. req[r].closing = {}
  BY DEF IInv, Carries
<1>10. Reachable'
  <2> SUFFICES ASSUME NEW c \in Clients, client'[c].open, c \notin ClientsOf(cache)
               PROVE  \E q \in Threads : c \in req'[q].closing
    BY DEF Reachable, ClientsOf
  <2>1. c \notin gone /\ client[c].open
    BY <1>4, Words
  <2>2. PICK q \in Threads : c \in req[q].closing
    BY <2>1 DEF IInv, Reachable
  <2> QED BY <1>3, <1>9, <2>2
<1>11. Locked'
  <2> SUFFICES ASSUME NEW c \in Clients, client'[c].lock # None
               PROVE  /\ client'[c].open /\ ~client'[c].retired
                      /\ req'[client'[c].lock].at = "http"
                      /\ req'[client'[c].lock].op # "test"
                      /\ req'[client'[c].lock].mine = c
    BY DEF Locked
  <2>1. client'[c] = client[c] /\ client[c].lock \in Threads
    BY <1>1, <1>4, Words DEF ClientTypes
  <2>2. client[c].lock # r
    BY <2>1 DEF IInv, Locked
  <2> QED BY <1>3, <2>1, <2>2 DEF IInv, Locked
<1>12. ASSUME NEW q \in Threads
       PROVE  Carries(req[q])' /\ Referenced(req[q])' /\ Entitled(req[q])'
  <2>1. CASE q = r
    BY <1>2, <1>3, <2>1 DEF Carries, Referenced, Entitled
  <2>2. CASE q # r
    <3>1. Carries(req[q]) /\ Referenced(req[q]) /\ Entitled(req[q]) /\ req'[q] = req[q]
      BY <1>3, <2>2 DEF IInv
    <3>2. req[q].closing \subseteq Clients /\ req[q].mine \in Clients \cup {None}
      BY <1>1 DEF ReqTypes
    <3>3. /\ \A c \in req[q].closing : client'[c] = client[c]
          /\ req[q].mine # None => client'[req[q].mine] = client[req[q].mine]
      BY <1>4, <1>5, <2>2, <3>2
    <3>4. Referenced(req[q])'
      BY <3>1, <3>3 DEF Referenced, ClientsOf
    <3>5. Carries(req[q])'
      BY <3>1 DEF Carries
    <3>6. Entitled(req[q])'
      BY <3>1 DEF Entitled, Earned
    <3> QED BY <3>4, <3>5, <3>6
  <2> QED BY <2>1, <2>2
<1> QED BY <1>6, <1>8, <1>10, <1>11, <1>12 DEF IInv

-----------------------------------------------------------------------------
(* The cache. *)

LEMMA OpCases == Operations = Writers \cup Callers \cup {"test"}
BY DEF Operations, Writers, Callers

\* Steps that change neither a client nor which clients are cached.
LEMMA CacheShuffles ==
  ASSUME IInv, UNCHANGED <<client, config, proofs, accepted, raced>>, TypeShared',
         cache' \in Seq(EntryTypes), Distinct(cache'), Len(cache') = Len(cache),
         ClientsOf(cache') = ClientsOf(cache), req' \in [Threads -> ReqTypes],
         \A q \in Threads : req'[q] # req[q] =>
           /\ Carries(req'[q]) /\ Entitled(req[q])' /\ req'[q].closing = req[q].closing
           /\ req'[q].mine = req[q].mine \/ req'[q].mine \in ClientsOf(cache)
           /\ req[q].at # "http"
  PROVE  IInv'
<1>1. /\ req \in [Threads -> ReqTypes] /\ client \in [Clients -> ClientTypes]
      /\ cache \in Seq(EntryTypes)
  BY Typed DEF IInv
<1>2. TypeRsd'
  BY <1>1, TypedAfter
<1>3. CacheSound'
  <2> USE DEF IInv, CacheSound
  <2>1. Len(cache') <= CacheSize /\ Distinct(cache')
    OBVIOUS
  <2>2. \A c \in ClientsOf(cache') : client'[c].open /\ ~client'[c].retired
    OBVIOUS
  <2>3. Distinct(cache)' /\ ClientsOf(cache)' = ClientsOf(cache')
    BY DEF Distinct, ClientsOf
  <2> QED BY <2>1, <2>2, <2>3
<1>4. \A q \in Threads : req'[q].closing = req[q].closing
  OBVIOUS
<1>5. Reachable'
  <2> SUFFICES ASSUME NEW c \in Clients, client[c].open, c \notin ClientsOf(cache)
               PROVE  \E q \in Threads : c \in req'[q].closing
    BY DEF Reachable, ClientsOf
  <2>1. PICK q \in Threads : c \in req[q].closing
    BY DEF IInv, Reachable
  <2> QED BY <1>4, <2>1
<1>6. Locked'
  <2> SUFFICES ASSUME NEW c \in Clients, client[c].lock # None
               PROVE  /\ client[c].open /\ ~client[c].retired
                      /\ req'[client[c].lock].at = "http" /\ req'[client[c].lock].op # "test"
                      /\ req'[client[c].lock].mine = c
    BY DEF Locked
  <2>1. client[c].lock \in Threads /\ req[client[c].lock].at = "http"
    BY <1>1 DEF ClientTypes, IInv, Locked
  <2>2. req'[client[c].lock] = req[client[c].lock]
    BY <2>1
  <2> QED BY <2>2 DEF IInv, Locked
<1>7. ASSUME NEW q \in Threads
      PROVE  Carries(req[q])' /\ Referenced(req[q])' /\ Entitled(req[q])'
  <2>1. Carries(req[q]) /\ Referenced(req[q]) /\ Entitled(req[q])
    BY DEF IInv
  <2>2. Carries(req'[q])
    BY <2>1
  <2>3. Entitled(req[q])'
    BY <2>1 DEF Entitled, Earned
  <2>4. ClientsOf(cache)' = ClientsOf(cache)
    BY DEF ClientsOf
  <2>5. Referenced(req[q])'
    BY <1>4, <2>1, <2>4 DEF Referenced
  <2> QED BY <2>2, <2>3, <2>5 DEF Carries
<1>8. Proven'
  BY DEF IInv, Proven, Earned
<1> QED BY <1>2, <1>3, <1>5, <1>6, <1>7, <1>8 DEF IInv

\* An entry leaves: nobody calls with its client, and r will close it.
LEMMA RetiresKeep ==
  ASSUME IInv, NEW r \in Threads, NEW n \in 1..Len(cache), Retires(r, n),
         req[r].at \in {"lock", "clear"}
  PROVE  IInv'
<1> DEFINE c == cache[n].client
           k == [req[r] EXCEPT !.closing = @ \cup {c}]
           d == [client[c] EXCEPT !.retired = TRUE]
<1>1. /\ req \in [Threads -> ReqTypes] /\ client \in [Clients -> ClientTypes]
      /\ cache \in Seq(EntryTypes) /\ TypeShared
  BY Typed DEF IInv
<1>2. c \in ClientsOf(cache) /\ c \in Clients /\ ClientsOf(cache) \subseteq Clients
  BY <1>1, Entries DEF EntryTypes
<1>3. /\ k \in ReqTypes /\ k.closing = req[r].closing \cup {c} /\ k.at = req[r].at
      /\ k.op = req[r].op /\ k.calls = req[r].calls /\ k.loaded = req[r].loaded
      /\ k.new = req[r].new /\ k.mine = req[r].mine /\ k.result = req[r].result
  <2>1. req[r] \in ReqTypes
    BY <1>1
  <2> HIDE DEF c
  <2> QED BY <1>2, <2>1 DEF ReqTypes
<1>4. /\ d \in ClientTypes /\ d.retired /\ d.open = client[c].open /\ d.lock = client[c].lock
  <2>1. client[c] \in ClientTypes
    BY <1>1, <1>2
  <2> HIDE DEF c
  <2> QED BY <2>1 DEF ClientTypes
<1>5. /\ req' = [req EXCEPT ![r] = k] /\ client' = [client EXCEPT ![c] = d]
      /\ cache' = RemoveAt(cache, n) /\ Free(c, r)
      /\ UNCHANGED <<shared, cacheLock, dossier, vehicle>>
  BY DEF Retires
<1> HIDE DEF k, d
<1>6. /\ cache' \in Seq(EntryTypes) /\ Len(cache') = Len(cache) - 1 /\ Distinct(cache')
      /\ ClientsOf(cache') = ClientsOf(cache) \ {c}
  BY <1>1, <1>5, RemovedEntry DEF IInv, CacheSound
<1> HIDE DEF c
<1>7. /\ req' \in [Threads -> ReqTypes] /\ req'[r] = k
      /\ \A q \in Threads : q # r => req'[q] = req[q]
  BY <1>1, <1>3, <1>5
<1>8. /\ client' \in [Clients -> ClientTypes] /\ client'[c] = d
      /\ \A e \in Clients : e # c => client'[e] = client[e]
  BY <1>1, <1>2, <1>4, <1>5
<1>9. TypeShared'
  BY <1>1, <1>5 DEF TypeShared, shared
<1>10. TypeRsd'
  BY <1>6, <1>7, <1>8, <1>9, TypedAfter
<1>11. ClientsOf(cache)' = ClientsOf(cache') /\ (Distinct(cache)' <=> Distinct(cache'))
  BY DEF ClientsOf, Distinct
<1>12. CacheSound'
  <2>1. Len(cache') <= CacheSize
    BY <1>1, <1>6, Entries, Words DEF IInv, CacheSound
  <2>2. \A e \in ClientsOf(cache') : client'[e].open /\ ~client'[e].retired
    BY <1>2, <1>6, <1>8 DEF IInv, CacheSound
  <2> QED BY <1>6, <1>11, <2>1, <2>2 DEF CacheSound
<1>13. Reachable'
  <2> SUFFICES ASSUME NEW e \in Clients, client'[e].open, e \notin ClientsOf(cache')
               PROVE  \E q \in Threads : e \in req'[q].closing
    BY <1>11 DEF Reachable
  <2>1. CASE e = c
    BY <1>3, <1>7, <2>1
  <2>2. CASE e # c
    <3>1. PICK q \in Threads : e \in req[q].closing
      BY <1>6, <1>8, <2>2 DEF IInv, Reachable
    <3> QED BY <1>3, <1>7, <3>1
  <2> QED BY <2>1, <2>2
<1>14. Locked'
  <2> SUFFICES ASSUME NEW e \in Clients, client'[e].lock # None
               PROVE  /\ client'[e].open /\ ~client'[e].retired
                      /\ req'[client'[e].lock].at = "http"
                      /\ req'[client'[e].lock].op # "test"
                      /\ req'[client'[e].lock].mine = e
    BY DEF Locked
  <2>0. client[e].lock # r \/ client[e].lock = None
    BY Words DEF IInv, Locked
  <2>1. e # c
    <3>1. client[c].lock \in {None, r}
      BY <1>5 DEF Free
    <3> QED BY <1>4, <1>8, <2>0, <3>1
  <2>2. client'[e] = client[e] /\ client[e].lock \in Threads
    BY <1>1, <1>8, <2>1 DEF ClientTypes
  <2> QED BY <1>7, <2>0, <2>2 DEF IInv, Locked
<1>15. ASSUME NEW q \in Threads
       PROVE  Carries(req[q])' /\ Referenced(req[q])' /\ Entitled(req[q])'
  <2>0. Carries(req[q]) /\ Referenced(req[q]) /\ Entitled(req[q])
    BY DEF IInv
  <2>1. req[q].closing \subseteq Clients /\ req[q].mine \in Clients \cup {None}
        /\ req[q].op \in Operations
    BY <1>1 DEF ReqTypes
  <2>2. /\ req'[q].mine = req[q].mine
        /\ \/ req'[q].closing = req[q].closing
           \/ q = r /\ req'[q].closing = req[q].closing \cup {c}
    BY <1>3, <1>7
  <2>3. \A e \in Clients : client[e].retired => client'[e].retired
    BY <1>4, <1>8
  <2>4. Referenced(req[q])'
    <3>1. \A e \in req'[q].closing : client'[e].retired /\ e \notin ClientsOf(cache')
      BY <1>4, <1>6, <1>8, <2>0, <2>1, <2>2, <2>3 DEF Referenced
    <3>2. req'[q].mine # None =>
            client'[req'[q].mine].retired \/ req'[q].mine \in ClientsOf(cache')
      BY <1>4, <1>6, <1>8, <2>0, <2>1, <2>2, <2>3 DEF Referenced
    <3> QED BY <1>11, <3>1, <3>2 DEF Referenced
  <2>5. CASE q = r
    <3>1. req[r].mine = None
      BY <2>0, <2>1, <2>5, OpCases DEF Carries
    <3>2. Carries(k)
      BY <1>2, <1>3, <2>0, <2>5, <3>1, Words DEF Carries
    <3>3. Entitled(k)
      BY <1>3, <2>0, <2>5 DEF Entitled, Earned
    <3>4. accepted' = accepted /\ raced' = raced
      BY <1>5 DEF shared
    <3> QED BY <1>7, <2>4, <2>5, <3>2, <3>3, <3>4 DEF Carries, Entitled, Earned
  <2>6. CASE q # r
    <3>1. req'[q] = req[q] /\ accepted' = accepted /\ raced' = raced
      BY <1>5, <1>7, <2>6 DEF shared
    <3> QED BY <2>0, <2>4, <3>1 DEF Carries, Entitled, Earned
  <2> QED BY <2>5, <2>6
<1>16. Proven'
  BY <1>5 DEF IInv, Proven, Earned, shared
<1> QED BY <1>10, <1>12, <1>13, <1>14, <1>15, <1>16 DEF IInv

\* A new entry, with a client that nobody refers to.
LEMMA OpenKeeps ==
  ASSUME IInv, NEW r \in Threads, Open(r)
  PROVE  IInv'
<1> DEFINE c == CHOOSE c \in Unused(r) \ req[r].closing : TRUE
           e == [client |-> c, cred |-> req[r].loaded.cred, old |-> FALSE]
           d == [Fresh EXCEPT !.open = TRUE]
           k == [req[r] EXCEPT !.mine = c,
                   !.at = IF req[r].closing = {} THEN "call" ELSE "close"]
<1>1. /\ req \in [Threads -> ReqTypes] /\ client \in [Clients -> ClientTypes]
      /\ cache \in Seq(EntryTypes) /\ TypeShared
  BY Typed DEF IInv
<1>2. c \in Unused(r) /\ c \notin req[r].closing /\ c \in Clients
  BY DEF Open, Unused
<1>3. /\ req' = [req EXCEPT ![r] = k] /\ client' = [client EXCEPT ![c] = d]
      /\ cache' = Append(cache, e) /\ cacheLock' = None /\ ~HasToRetire(r)
      /\ Cached(req[r].loaded.cred) = {} /\ req[r].at = "lock"
      /\ UNCHANGED <<shared, dossier, vehicle>>
  BY DEF Open, Takes, Inside
<1>4. /\ c \notin ClientsOf(cache)
      /\ \A q \in Threads \ {r} : req[q].mine # c /\ c \notin req[q].closing
  BY <1>2 DEF Unused, ClientsOf
<1> HIDE DEF c
<1>5. req[r].op \in Callers /\ req[r].mine = None /\ req[r].loaded.cred \in Creds
      /\ req[r].calls # <<>> /\ Carries(req[r]) /\ req[r] \in ReqTypes
  <2>1. Carries(req[r]) /\ req[r].op \in Operations /\ req[r] \in ReqTypes
    BY <1>1 DEF IInv, ReqTypes
  <2> QED BY <1>3, <2>1, OpCases DEF Carries
<1>6. e \in EntryTypes /\ e.client = c /\ e.cred = req[r].loaded.cred
  BY <1>2, <1>5 DEF EntryTypes
<1>7. d \in ClientTypes /\ d.open /\ ~d.retired /\ d.lock = None
  BY Words DEF ClientTypes
<1>8. /\ k \in ReqTypes /\ k.mine = c /\ k.closing = req[r].closing /\ k.op = req[r].op
      /\ k.at = (IF req[r].closing = {} THEN "call" ELSE "close")
      /\ k.calls = req[r].calls /\ k.loaded = req[r].loaded
  BY <1>2, <1>5 DEF ReqTypes, Steps
<1> HIDE DEF d, e, k
<1>9. /\ req' \in [Threads -> ReqTypes] /\ req'[r] = k
      /\ \A q \in Threads : q # r => req'[q] = req[q]
  BY <1>1, <1>3, <1>8
<1>10. /\ client' \in [Clients -> ClientTypes] /\ client'[c] = d
       /\ \A f \in Clients : f # c => client'[f] = client[f]
  BY <1>1, <1>2, <1>3, <1>7
<1>11. Len(cache) < CacheSize /\ \A n \in 1..Len(cache) : cache[n].cred # e.cred
  <2>1. ~(Len(cache) >= CacheSize)
    BY <1>3 DEF HasToRetire
  <2>2. Len(cache) \in Nat /\ CacheSize \in Nat
    BY <1>1, Entries, Words
  <2> QED BY <1>3, <1>6, <2>1, <2>2 DEF Cached
<1>12. /\ cache' \in Seq(EntryTypes) /\ Len(cache') = Len(cache) + 1 /\ Distinct(cache')
       /\ ClientsOf(cache') = ClientsOf(cache) \cup {c}
  BY <1>1, <1>3, <1>4, <1>6, <1>11, AppendedEntry DEF IInv, CacheSound
<1>13. TypeShared'
  BY <1>1, <1>3 DEF TypeShared, shared
<1>14. TypeRsd'
  BY <1>9, <1>10, <1>12, <1>13, TypedAfter
<1>15. ClientsOf(cache)' = ClientsOf(cache') /\ (Distinct(cache)' <=> Distinct(cache'))
  BY DEF ClientsOf, Distinct
<1>16. CacheSound'
  <2>1. Len(cache') <= CacheSize
    BY <1>1, <1>11, <1>12, Entries, Words
  <2>2. \A f \in ClientsOf(cache') : client'[f].open /\ ~client'[f].retired
    <3>1. ClientsOf(cache) \subseteq Clients
      BY <1>1, Entries
    <3> QED BY <1>4, <1>7, <1>10, <1>12, <3>1 DEF IInv, CacheSound
  <2> QED BY <1>12, <1>15, <2>1, <2>2 DEF CacheSound
<1>17. Reachable'
  <2> SUFFICES ASSUME NEW f \in Clients, client'[f].open, f \notin ClientsOf(cache')
               PROVE  \E q \in Threads : f \in req'[q].closing
    BY <1>15 DEF Reachable
  <2>1. f # c /\ f \notin ClientsOf(cache) /\ client[f].open
    BY <1>10, <1>12
  <2>2. PICK q \in Threads : f \in req[q].closing
    BY <2>1 DEF IInv, Reachable
  <2> QED BY <1>8, <1>9, <2>2
<1>18. Locked'
  <2> SUFFICES ASSUME NEW f \in Clients, client'[f].lock # None
               PROVE  /\ client'[f].open /\ ~client'[f].retired
                      /\ req'[client'[f].lock].at = "http"
                      /\ req'[client'[f].lock].op # "test"
                      /\ req'[client'[f].lock].mine = f
    BY DEF Locked
  <2>1. client'[f] = client[f] /\ client[f].lock \in Threads
    BY <1>1, <1>7, <1>10 DEF ClientTypes
  <2>2. client[f].lock # r
    BY <1>3, <2>1 DEF IInv, Locked
  <2> QED BY <1>9, <2>1, <2>2 DEF IInv, Locked
<1>19. ASSUME NEW q \in Threads
       PROVE  Carries(req[q])' /\ Referenced(req[q])' /\ Entitled(req[q])'
  <2>0. Carries(req[q]) /\ Referenced(req[q]) /\ Entitled(req[q])
        /\ req[q].closing \subseteq Clients /\ req[q].mine \in Clients \cup {None}
    BY <1>1 DEF IInv, ReqTypes
  <2>1. accepted' = accepted /\ raced' = raced
    BY <1>3 DEF shared
  <2>2. CASE q = r
    <3>1. Carries(k)
      BY <1>2, <1>5, <1>8, Words DEF Carries, Callers, Writers
    <3>2. Entitled(k)
      BY <1>5, <1>8 DEF Entitled, Callers, Writers
    <3>3. \A f \in k.closing : client'[f].retired /\ f \notin ClientsOf(cache')
      BY <1>2, <1>8, <1>10, <1>12, <2>0, <2>2 DEF Referenced
    <3>4. Referenced(req[q])'
      BY <1>8, <1>9, <1>12, <1>15, <2>2, <3>3 DEF Referenced
    <3> QED BY <1>9, <2>1, <2>2, <3>1, <3>2, <3>4 DEF Carries, Entitled, Earned
  <2>3. CASE q # r
    <3>1. req'[q] = req[q]
      BY <1>9, <2>3
    <3>2. Referenced(req[q])'
      BY <1>4, <1>10, <1>12, <1>15, <2>0, <2>3, <3>1 DEF Referenced
    <3> QED BY <2>0, <2>1, <3>1, <3>2 DEF Carries, Entitled, Earned
  <2> QED BY <2>2, <2>3
<1>20. Proven'
  BY <1>3 DEF IInv, Proven, Earned, shared
<1> QED BY <1>14, <1>16, <1>17, <1>18, <1>19, <1>20 DEF IInv

\* A retired client is closed once nobody calls with it.
LEMMA CloseKeeps ==
  ASSUME IInv, NEW r \in Threads, Close(r)
  PROVE  IInv'
<1>1. /\ req \in [Threads -> ReqTypes] /\ client \in [Clients -> ClientTypes]
      /\ cache \in Seq(EntryTypes) /\ TypeShared
  BY Typed DEF IInv
<1>2. PICK c \in req[r].closing :
        /\ Free(c, r)
        /\ client' = [client EXCEPT ![c] = IF c \in Unused(r) THEN Fresh
                                            ELSE [@ EXCEPT !.open = FALSE]]
        /\ req' = [req EXCEPT ![r].closing = @ \ {c},
                     ![r].at = IF req[r].closing # {c} THEN "close"
                               ELSE IF req[r].mine = None THEN "commit" ELSE "call"]
  BY DEF Close
<1> DEFINE d == IF c \in Unused(r) THEN Fresh ELSE [client[c] EXCEPT !.open = FALSE]
           k == [req[r] EXCEPT !.closing = @ \ {c},
                   !.at = IF req[r].closing # {c} THEN "close"
                          ELSE IF req[r].mine = None THEN "commit" ELSE "call"]
<1>3. /\ UNCHANGED <<shared, cache, cacheLock, dossier, vehicle>> /\ req[r].at = "close"
      /\ client' = [client EXCEPT ![c] = d] /\ req' = [req EXCEPT ![r] = k]
  BY <1>2 DEF Close
<1>4. req[r] \in ReqTypes /\ req[r].closing \subseteq Clients /\ c \in Clients
      /\ Carries(req[r]) /\ Referenced(req[r]) /\ Entitled(req[r])
      /\ req[r].op \in Operations /\ req[r].mine \in Clients \cup {None}
  BY <1>1 DEF IInv, ReqTypes
<1>5. /\ client[c] \in ClientTypes
      /\ d \in ClientTypes /\ ~d.open /\ (c \notin Unused(r) => d.retired = client[c].retired)
      /\ d.lock = client[c].lock \/ d.lock = None
  <2>1. client[c] \in ClientTypes
    BY <1>1, <1>4
  <2> QED BY <2>1, Words DEF ClientTypes
<1>6. /\ k \in ReqTypes /\ k.closing = req[r].closing \ {c} /\ k.op = req[r].op
      /\ k.mine = req[r].mine /\ k.calls = req[r].calls /\ k.loaded = req[r].loaded
      /\ k.new = req[r].new
      /\ k.at = (IF req[r].closing # {c} THEN "close"
                 ELSE IF req[r].mine = None THEN "commit" ELSE "call")
  BY <1>4 DEF ReqTypes, Steps
<1>7. c \in Unused(r) => \A q \in Threads \ {r} : req[q].mine # c /\ c \notin req[q].closing
  BY DEF Unused
<1> HIDE DEF d, k
<1>8. /\ req' \in [Threads -> ReqTypes] /\ req'[r] = k
      /\ \A q \in Threads : q # r => req'[q] = req[q]
  BY <1>1, <1>3, <1>6
<1>9. /\ client' \in [Clients -> ClientTypes] /\ client'[c] = d
      /\ \A e \in Clients : e # c => client'[e] = client[e]
  BY <1>1, <1>3, <1>4, <1>5
<1>10. TypeShared'
  BY <1>1, <1>3 DEF TypeShared, shared
<1>11. TypeRsd'
  BY <1>1, <1>3, <1>8, <1>9, <1>10, TypedAfter
<1>12. c \notin ClientsOf(cache) /\ ClientsOf(cache) \subseteq Clients
  BY <1>1, <1>4, Entries DEF Referenced
<1>13. CacheSound'
  <2>1. ClientsOf(cache)' = ClientsOf(cache) /\ Distinct(cache)' /\ Len(cache)' = Len(cache)
    BY <1>3 DEF IInv, CacheSound, ClientsOf, Distinct
  <2> QED BY <1>9, <1>12, <2>1 DEF IInv, CacheSound
<1>14. Reachable'
  <2> SUFFICES ASSUME NEW e \in Clients, client'[e].open, e \notin ClientsOf(cache)
               PROVE  \E q \in Threads : e \in req'[q].closing
    BY <1>3 DEF Reachable, ClientsOf
  <2>1. e # c /\ client[e].open
    BY <1>5, <1>9
  <2>2. PICK q \in Threads : e \in req[q].closing
    BY <2>1 DEF IInv, Reachable
  <2> QED BY <1>6, <1>8, <2>1, <2>2
<1>15. Locked'
  <2> SUFFICES ASSUME NEW e \in Clients, client'[e].lock # None
               PROVE  /\ client'[e].open /\ ~client'[e].retired
                      /\ req'[client'[e].lock].at = "http"
                      /\ req'[client'[e].lock].op # "test"
                      /\ req'[client'[e].lock].mine = e
    BY DEF Locked
  <2>0. client[e].lock # r \/ client[e].lock = None
    BY <1>3, Words DEF IInv, Locked
  <2>1. e # c
    <3>1. client[c].lock \in {None, r}
      BY <1>2 DEF Free
    <3> QED BY <1>5, <1>9, <2>0, <3>1
  <2>2. client'[e] = client[e] /\ client[e].lock \in Threads
    BY <1>1, <1>9, <2>1 DEF ClientTypes
  <2> QED BY <1>8, <2>0, <2>2 DEF IInv, Locked
<1>16. ASSUME NEW q \in Threads
       PROVE  Carries(req[q])' /\ Referenced(req[q])' /\ Entitled(req[q])'
  <2>0. Carries(req[q]) /\ Referenced(req[q]) /\ Entitled(req[q])
        /\ req[q].closing \subseteq Clients /\ req[q].mine \in Clients \cup {None}
    BY <1>1 DEF IInv, ReqTypes
  <2>1. accepted' = accepted /\ raced' = raced /\ ClientsOf(cache)' = ClientsOf(cache)
    BY <1>3 DEF shared, ClientsOf
  <2>2. CASE q = r
    <3>1. Carries(k)
      <4>1. req[r].mine = None => req[r].op \in Writers
        BY <1>3, <1>4, OpCases DEF Carries
      <4>2. req[r].mine # None => req[r].op \in Callers /\ req[r].calls # <<>>
        BY <1>3, <1>4, OpCases DEF Carries
      <4>3. req[r].op \notin Writers \/ req[r].op \notin Callers
        BY DEF Writers, Callers
      <4>4. "test" \notin Writers \cup Callers
        BY DEF Writers, Callers
      <4>5. k.closing # {} <=> req[r].closing # {c}
        BY <1>6
      <4> QED BY <1>3, <1>4, <1>6, <4>1, <4>2, <4>3, <4>4, <4>5 DEF Carries
    <3>2. Entitled(k)
      BY <1>3, <1>4, <1>6 DEF Entitled, Earned
    <3>3. \A e \in k.closing : client'[e].retired /\ e \notin ClientsOf(cache)
      BY <1>4, <1>6, <1>9 DEF Referenced
    <3>4. k.mine # None => client'[k.mine].retired \/ k.mine \in ClientsOf(cache)
      BY <1>4, <1>6, <1>9 DEF Referenced, Carries
    <3>5. Referenced(req[q])'
      BY <1>8, <2>1, <2>2, <3>3, <3>4 DEF Referenced
    <3> QED BY <1>8, <2>1, <2>2, <3>1, <3>2, <3>5 DEF Carries, Entitled, Earned
  <2>3. CASE q # r
    <3>1. req'[q] = req[q]
      BY <1>8, <2>3
    <3>2. \A e \in Clients : e \in req[q].closing \/ e = req[q].mine =>
            client'[e].retired = client[e].retired
      BY <1>5, <1>7, <1>9, <2>3
    <3>3. Referenced(req[q])'
      BY <2>0, <2>1, <3>1, <3>2 DEF Referenced
    <3> QED BY <2>0, <2>1, <3>1, <3>3 DEF Carries, Entitled, Earned
  <2> QED BY <2>2, <2>3
<1>17. Proven'
  BY <1>3 DEF IInv, Proven, Earned, shared
<1> QED BY <1>11, <1>13, <1>14, <1>15, <1>16, <1>17 DEF IInv

-----------------------------------------------------------------------------
(* The actions, one after another. *)

LEMMA SharedMoves ==
  ASSUME IInv, UNCHANGED <<req, cache, client>>, TypeShared', Proven',
         accepted \subseteq accepted', raced => raced'
  PROVE  IInv'
<1>1. TypeRsd'
  BY Typed, TypedAfter DEF IInv
<1>2. CacheSound' /\ Reachable' /\ Locked'
  BY DEF IInv, CacheSound, Distinct, ClientsOf, Reachable, Locked
<1>3. ASSUME NEW q \in Threads
      PROVE  Carries(req[q])' /\ Referenced(req[q])' /\ Entitled(req[q])'
  BY DEF IInv, Carries, Referenced, ClientsOf, Entitled, Earned
<1> QED BY <1>1, <1>2, <1>3 DEF IInv

LEMMA BeginsKeep ==
  ASSUME IInv, NEW r \in Threads, NEW op \in Operations, NEW row \in Configs, NEW s \in Steps,
         Begins(r, op, row, s),
         \/ op \in Writers /\ s = "flush"
         \/ op = "test" /\ s = "http" /\ row.cred \in Creds
         \/ op \in Callers /\ s = "lock" /\ row.cred \in Creds
  PROVE  IInv'
<1>1. PICK calls \in Calls(op) :
        req' = [req EXCEPT ![r] = [Idle(row) EXCEPT !.op = op, !.calls = calls, !.at = s]]
  BY DEF Begins
<1> DEFINE k == [Idle(row) EXCEPT !.op = op, !.calls = calls, !.at = s]
<1>2. calls \in Seq(CallNames) /\ (op \in Callers => calls # <<>>)
  <2>1. <<>> \in Seq(CallNames) /\ <<"pull">> \in Seq(CallNames) /\ <<"start">> \in Seq(CallNames)
        /\ <<"pdf">> \in Seq(CallNames) /\ <<"status">> \in Seq(CallNames)
        /\ <<"start", "wait", "pdf">> \in Seq(CallNames)
    BY EmptySeq DEF CallNames
  <2>2. CASE op = "update"
    <3>1. calls \in {<<"pull">>, <<"start", "wait", "pdf">>}
      BY <2>2 DEF Calls
    <3>2. <<"pull">> # <<>> /\ <<"start", "wait", "pdf">> # <<>>
      OBVIOUS
    <3>3. calls = <<"pull">> \/ calls = <<"start", "wait", "pdf">>
      BY <3>1
    <3>4. CASE calls = <<"pull">>
      BY <2>1, <3>2, <3>4
    <3>5. CASE calls = <<"start", "wait", "pdf">>
      BY <2>1, <3>2, <3>5
    <3> QED BY <3>3, <3>4, <3>5
  <2>3. CASE op \in {"pull", "start", "pdf"}
    <3>1. calls = <<op>>
      BY <2>3 DEF Calls
    <3> QED BY <2>1, <2>3, <3>1
  <2>4. CASE op = "poll"
    <3>1. calls = <<"status">>
      BY <2>4 DEF Calls
    <3> QED BY <2>1, <3>1
  <2>5. CASE op \notin Callers
    <3>1. calls = <<>>
      BY <2>5 DEF Calls, Callers
    <3> QED BY <2>1, <2>5, <3>1
  <2> QED BY <2>2, <2>3, <2>4, <2>5 DEF Callers
<1>3. Idle(row) \in ReqTypes /\ Idle(row).mine = None /\ Idle(row).closing = {}
      /\ Idle(row).loaded = row /\ Idle(row).new = row
  BY IdleTypes
<1>4. /\ k \in ReqTypes /\ k.op = op /\ k.calls = calls /\ k.at = s
      /\ k.mine = None /\ k.closing = {} /\ k.loaded = row
  BY <1>2, <1>3 DEF ReqTypes
<1>5. req' = [req EXCEPT ![r] = k]
  BY <1>1
<1> HIDE DEF k
<1>6. /\ req[r].at = "idle" /\ req[r].mine = None /\ req[r].closing = {}
  <2>1. Carries(req[r]) /\ req[r].at = "idle"
    BY DEF Begins, Running, IInv
  <2> QED BY <2>1 DEF Carries
<1>7. Carries(k)
  BY <1>2, <1>4, Words DEF Carries, Writers, Callers
<1>8. UNCHANGED <<cache, client, config, proofs, accepted, raced>> /\ TypeShared'
  <2>1. TypeShared
    BY Typed DEF IInv
  <2>2. dossier' = [dossier EXCEPT !.overlapped =
          @ \/ (op = "poll" /\ \E q \in Threads : req[q].op = "poll" /\ Running(q))]
    BY DEF Begins
  <2>3. (dossier.overlapped \/ (op = "poll" /\ \E q \in Threads : req[q].op = "poll" /\ Running(q)))
          \in BOOLEAN
    BY <2>1 DEF TypeShared
  <2> HIDE DEF Running
  <2> QED BY <2>1, <2>2, <2>3 DEF Begins, TypeShared, shared
<1>9. Entitled(k)'
  BY <1>4 DEF Entitled
<1>10. Proven'
  BY <1>8 DEF IInv, Proven, Earned
<1> QED BY <1>4, <1>5, <1>6, <1>7, <1>8, <1>9, <1>10, Moves

LEMMA BeginningsKeep ==
  ASSUME IInv, NEW r \in Threads, BeginSave(r) \/ BeginTest(r) \/ BeginCall(r)
  PROVE  IInv'
<1>1. config \in Configs
  BY Typed DEF IInv, TypeShared
<1>2. CASE BeginSave(r)
  BY <1>1, <1>2, BeginsKeep DEF BeginSave, Operations, Steps, Writers
<1>3. CASE BeginTest(r)
  <2>1. PICK cred \in Creds : Begins(r, "test", [NoRow EXCEPT !.cred = cred], "http")
    BY <1>3 DEF BeginTest
  <2>2. [NoRow EXCEPT !.cred = cred] \in Configs /\ [NoRow EXCEPT !.cred = cred].cred = cred
    BY Words DEF Configs
  <2> QED BY <2>1, <2>2, BeginsKeep DEF Operations, Steps
<1>4. CASE BeginCall(r)
  <2>1. PICK op \in Callers : Begins(r, op, [NoRow EXCEPT !.cred = config.cred], "lock")
    BY <1>4 DEF BeginCall, Callers
  <2>2. config.cred \in Creds
    BY <1>1, <1>4 DEF BeginCall, Configs
  <2>3. [NoRow EXCEPT !.cred = config.cred] \in Configs
        /\ [NoRow EXCEPT !.cred = config.cred].cred = config.cred
    BY <2>2, Words DEF Configs
  <2>4. op \in Operations /\ "lock" \in Steps
    BY DEF Callers, Operations, Steps
  <2> QED BY <2>1, <2>2, <2>3, <2>4, BeginsKeep
<1> QED BY <1>2, <1>3, <1>4

LEMMA MergedRow ==
  ASSUME NEW old \in Configs, NEW new \in Configs, NEW row \in Configs
  PROVE  /\ Merged(old, new, row) \in Configs
         /\ row = old => Merged(old, new, row) = new
BY DEF Merged, Configs

\* Of what a flush writes, the status was earned unless the row changed since
\* it was loaded.
LEMMA UpdatesKeep ==
  ASSUME IInv, NEW r \in Threads, Save(r) \/ Revoke(r)
  PROVE  IInv'
<1>1. /\ req \in [Threads -> ReqTypes] /\ TypeShared /\ req[r] \in ReqTypes
      /\ Carries(req[r]) /\ Entitled(req[r])
  BY Typed DEF IInv
<1>2. req[r].loaded \in Configs /\ config \in Configs
  BY <1>1 DEF ReqTypes, TypeShared
<1>3. PICK op \in Writers, new \in Configs :
        /\ Updates(r, op, new)
        /\ config = req[r].loaded => Earned(new)
  <2>1. CASE Save(r)
    <3>1. PICK cred \in Creds :
            Updates(r, "save", [cred |-> cred, status |-> StatusAfterSave(r, cred)])
      BY <2>1 DEF Save
    <3> DEFINE new == [cred |-> cred, status |-> StatusAfterSave(r, cred)]
    <3>2. new \in Configs
      BY DEF StatusAfterSave, Configs, Statuses
    <3>3. ASSUME config = req[r].loaded, new.status = "verified"
          PROVE  cred \in accepted \/ raced
      <4>1. CASE cred \in proofs
        BY <4>1 DEF IInv, Proven
      <4>2. CASE config = [cred |-> cred, status |-> "verified"]
        BY <4>2, Words DEF IInv, Proven, Earned
      <4> QED BY <3>3, <4>1, <4>2 DEF StatusAfterSave
    <3> QED BY <3>1, <3>2, <3>3 DEF Earned, Writers
  <2>2. CASE Revoke(r)
    <3> DEFINE new == [req[r].loaded EXCEPT !.cred = None]
    <3>1. new \in Configs /\ new.cred = None
      BY <1>2 DEF Configs
    <3> QED BY <2>2, <3>1 DEF Revoke, Earned, Writers
  <2> QED BY <2>1, <2>2
<1>4. PICK row \in Configs :
        /\ row = Merged(req[r].loaded, new, config)
        /\ config = req[r].loaded => row = new
  BY <1>2, MergedRow
<1>k. PICK k \in ReqTypes : k = [req[r] EXCEPT !.at = "clear", !.loaded = NoRow, !.new = row]
  <2>1. [req[r] EXCEPT !.at = "clear", !.loaded = NoRow, !.new = row] \in ReqTypes
    BY <1>1, <1>4, Words DEF ReqTypes, Steps
  <2> QED BY <2>1
<1>5. /\ req' = [req EXCEPT ![r] = k] /\ req[r].at = "flush" /\ req[r].op = op
      /\ rowLock' = r /\ raced' = (raced \/ config # req[r].loaded)
      /\ UNCHANGED <<config, cache, cacheLock, client, proofs, accepted, dossier, vehicle, offered>>
  BY <1>3, <1>4, <1>k DEF Updates, Races
<1>6. /\ k \in ReqTypes /\ k.at = "clear" /\ k.op = req[r].op /\ k.mine = req[r].mine
      /\ k.closing = req[r].closing /\ k.new = row
  BY <1>1, <1>k DEF ReqTypes
<1>7. Carries(k)
  BY <1>1, <1>3, <1>5, <1>6 DEF Carries, Writers, Callers
<1>8. Entitled(k)'
  <2>1. Earned(row)'
    BY <1>3, <1>4, <1>5 DEF Earned
  <2> QED BY <1>6, <2>1 DEF Entitled, Earned
<1>9. Proven' /\ TypeShared'
  <2>1. raced' \in BOOLEAN
    BY <1>5
  <2>2. TypeShared'
    BY <1>1, <1>5, <2>1 DEF TypeShared
  <2> QED BY <1>5, <2>2 DEF IInv, Proven, Earned
<1> QED BY <1>5, <1>6, <1>7, <1>8, <1>9, Moves

LEMMA CommitKeeps ==
  ASSUME IInv, NEW r \in Threads, Commit(r)
  PROVE  IInv'
<1>1. TypeShared /\ req[r] \in ReqTypes /\ Carries(req[r]) /\ Entitled(req[r])
  BY Typed DEF IInv
<1>2. /\ req[r].at = "commit" /\ config' = req[r].new /\ rowLock' = None /\ Ends(r)
      /\ UNCHANGED <<cache, cacheLock, proofs, accepted, raced, dossier, vehicle, offered>>
  BY DEF Commit
<1>3. req[r].op \in Writers
  <2>1. req[r].op \in Operations
    BY <1>1 DEF ReqTypes
  <2> QED BY <1>1, <1>2, <2>1, OpCases DEF Carries
<1>4. TypeShared'
  BY <1>1, <1>2 DEF TypeShared, ReqTypes
<1>5. Proven'
  BY <1>1, <1>2, <1>3 DEF Entitled, IInv, Proven, Earned
<1> QED BY <1>2, <1>4, <1>5, EndsKeep

\* The result of a test is written to the row it was found to be about.
LEMMA RecordsKeep ==
  ASSUME IInv, NEW r \in Threads, ReadRow(r) \/ WriteRow(r)
  PROVE  IInv'
<1>1. /\ req \in [Threads -> ReqTypes] /\ TypeShared /\ req[r] \in ReqTypes
      /\ Carries(req[r]) /\ Entitled(req[r]) /\ req[r].op \in Operations
  BY Typed DEF IInv, ReqTypes
<1>2. req[r].new \in Configs /\ req[r].loaded \in Configs /\ config \in Configs
      /\ (req[r].at \in {"read_row", "write_row"} => req[r].op \notin Writers)
  BY <1>1 DEF ReqTypes, TypeShared, Carries
<1>3. CASE ReadRow(r)
  <2>1. PICK k :
          /\ req' = [req EXCEPT ![r] = k]
          /\ \/ /\ k = [req[r] EXCEPT !.new = config, !.at = "write_row"]
                /\ config.cred = req[r].loaded.cred
             \/ k = [req[r] EXCEPT !.at = "history"]
    BY <1>3 DEF ReadRow, Goes
  <2>2. /\ k \in ReqTypes /\ k.at \in {"write_row", "history"} /\ k.op = req[r].op
        /\ k.mine = req[r].mine /\ k.closing = req[r].closing /\ k.loaded = req[r].loaded
        /\ k.result = req[r].result
        /\ k.at = "write_row" => k.new.cred = req[r].loaded.cred
    <3>1. CASE k = [req[r] EXCEPT !.new = config, !.at = "write_row"]
      BY <1>1, <1>2, <2>1, <3>1 DEF ReqTypes, Steps
    <3>2. CASE k = [req[r] EXCEPT !.at = "history"]
      BY <1>1, <3>2 DEF ReqTypes, Steps
    <3> QED BY <2>1, <3>1, <3>2
  <2>3. req[r].at = "read_row"
        /\ UNCHANGED <<shared, cache, cacheLock, client, dossier, vehicle>>
    BY <1>3 DEF ReadRow
  <2>4. Carries(k)
    BY <1>1, <1>2, <2>2, <2>3 DEF Carries
  <2>5. Entitled(k)'
    BY <1>1, <2>2, <2>3 DEF Entitled, shared
  <2>6. TypeShared' /\ Proven'
    BY <1>1, <2>3 DEF TypeShared, IInv, Proven, Earned, shared
  <2> QED BY <2>1, <2>2, <2>3, <2>4, <2>5, <2>6, Moves DEF shared
<1>4. CASE WriteRow(r)
  <2> DEFINE read == req[r].new
             written == [read EXCEPT !.status = IF req[r].result = "ok" THEN "verified" ELSE "failed"]
  <2>k. PICK k \in ReqTypes : k = [req[r] EXCEPT !.at = "history", !.new = NoRow]
    <3>1. [req[r] EXCEPT !.at = "history", !.new = NoRow] \in ReqTypes
      BY <1>1, Words DEF ReqTypes, Steps
    <3> QED BY <3>1
  <2>1. /\ req[r].at = "write_row" /\ config' = Merged(read, written, config)
        /\ raced' = (raced \/ config # read) /\ req' = [req EXCEPT ![r] = k]
        /\ UNCHANGED <<rowLock, cache, cacheLock, client, proofs, accepted, dossier, vehicle, offered>>
    BY <1>4, <2>k DEF WriteRow, Races
  <2>2. /\ written \in Configs /\ written.cred = read.cred
        /\ written.status = "verified" => req[r].result = "ok"
    BY <1>2 DEF Configs, Statuses
  <2> HIDE DEF written
  <2>3. config' \in Configs /\ (config = read => config' = written)
    BY <1>2, <2>1, <2>2, MergedRow
  <2>4. /\ k \in ReqTypes /\ k.at = "history" /\ k.op = req[r].op
        /\ k.mine = req[r].mine /\ k.closing = req[r].closing /\ k.loaded = req[r].loaded
        /\ k.result = req[r].result
    BY <1>1, <2>k DEF ReqTypes
  <2>5. Carries(k)
    BY <1>1, <1>2, <2>1, <2>4 DEF Carries
  <2>6. Entitled(k)'
    BY <1>1, <2>1, <2>4 DEF Entitled
  <2>7. Proven'
    <3>1. config = read /\ req[r].result = "ok" => read.cred \in accepted
      BY <1>1, <2>1 DEF Entitled
    <3> QED BY <2>1, <2>2, <2>3, <3>1 DEF IInv, Proven, Earned
  <2>8. TypeShared'
    <3>1. raced' \in BOOLEAN
      BY <2>1
    <3> QED BY <1>1, <2>1, <2>3, <3>1 DEF TypeShared
  <2> QED BY <2>1, <2>4, <2>5, <2>6, <2>7, <2>8, Moves
<1> QED BY <1>3, <1>4

LEMMA HitKeeps ==
  ASSUME IInv, NEW r \in Threads, Hit(r)
  PROVE  IInv'
<1>1. /\ req \in [Threads -> ReqTypes] /\ cache \in Seq(EntryTypes) /\ TypeShared
      /\ req[r] \in ReqTypes /\ Carries(req[r]) /\ Referenced(req[r])
      /\ req[r].op \in Operations /\ Distinct(cache)
  BY Typed DEF IInv, ReqTypes, CacheSound
<1>2. PICK n \in Cached(req[r].loaded.cred) :
        /\ cache' = Append(RemoveAt(cache, n), cache[n])
        /\ Takes(r, cache[n].client)
  BY DEF Hit
<1>3. n \in 1..Len(cache) /\ req[r].at = "lock" /\ UNCHANGED client
  BY <1>2 DEF Hit, Cached, Inside
<1>4. /\ cache[n] \in EntryTypes /\ cache[n].client \in Clients
      /\ cache[n].client \in ClientsOf(cache)
  BY <1>1, <1>3, Entries DEF EntryTypes
<1>5. /\ cache' \in Seq(EntryTypes) /\ Len(cache') = Len(cache) /\ Distinct(cache')
      /\ ClientsOf(cache') = ClientsOf(cache)
  <2>1. PICK s \in Seq(EntryTypes) :
          /\ s = RemoveAt(cache, n) /\ Len(s) = Len(cache) - 1 /\ Distinct(s)
          /\ ClientsOf(s) = ClientsOf(cache) \ {cache[n].client}
          /\ \A i \in 1..Len(s) : s[i].cred # cache[n].cred
    BY <1>1, <1>3, RemovedEntry
  <2>2. /\ Append(s, cache[n]) \in Seq(EntryTypes)
        /\ Len(Append(s, cache[n])) = Len(s) + 1
        /\ Distinct(Append(s, cache[n]))
        /\ ClientsOf(Append(s, cache[n])) = ClientsOf(s) \cup {cache[n].client}
    BY <1>4, <2>1, AppendedEntry
  <2>3. Len(cache) \in Nat
    BY <1>1, Entries
  <2> QED BY <1>2, <1>4, <2>1, <2>2, <2>3
<1>6. PICK k : /\ k = [req[r] EXCEPT !.mine = cache[n].client,
                        !.at = IF req[r].closing = {} THEN "call" ELSE "close"]
               /\ req' = [req EXCEPT ![r] = k]
  BY <1>2 DEF Takes
<1>7. /\ k \in ReqTypes /\ k.mine = cache[n].client /\ k.closing = req[r].closing
      /\ k.at = (IF req[r].closing = {} THEN "call" ELSE "close")
      /\ k.op = req[r].op /\ k.calls = req[r].calls /\ k.loaded = req[r].loaded
  <2>1. PICK c \in Clients : c = cache[n].client
    BY <1>4
  <2> QED BY <1>1, <1>6, <2>1 DEF ReqTypes, Steps
<1>8. req[r].op \in Callers /\ req[r].calls # <<>> /\ req[r].loaded.cred \in Creds
  BY <1>1, <1>3, OpCases DEF Carries
<1>9. k.mine \notin k.closing
  BY <1>1, <1>4, <1>7 DEF Referenced
<1>10. Carries(k)
  BY <1>4, <1>7, <1>8, <1>9, Words DEF Carries, Callers, Writers
<1>11. /\ req' \in [Threads -> ReqTypes] /\ req'[r] = k
       /\ \A q \in Threads : q # r => req'[q] = req[q]
  BY <1>1, <1>6, <1>7
<1>12. Entitled(req[r])'
  <2>1. k.op \notin Writers /\ k.at \in {"call", "close"}
    BY <1>7, <1>8 DEF Callers, Writers
  <2> QED BY <1>11, <2>1 DEF Entitled
<1>13. UNCHANGED <<client, config, proofs, accepted, raced>> /\ TypeShared'
  BY <1>1, <1>2, <1>3 DEF Takes, shared, TypeShared
<1> QED BY <1>3, <1>4, <1>5, <1>7, <1>10, <1>11, <1>12, <1>13, CacheShuffles

\* The other steps on the cache.
LEMMA CacheKeeps ==
  ASSUME IInv, NEW r \in Threads,
         LockCache(r) \/ Sweep(r) \/ Evict(r) \/ Invalidate(r)
  PROVE  IInv'
<1>1. /\ req \in [Threads -> ReqTypes] /\ cache \in Seq(EntryTypes) /\ TypeShared
      /\ req[r] \in ReqTypes /\ Carries(req[r]) /\ Entitled(req[r])
      /\ Len(cache) \in Nat
  BY Typed, Entries DEF IInv
<1>2. CASE LockCache(r)
  <2>1. TypeShared' /\ Proven'
    BY <1>1, <1>2 DEF LockCache, TypeShared, IInv, Proven, Earned, shared
  <2> QED BY <1>2, <2>1, SharedMoves DEF LockCache, shared
<1>3. CASE Sweep(r)
  <2>1. (CHOOSE n \in Expired : TRUE) \in 1..Len(cache)
    BY <1>3 DEF Sweep, Expired
  <2> QED BY <1>3, <2>1, RetiresKeep DEF Sweep
<1>4. ASSUME cache # <<>>, Retires(r, 1), req[r].at \in {"lock", "clear"}
      PROVE  IInv'
  <2>1. Len(cache) # 0
    BY <1>1, <1>4, EmptySeq
  <2>2. 1 \in 1..Len(cache)
    BY <1>1, <2>1
  <2> QED BY <1>4, <2>2, RetiresKeep
<1>5. CASE Evict(r)
  <2>1. Len(cache) >= CacheSize
    BY <1>5 DEF Evict, HasToRetire
  <2>2. cache # <<>>
    BY <1>1, <2>1, Words
  <2> QED BY <1>4, <1>5, <2>2 DEF Evict
<1>6. CASE Invalidate(r)
  <2>1. CASE HasToRetire(r) /\ Retires(r, 1) /\ req[r].at = "clear"
    BY <1>4, <2>1 DEF HasToRetire
  <2>2. CASE ~(HasToRetire(r) /\ Retires(r, 1) /\ req[r].at = "clear")
    <3>1. /\ req[r].at = "clear" /\ cacheLock' = None
          /\ Goes(r, IF req[r].closing = {} THEN "commit" ELSE "close")
          /\ UNCHANGED <<shared, cache, client, dossier, vehicle>>
      BY <1>6, <2>2 DEF Invalidate, Inside
    <3>2. PICK s \in {"commit", "close"} :
            s = (IF req[r].closing = {} THEN "commit" ELSE "close")
      OBVIOUS
    <3>3. PICK k \in ReqTypes :
            /\ req' = [req EXCEPT ![r] = k] /\ k.at = s
            /\ k.op = req[r].op /\ k.mine = req[r].mine /\ k.closing = req[r].closing
            /\ k.new = req[r].new
      <4>1. s \in Steps /\ Goes(r, s)
        BY <3>1, <3>2 DEF Steps
      <4> QED BY <1>1, <4>1, Goings
    <3>4. req[r].op \in Writers /\ req[r].mine = None
      <4>1. req[r].op \in Operations
        BY <1>1 DEF ReqTypes
      <4> QED BY <1>1, <3>1, <4>1, OpCases DEF Carries
    <3>5. Carries(k)
      BY <1>1, <3>2, <3>3, <3>4 DEF Carries, Writers, Callers
    <3>6. Entitled(k)'
      BY <1>1, <3>1, <3>2, <3>3, <3>4 DEF Entitled, Earned, shared
    <3>7. TypeShared' /\ Proven'
      BY <1>1, <3>1 DEF TypeShared, IInv, Proven, Earned, shared
    <3> QED BY <3>1, <3>3, <3>5, <3>6, <3>7, Moves DEF shared
  <2> QED BY <2>1, <2>2
<1> QED BY <1>2, <1>3, <1>5, <1>6

LEMMA ExpireKeeps ==
  ASSUME IInv, NEW n \in 1..Len(cache), Expire(n)
  PROVE  IInv'
<1>1. /\ req \in [Threads -> ReqTypes] /\ cache \in Seq(EntryTypes) /\ TypeShared
      /\ Distinct(cache)
  BY Typed DEF IInv, CacheSound
<1> DEFINE e == [cache[n] EXCEPT !.old = TRUE]
<1>2. cache[n] \in EntryTypes
  BY <1>1, Entries
<1>3. e \in EntryTypes /\ e.client = cache[n].client /\ e.cred = cache[n].cred
  BY <1>2 DEF EntryTypes
<1>4. cache' = [cache EXCEPT ![n] = e]
  BY DEF Expire
<1> HIDE DEF e
<1>5. /\ cache' \in Seq(EntryTypes) /\ Len(cache') = Len(cache)
      /\ \A i \in 1..Len(cache) : cache'[i] = IF i = n THEN e ELSE cache[i]
  BY <1>1, <1>3, <1>4, ExceptSeq
<1>6. \A i \in 1..Len(cache) : cache'[i].client = cache[i].client /\ cache'[i].cred = cache[i].cred
  BY <1>3, <1>5
<1>7. Distinct(cache') /\ ClientsOf(cache') = ClientsOf(cache)
  BY <1>1, <1>5, <1>6 DEF Distinct, ClientsOf
<1>8. UNCHANGED <<req, client, config, proofs, accepted, raced>> /\ TypeShared'
  BY <1>1 DEF Expire, shared, TypeShared
<1> QED BY <1>1, <1>5, <1>7, <1>8, CacheShuffles
-----------------------------------------------------------------------------
(* Calls to the portal. *)

DossierTypes ==
  [known : BOOLEAN, row : {"none", "processing", "done", "failed"},
   falhas : 0..TransientMax, failures : 0..TransientMax, overlapped : BOOLEAN]

\* A request before or in a call holds a client of its own.
LEMMA Calling ==
  ASSUME IInv, NEW r \in Threads, req[r].at = "call" \/ Answered(r)
  PROVE  /\ req \in [Threads -> ReqTypes] /\ req[r] \in ReqTypes /\ TypeShared
         /\ req[r].op \in Callers /\ req[r].mine \in Clients /\ req[r].mine # None
         /\ req[r].closing = {} /\ req[r].loaded.cred \in Creds
         /\ req[r].calls # <<>> /\ req[r].calls \in Seq(CallNames)
         /\ client[req[r].mine] \in ClientTypes
         /\ client[req[r].mine].retired \/ req[r].mine \in ClientsOf(cache)
<1>1. /\ req \in [Threads -> ReqTypes] /\ req[r] \in ReqTypes /\ TypeShared
      /\ client \in [Clients -> ClientTypes] /\ Carries(req[r]) /\ Referenced(req[r])
  BY Typed DEF IInv
<1>2. /\ req[r].op \in Operations /\ req[r].mine \in Clients \cup {None}
      /\ req[r].calls \in Seq(CallNames)
  BY <1>1 DEF ReqTypes
<1>3. req[r].at \in {"call", "http"} /\ (req[r].at = "http" => req[r].op # "test")
  BY DEF Answered
<1>4. req[r].op \in Callers
  BY <1>1, <1>2, <1>3, OpCases DEF Carries
<1> QED BY <1>1, <1>2, <1>3, <1>4 DEF Carries, Referenced

\* A failed call: the request goes on without a client to close.
LEMMA FailsTo ==
  ASSUME IInv, NEW r \in Threads, req[r].at = "call" \/ Answered(r),
         NEW result \in {"down", "auth", "retired"}, Fails(r, result)
  PROVE  /\ dossier' \in DossierTypes
         /\ \E k \in ReqTypes :
              /\ req' = [req EXCEPT ![r] = k] /\ Carries(k) /\ Entitled(k)
              /\ k.mine = req[r].mine /\ k.closing = req[r].closing
<1>1. /\ req[r] \in ReqTypes /\ TypeShared /\ req[r].op \in Callers
      /\ req[r].mine # None /\ req[r].closing = {} /\ req[r].loaded.cred \in Creds
  BY Calling
<1>2. PICK s \in {"count", "read_row", "history"} :
        s = (IF req[r].op = "poll" THEN "count"
             ELSE IF result = "auth" THEN "read_row" ELSE "history")
  OBVIOUS
<1>3. PICK k \in ReqTypes : k = [req[r] EXCEPT !.result = result, !.at = s]
  <2>1. [req[r] EXCEPT !.result = result, !.at = s] \in ReqTypes
    BY <1>1 DEF ReqTypes, Steps
  <2> QED BY <2>1
<1>4. /\ k.at = s /\ k.result = result /\ k.op = req[r].op /\ k.mine = req[r].mine
      /\ k.closing = req[r].closing /\ k.loaded = req[r].loaded
  BY <1>1, <1>3 DEF ReqTypes
<1>5. req' = [req EXCEPT ![r] = k]
  BY <1>2, <1>3 DEF Fails
<1>6. Carries(k)
  BY <1>1, <1>4 DEF Carries, Callers, Writers
<1>7. Entitled(k)
  BY <1>1, <1>4 DEF Entitled, Callers, Writers
<1>8. dossier' \in DossierTypes
  <2>1. dossier \in DossierTypes /\ TransientMax \in Nat
    BY <1>1, Words DEF TypeShared, DossierTypes
  <2> QED BY <2>1 DEF Fails, DossierTypes
<1> QED BY <1>4, <1>5, <1>6, <1>7, <1>8

\* The lock is taken, or a retired client refuses.
LEMMA CallKeeps ==
  ASSUME IInv, NEW r \in Threads, CallPortal(r)
  PROVE  IInv'
<1>1. /\ req[r].at = "call" /\ client[req[r].mine].lock = None
      /\ UNCHANGED <<shared, cache, cacheLock, vehicle>>
  BY DEF CallPortal
<1>2. /\ req \in [Threads -> ReqTypes] /\ req[r] \in ReqTypes /\ TypeShared
      /\ req[r].op \in Callers /\ req[r].mine \in Clients /\ req[r].mine # None
      /\ req[r].closing = {} /\ req[r].loaded.cred \in Creds /\ req[r].calls # <<>>
      /\ client[req[r].mine] \in ClientTypes
      /\ client[req[r].mine].retired \/ req[r].mine \in ClientsOf(cache)
  BY <1>1, Calling
<1>3. Proven'
  BY <1>1 DEF IInv, Proven, Earned, shared
<1>4. CASE client[req[r].mine].retired
  <2>1. Fails(r, "retired") /\ UNCHANGED client
    BY <1>4 DEF CallPortal
  <2>2. PICK k \in ReqTypes :
          /\ req' = [req EXCEPT ![r] = k] /\ Carries(k) /\ Entitled(k)
          /\ k.mine = req[r].mine /\ k.closing = req[r].closing
    BY <1>1, <2>1, FailsTo
  <2>3. TypeShared'
    <3>1. dossier' \in DossierTypes
      BY <1>1, <2>1, FailsTo
    <3> QED BY <1>1, <1>2, <3>1 DEF TypeShared, shared, DossierTypes
  <2>4. Entitled(k)'
    BY <1>1, <2>2 DEF Entitled, Earned, shared
  <2> QED BY <1>1, <1>3, <2>1, <2>2, <2>3, <2>4, Moves DEF shared
<1>5. CASE ~client[req[r].mine].retired
  <2>1. PICK k \in ReqTypes : k = [req[r] EXCEPT !.at = "http"]
    BY <1>2, SetAt DEF Steps
  <2>2. /\ k.at = "http" /\ k.op = req[r].op /\ k.mine = req[r].mine /\ k.calls = req[r].calls
        /\ k.closing = req[r].closing /\ k.loaded = req[r].loaded
    BY <1>2, <2>1 DEF ReqTypes
  <2>3. PICK d \in ClientTypes : d = [client[req[r].mine] EXCEPT !.lock = r, !.open = TRUE]
    BY <1>2 DEF ClientTypes
  <2>4. d.lock = r /\ d.open /\ d.retired = client[req[r].mine].retired
    BY <1>2, <2>3 DEF ClientTypes
  <2>5. /\ req' = [req EXCEPT ![r] = k] /\ client' = [client EXCEPT ![req[r].mine] = d]
        /\ UNCHANGED dossier
    BY <1>5, <2>1, <2>3 DEF CallPortal, Goes
  <2>6. Carries(k)
    BY <1>2, <2>2 DEF Carries, Callers, Writers
  <2>7. Entitled(k) /\ k.op # "test"
    BY <1>2, <2>2 DEF Entitled, Callers, Writers
  <2>8. TypeShared'
    BY <1>1, <1>2, <2>5 DEF TypeShared, shared
  <2> QED BY <1>1, <1>2, <1>5, <2>2, <2>4, <2>5, <2>6, <2>7, <2>8, PortalMoves DEF shared
<1> QED BY <1>4, <1>5

\* The lock is handed back.
LEMMA Unlocked ==
  ASSUME IInv, NEW r \in Threads, Answered(r), Unlocks(r), NEW k \in ReqTypes,
         req' = [req EXCEPT ![r] = k], k.mine = req[r].mine, k.closing = req[r].closing,
         Carries(k), Entitled(k), dossier' \in DossierTypes,
         UNCHANGED <<shared, cache, cacheLock, vehicle>>
  PROVE  IInv'
<1>1. /\ TypeShared /\ req[r].mine \in Clients /\ client[req[r].mine] \in ClientTypes
  BY Calling
<1>2. PICK d \in ClientTypes : d = [client[req[r].mine] EXCEPT !.lock = None]
  BY <1>1 DEF ClientTypes
<1>3. /\ d.lock = None /\ d.open = client[req[r].mine].open
      /\ d.retired = client[req[r].mine].retired
  BY <1>1, <1>2 DEF ClientTypes
<1>4. client' = [client EXCEPT ![req[r].mine] = d]
  BY <1>2 DEF Unlocks
<1>5. TypeShared'
  BY <1>1 DEF TypeShared, shared, DossierTypes
<1> QED BY <1>1, <1>3, <1>4, <1>5, PortalMoves DEF shared

LEMMA OkKeeps ==
  ASSUME IInv, NEW r \in Threads, AnswerOk(r)
  PROVE  IInv'
<1>0. Succeeds(r, [dossier EXCEPT !.falhas = 0, !.failures = 0])
  BY DEF AnswerOk
<1>1. /\ Answered(r) /\ Unlocks(r) /\ UNCHANGED <<shared, cache, cacheLock, vehicle>>
  BY <1>0, Zenon DEF Succeeds
<1>2. /\ req \in [Threads -> ReqTypes] /\ req[r] \in ReqTypes /\ TypeShared
      /\ req[r].op \in Callers /\ req[r].mine # None
      /\ req[r].closing = {} /\ req[r].loaded.cred \in Creds
      /\ req[r].calls # <<>> /\ req[r].calls \in Seq(CallNames)
  BY <1>1, Calling
<1>3. PICK rest \in Seq(CallNames) : rest = Tail(req[r].calls)
  BY <1>2, HeadTailProperties
<1>4. PICK s \in {"call", "read_vehicle", "history"} :
        /\ s = (IF rest # <<>> THEN "call"
                ELSE IF req[r].op = "update" THEN "read_vehicle" ELSE "history")
        /\ s = "call" => rest # <<>>
  OBVIOUS
<1>5. PICK owner \in Owners :
        owner = IF Call(r) \in {"pull", "wait"} THEN vehicle.portal ELSE req[r].owner
  BY <1>2 DEF TypeShared, ReqTypes
<1>6. PICK k \in ReqTypes :
        k = [req[r] EXCEPT !.result = "ok", !.calls = rest, !.at = s, !.left = Tries,
                           !.owner = owner]
  <2>1. Tries \in 1..Tries
    BY Words
  <2>2. [req[r] EXCEPT !.result = "ok", !.calls = rest, !.at = s, !.left = Tries,
                       !.owner = owner] \in ReqTypes
    BY <1>2, <2>1 DEF ReqTypes, Steps
  <2> QED BY <2>2
<1>7. /\ k.at = s /\ k.op = req[r].op /\ k.mine = req[r].mine /\ k.calls = rest
      /\ k.closing = req[r].closing /\ k.loaded = req[r].loaded
  BY <1>2, <1>6 DEF ReqTypes
<1>8. req' = [req EXCEPT ![r] = k]
  <2>1. req' = [req EXCEPT ![r].result = "ok", ![r].calls = rest, ![r].at = s,
                           ![r].left = Tries, ![r].owner = owner]
    BY <1>0, <1>3, <1>4, <1>5, Zenon DEF Succeeds
  <2> QED BY <1>6, <2>1
<1>9. Carries(k) /\ Entitled(k)
  BY <1>2, <1>4, <1>7 DEF Carries, Entitled, Callers, Writers
<1>10. dossier' \in DossierTypes
  <2>1. dossier \in DossierTypes /\ 0 \in 0..TransientMax
    BY <1>2, Words DEF TypeShared, DossierTypes
  <2>2. [dossier EXCEPT !.falhas = 0, !.failures = 0] \in DossierTypes
    BY <2>1 DEF DossierTypes
  <2>3. dossier' = IF req[r].op = "poll" THEN [dossier EXCEPT !.falhas = 0, !.failures = 0]
                   ELSE dossier
    BY <1>0, Zenon DEF Succeeds
  <2> QED BY <2>1, <2>2, <2>3
<1> QED BY <1>1, <1>7, <1>8, <1>9, <1>10, Unlocked

LEMMA ErrorKeeps ==
  ASSUME IInv, NEW r \in Threads, AnswerError(r)
  PROVE  IInv'
<1>1. /\ Answered(r) /\ Unlocks(r) /\ UNCHANGED <<shared, cache, cacheLock, vehicle>>
  BY DEF AnswerError
<1>2. /\ req \in [Threads -> ReqTypes] /\ req[r] \in ReqTypes /\ TypeShared
      /\ req[r].op \in Callers /\ req[r].mine # None
      /\ req[r].closing = {} /\ req[r].loaded.cred \in Creds /\ req[r].calls # <<>>
  BY <1>1, Calling
<1>3. PICK result \in {"down", "auth"} : Errs(r, result)
  BY DEF AnswerError
<1>4. CASE Fails(r, result)
  <2>1. PICK k \in ReqTypes :
          /\ req' = [req EXCEPT ![r] = k] /\ Carries(k) /\ Entitled(k)
          /\ k.mine = req[r].mine /\ k.closing = req[r].closing
    BY <1>1, <1>4, FailsTo
  <2>2. dossier' \in DossierTypes
    BY <1>1, <1>4, FailsTo
  <2> QED BY <1>1, <2>1, <2>2, Unlocked
<1>5. CASE ~Fails(r, result)
  <2>1. /\ req[r].left > 1 /\ UNCHANGED dossier
        /\ req' = [req EXCEPT ![r].at = "call", ![r].left = @ - 1]
    BY <1>3, <1>5 DEF Errs
  <2>2. PICK k \in ReqTypes : k = [req[r] EXCEPT !.at = "call", !.left = @ - 1]
    <3>1. req[r].left \in 1..Tries /\ Tries \in Nat
      BY <1>2, Words DEF ReqTypes
    <3>2. req[r].left - 1 \in 1..Tries
      BY <2>1, <3>1
    <3>3. [req[r] EXCEPT !.at = "call", !.left = @ - 1] \in ReqTypes
      BY <1>2, <3>2 DEF ReqTypes, Steps
    <3> QED BY <3>3
  <2>3. /\ k.at = "call" /\ k.op = req[r].op /\ k.mine = req[r].mine /\ k.calls = req[r].calls
        /\ k.closing = req[r].closing /\ k.loaded = req[r].loaded
    BY <1>2, <2>2 DEF ReqTypes
  <2>4. req' = [req EXCEPT ![r] = k]
    BY <2>1, <2>2
  <2>5. Carries(k) /\ Entitled(k)
    BY <1>2, <2>3 DEF Carries, Entitled, Callers, Writers
  <2>6. dossier' \in DossierTypes
    BY <1>2, <2>1 DEF TypeShared, DossierTypes
  <2> QED BY <1>1, <2>3, <2>4, <2>5, <2>6, Unlocked
<1> QED BY <1>4, <1>5

-----------------------------------------------------------------------------
(* Tests, counters and the vehicle. *)

\* A test that passed is what entitles to "verified".
LEMMA TestKeeps ==
  ASSUME IInv, NEW r \in Threads, TestAnswer(r)
  PROVE  IInv'
<1>1. /\ req \in [Threads -> ReqTypes] /\ req[r] \in ReqTypes /\ TypeShared /\ Carries(req[r])
  BY Typed DEF IInv
<1>2. PICK result \in {"ok", "auth"} :
        /\ req' = [req EXCEPT ![r].result = result, ![r].at = "read_row"]
        /\ accepted' = IF result = "ok" THEN accepted \cup {req[r].loaded.cred} ELSE accepted
  BY DEF TestAnswer
<1>3. /\ req[r].at = "http" /\ req[r].op = "test"
      /\ UNCHANGED <<config, rowLock, proofs, raced, cache, cacheLock, client, dossier, vehicle,
                     offered>>
  BY DEF TestAnswer
<1>4. PICK k \in ReqTypes : k = [req[r] EXCEPT !.result = result, !.at = "read_row"]
  <2>1. [req[r] EXCEPT !.result = result, !.at = "read_row"] \in ReqTypes
    BY <1>1 DEF ReqTypes, Steps
  <2> QED BY <2>1
<1>5. /\ k.at = "read_row" /\ k.result = result /\ k.op = req[r].op /\ k.mine = req[r].mine
      /\ k.closing = req[r].closing /\ k.loaded = req[r].loaded
  BY <1>1, <1>4 DEF ReqTypes
<1>6. req' = [req EXCEPT ![r] = k]
  BY <1>2, <1>4
<1>7. Carries(k)
  BY <1>1, <1>3, <1>5 DEF Carries, Callers, Writers
<1>8. Entitled(k)'
  BY <1>2, <1>3, <1>5 DEF Entitled
<1>9. accepted \subseteq accepted'
  BY <1>2
<1>10. TypeShared'
  <2>1. req[r].loaded.cred \in Creds
    BY <1>1, <1>3 DEF Carries
  <2> QED BY <1>1, <1>2, <1>3, <2>1 DEF TypeShared
<1>11. Proven'
  BY <1>3, <1>9 DEF IInv, Proven, Earned
<1> QED BY <1>3, <1>5, <1>6, <1>7, <1>8, <1>9, <1>10, <1>11, Moves

LEMMA OutsideKeeps ==
  ASSUME IInv, Transfer \/ \E cred \in Creds : ProofExpires(cred)
  PROVE  IInv'
<1>1. TypeShared
  BY Typed DEF IInv
<1>2. CASE Transfer
  <2>1. TypeShared'
    <3>1. vehicle.portal \in 0..MaxOwner /\ vehicle.portal < MaxOwner /\ MaxOwner \in Nat
      BY <1>1, <1>2, RsdAssumption DEF Transfer, TypeShared, Owners
    <3>2. vehicle.portal + 1 \in Owners
      BY <3>1 DEF Owners
    <3> HIDE DEF Owners
    <3>3. vehicle' \in [atual : Owners, anterior : Owners \cup {None}, portal : Owners]
      BY <1>1, <1>2, <3>2 DEF Transfer, TypeShared
    <3> QED BY <1>1, <1>2, <3>3 DEF Transfer, TypeShared, shared
  <2>2. Proven'
    BY <1>2 DEF Transfer, IInv, Proven, Earned, shared
  <2> QED BY <1>2, <2>1, <2>2, SharedMoves DEF Transfer, shared
<1>3. CASE \E cred \in Creds : ProofExpires(cred)
  <2>1. TypeShared' /\ Proven'
    BY <1>1, <1>3 DEF ProofExpires, TypeShared, IInv, Proven, Earned
  <2> QED BY <1>3, <2>1, SharedMoves DEF ProofExpires
<1> QED BY <1>2, <1>3

\* A step of a caller's request between two of its places outside the calls.
LEMMA CallersMove ==
  ASSUME IInv, NEW r \in Threads, NEW k \in ReqTypes, req' = [req EXCEPT ![r] = k],
         req[r].at \in {"count", "add", "read_vehicle", "write_vehicle"},
         k.at \in {"add", "write_vehicle", "read_row", "history"},
         k.at = "read_row" => k.result # "ok",
         k.op = req[r].op, k.mine = req[r].mine, k.closing = req[r].closing,
         k.loaded = req[r].loaded,
         UNCHANGED <<shared, cache, cacheLock, client>>, dossier' \in DossierTypes,
         vehicle' \in [atual : Owners, anterior : Owners \cup {None}, portal : Owners]
  PROVE  IInv'
<1>1. /\ req[r] \in ReqTypes /\ TypeShared /\ Carries(req[r]) /\ req \in [Threads -> ReqTypes]
  BY Typed DEF IInv
<1>2. req[r].op \in Operations
  BY <1>1 DEF ReqTypes
<1>3. /\ req[r].op \in Callers /\ req[r].closing = {} /\ req[r].mine # None
      /\ req[r].loaded.cred \in Creds
  BY <1>1, <1>2, OpCases DEF Carries
<1>4. Carries(k)
  BY <1>3 DEF Carries, Callers, Writers
<1>5. Entitled(k)'
  BY <1>3 DEF Entitled, Callers, Writers
<1>6. TypeShared' /\ Proven'
  BY <1>1 DEF TypeShared, DossierTypes, shared, IInv, Proven, Earned
<1> QED BY <1>4, <1>5, <1>6, Moves DEF shared

\* The counter of a dossier's failures.
LEMMA CountsKeep ==
  ASSUME IInv, NEW r \in Threads, Count(r) \/ Add(r)
  PROVE  IInv'
<1>1. /\ req[r] \in ReqTypes /\ TypeShared /\ req \in [Threads -> ReqTypes]
      /\ dossier \in DossierTypes /\ TransientMax \in Nat
      /\ req[r].count \in Nat
  BY Typed, Words DEF IInv, TypeShared, DossierTypes, ReqTypes
<1>2. vehicle \in [atual : Owners, anterior : Owners \cup {None}, portal : Owners]
  BY <1>1 DEF TypeShared
<1>3. CASE Count(r)
  <2>1. dossier.falhas + 1 \in Nat
    BY <1>1 DEF DossierTypes
  <2>2. PICK k \in ReqTypes : k = [req[r] EXCEPT !.at = "add", !.count = dossier.falhas + 1]
    <3>1. [req[r] EXCEPT !.at = "add", !.count = dossier.falhas + 1] \in ReqTypes
      BY <1>1, <2>1 DEF ReqTypes, Steps
    <3> QED BY <3>1
  <2>3. /\ k.at = "add" /\ k.op = req[r].op /\ k.mine = req[r].mine
        /\ k.closing = req[r].closing /\ k.loaded = req[r].loaded
    BY <1>1, <2>2 DEF ReqTypes
  <2>4. /\ req' = [req EXCEPT ![r] = k] /\ req[r].at = "count"
        /\ UNCHANGED <<shared, cache, cacheLock, client, dossier, vehicle>>
    BY <1>3, <2>2 DEF Count
  <2> QED BY <1>1, <1>2, <2>3, <2>4, CallersMove
<1>4. CASE Add(r)
  <2>1. PICK falhas \in 0..TransientMax : Counted(r, falhas)
    BY <1>1, <1>4 DEF Add
  <2>2. /\ req[r].at = "add" /\ dossier' = [dossier EXCEPT !.falhas = falhas]
        /\ UNCHANGED <<shared, cache, cacheLock, vehicle>>
    BY <2>1 DEF Counted
  <2>3. dossier' \in DossierTypes
    BY <1>1, <2>2 DEF DossierTypes
  <2>4. CASE req[r].count >= TransientMax
    <3>1. PICK s \in {"read_row", "history"} :
            s = (IF req[r].result = "auth" THEN "read_row" ELSE "history")
      OBVIOUS
    <3>2. Goes(r, s) /\ UNCHANGED client
      BY <2>1, <2>4, <3>1 DEF Counted
    <3>3. s \in Steps
      BY DEF Steps
    <3>4. PICK k \in ReqTypes :
            /\ req' = [req EXCEPT ![r] = k]
            /\ k.at = s /\ k.op = req[r].op /\ k.mine = req[r].mine /\ k.result = req[r].result
            /\ k.closing = req[r].closing /\ k.loaded = req[r].loaded
      BY <1>1, <3>2, <3>3, Goings
    <3>5. k.at = "read_row" => k.result # "ok"
      BY <3>1, <3>4
    <3> QED BY <1>2, <2>2, <2>3, <3>2, <3>4, <3>5, CallersMove
  <2>5. CASE ~(req[r].count >= TransientMax)
    <3>1. Ends(r)
      BY <2>1, <2>5 DEF Counted
    <3>2. TypeShared' /\ Proven'
      BY <1>1, <2>2, <2>3 DEF TypeShared, DossierTypes, shared, IInv, Proven, Earned
    <3> QED BY <2>2, <3>1, <3>2, EndsKeep DEF shared
  <2> QED BY <2>4, <2>5
<1> QED BY <1>3, <1>4

\* The owner is read in one step and written in another.
LEMMA VehicleKeeps ==
  ASSUME IInv, NEW r \in Threads, ReadVehicle(r) \/ WriteVehicle(r)
  PROVE  IInv'
<1> DEFINE VehicleTypes == [atual : Owners, anterior : Owners \cup {None}, portal : Owners]
<1>1. /\ req[r] \in ReqTypes /\ TypeShared /\ req \in [Threads -> ReqTypes]
      /\ dossier \in DossierTypes /\ vehicle \in VehicleTypes
  BY Typed DEF IInv, TypeShared, DossierTypes
<1>2. CASE ReadVehicle(r)
  <2>1. PICK k \in ReqTypes :
          k = [req[r] EXCEPT !.stored = vehicle.atual, !.at = "write_vehicle"]
    <3>1. [req[r] EXCEPT !.stored = vehicle.atual, !.at = "write_vehicle"] \in ReqTypes
      BY <1>1 DEF ReqTypes, Steps
    <3> QED BY <3>1
  <2>2. /\ k.at = "write_vehicle" /\ k.op = req[r].op /\ k.mine = req[r].mine
        /\ k.closing = req[r].closing /\ k.loaded = req[r].loaded
    BY <1>1, <2>1 DEF ReqTypes
  <2>3. /\ req' = [req EXCEPT ![r] = k] /\ req[r].at = "read_vehicle"
        /\ UNCHANGED <<shared, cache, cacheLock, client, dossier, vehicle>>
    BY <1>2, <2>1 DEF ReadVehicle
  <2> QED BY <1>1, <2>2, <2>3, CallersMove
<1>3. CASE WriteVehicle(r)
  <2>1. /\ req[r].at = "write_vehicle" /\ Goes(r, "history")
        /\ vehicle' \in {vehicle, Rotated(req[r].stored, req[r].owner, vehicle)}
        /\ UNCHANGED <<shared, cache, cacheLock, client, dossier>>
    BY <1>3 DEF WriteVehicle
  <2>2. PICK k \in ReqTypes :
          /\ req' = [req EXCEPT ![r] = k]
          /\ k.at = "history" /\ k.op = req[r].op /\ k.mine = req[r].mine
          /\ k.closing = req[r].closing /\ k.loaded = req[r].loaded
    BY <1>1, <2>1, Goings DEF Steps
  <2>3. vehicle' \in VehicleTypes
    <3>1. req[r].stored \in Owners /\ req[r].owner \in Owners
      BY <1>1 DEF ReqTypes
    <3> HIDE DEF Owners
    <3> QED BY <1>1, <2>1, <3>1 DEF Rotated
  <2> QED BY <1>1, <2>1, <2>2, <2>3, CallersMove
<1> QED BY <1>2, <1>3

\* A proof is signed for what a test was accepted with.
LEMMA HistoryKeeps ==
  ASSUME IInv, NEW r \in Threads, History(r)
  PROVE  IInv'
<1>1. /\ req[r] \in ReqTypes /\ TypeShared /\ Carries(req[r]) /\ Entitled(req[r])
      /\ dossier \in DossierTypes
  BY Typed DEF IInv, TypeShared, DossierTypes
<1>2. /\ req[r].at = "history" /\ Ends(r)
      /\ dossier' \in Recorded(req[r].op, req[r].result = "ok")
      /\ proofs' = IF req[r].op = "test" /\ req[r].result = "ok"
                     THEN proofs \cup {req[r].loaded.cred} ELSE proofs
      /\ UNCHANGED <<config, rowLock, accepted, raced, cache, cacheLock, vehicle, offered>>
  BY DEF History
<1>3. dossier' \in DossierTypes
  <2> DEFINE ok == req[r].result = "ok"
             op == req[r].op
  <2> HIDE DEF ok, op
  <2>1. \A d \in Recorded(op, ok) : d \in DossierTypes
    <3>1. /\ \A row \in {"processing", "none"} :
               [dossier EXCEPT !.known = TRUE, !.row = row] \in DossierTypes
          /\ [dossier EXCEPT !.row = "done"] \in DossierTypes
          /\ [dossier EXCEPT !.row = "failed"] \in DossierTypes
      BY <1>1 DEF DossierTypes
    <3>2. CASE op = "start" /\ ok
      <4>1. Recorded(op, ok) = {[dossier EXCEPT !.known = TRUE, !.row = row] :
                                  row \in {"processing", "none"}}
        BY <3>2 DEF Recorded
      <4> QED BY <3>1, <4>1
    <3>3. CASE op = "poll" /\ dossier.row # "none"
      <4>1. Recorded(op, ok) =
              {dossier, [dossier EXCEPT !.row = IF ok THEN "done" ELSE "failed"]}
        BY <3>3 DEF Recorded
      <4> QED BY <1>1, <3>1, <4>1
    <3>4. CASE ~(op = "start" /\ ok) /\ ~(op = "poll" /\ dossier.row # "none")
      <4>1. Recorded(op, ok) = {dossier}
        BY <3>4 DEF Recorded
      <4> QED BY <1>1, <4>1
    <3> QED BY <3>2, <3>3, <3>4
  <2> QED BY <1>2, <2>1 DEF ok, op
<1>4. proofs' \subseteq accepted
  BY <1>1, <1>2 DEF Entitled, IInv, Proven
<1>5. TypeShared'
  <2>1. proofs' \subseteq Creds
    BY <1>1, <1>4 DEF TypeShared
  <2> QED BY <1>1, <1>2, <1>3, <2>1 DEF TypeShared, DossierTypes
<1>6. Proven'
  BY <1>2, <1>4 DEF IInv, Proven, Earned
<1> QED BY <1>2, <1>5, <1>6, EndsKeep

-----------------------------------------------------------------------------
(* The invariant holds. *)

LEMMA InitIInv == InitRsd => IInv
<1> SUFFICES ASSUME InitRsd PROVE IInv
  OBVIOUS
<1> USE DEF InitRsd
<1>1. \A r \in Threads : req[r] = Idle(NoRow)
  OBVIOUS
<1>2. /\ Idle(NoRow) \in ReqTypes /\ Idle(NoRow).at = "idle" /\ Idle(NoRow).mine = None
      /\ Idle(NoRow).closing = {}
  BY IdleTypes, Words
<1>3. PICK cred \in Stored : config = [NoRow EXCEPT !.cred = cred]
  OBVIOUS
<1>4. config \in Configs /\ config.status # "verified"
  BY <1>3, Words, RsdAssumption DEF Configs, Statuses
<1>5. TypeRsd
  <2>1. TypeShared
    <3>1. dossier \in DossierTypes
      <4>1. 0 \in 0..TransientMax
        BY Words
      <4>2. /\ ("poll" \in offered) \in BOOLEAN
            /\ (IF "poll" \in offered THEN "processing" ELSE "none") \in {"processing", "none"}
        OBVIOUS
      <4> QED BY <4>1, <4>2 DEF DossierTypes
    <3>2. vehicle \in [atual : Owners, anterior : Owners \cup {None}, portal : Owners]
      <4>1. 0 \in Owners
        BY RsdAssumption DEF Owners
      <4> HIDE DEF Owners
      <4> QED BY <4>1
    <3> QED BY <1>4, <3>1, <3>2 DEF TypeShared, DossierTypes
  <2>2. client \in [Clients -> ClientTypes] /\ req \in [Threads -> ReqTypes]
    BY <1>2, Words
  <2>3. cache \in Seq(EntryTypes)
    BY EmptySeq
  <2> QED BY <2>1, <2>2, <2>3 DEF TypeRsd, TypeShared, ClientTypes, EntryTypes, ReqTypes, CallNames
<1>6. CacheSound /\ ClientsOf(cache) = {}
  <2>1. Len(cache) = 0
    BY EmptySeq
  <2>2. ClientsOf(cache) = {} /\ Distinct(cache)
    BY <2>1 DEF ClientsOf, Distinct
  <2> QED BY <2>1, <2>2, Words DEF CacheSound
<1>7. \A c \in Clients : ~client[c].open /\ client[c].lock = None
  BY Words
<1>8. Reachable /\ Locked /\ Proven
  BY <1>4, <1>7 DEF Reachable, Locked, Proven, Earned
<1>9. \A r \in Threads : Carries(req[r]) /\ Referenced(req[r]) /\ Entitled(req[r])
  BY <1>1, <1>2 DEF Carries, Referenced, Entitled
<1> QED BY <1>5, <1>6, <1>8, <1>9 DEF IInv

LEMMA StutterKeeps == ASSUME IInv, UNCHANGED vars PROVE IInv'
<1>1. TypeShared' /\ Proven'
  BY Typed DEF IInv, vars, TypeShared, Proven, Earned
<1> QED BY <1>1, SharedMoves DEF vars

LEMMA NextKeeps == ASSUME IInv, [Next]_vars PROVE IInv'
<1>1. ASSUME NEW r \in Threads, BeginSave(r) \/ BeginTest(r) \/ BeginCall(r) PROVE IInv'
  BY <1>1, BeginningsKeep
<1>2. ASSUME NEW r \in Threads, RequestStep(r) PROVE IInv'
  <2>1. CASE Save(r) \/ Revoke(r) \/ Commit(r)
    BY <2>1, UpdatesKeep, CommitKeeps
  <2>2. CASE ReadRow(r) \/ WriteRow(r)
    BY <2>2, RecordsKeep
  <2>3. CASE LockCache(r) \/ Sweep(r) \/ Evict(r) \/ Invalidate(r)
    BY <2>3, CacheKeeps
  <2>4. CASE Hit(r) \/ Open(r) \/ Close(r)
    BY <2>4, HitKeeps, OpenKeeps, CloseKeeps
  <2>5. CASE CallPortal(r) \/ AnswerOk(r) \/ AnswerError(r) \/ TestAnswer(r)
    BY <2>5, CallKeeps, OkKeeps, ErrorKeeps, TestKeeps
  <2>6. CASE Count(r) \/ Add(r) \/ ReadVehicle(r) \/ WriteVehicle(r) \/ History(r)
    BY <2>6, CountsKeep, VehicleKeeps, HistoryKeeps
  <2> QED BY <1>2, <2>1, <2>2, <2>3, <2>4, <2>5, <2>6 DEF RequestStep
<1>3. ASSUME NEW n \in 1..Len(cache), Expire(n) PROVE IInv'
  BY <1>3, ExpireKeeps
<1>4. ASSUME (\E cred \in Creds : ProofExpires(cred)) \/ Transfer PROVE IInv'
  BY <1>4, OutsideKeeps
<1> QED BY <1>1, <1>2, <1>3, <1>4, StutterKeeps DEF Next

\* The places of the requests, the cache and the locks agree in every state.
THEOREM Invariance == Spec => []IInv
<1>1. InitRsd => IInv
  BY InitIInv
<1>2. IInv /\ [Next]_vars => IInv'
  BY NextKeeps
<1> QED BY <1>1, <1>2, PTL DEF Spec

-----------------------------------------------------------------------------
(* What it says. *)

\* The rows, the clients, the cache and the requests keep their types.
THEOREM RsdTypes == Spec => []TypeRsd
<1>1. IInv => TypeRsd
  BY DEF IInv
<1> QED BY <1>1, Invariance, PTL

\* Whatever expires, is evicted or invalidated meanwhile, the cache holds at
\* most its limit of open clients, one for each credential (client_from_config).
THEOREM CacheHandsOut == Spec => []CacheIsUsable
<1>1. ASSUME IInv PROVE CacheIsUsable
  <2>1. Len(cache) <= CacheSize /\ Distinct(cache)
    BY <1>1 DEF IInv, CacheSound
  <2>2. \A n \in 1..Len(cache) : cache[n].client \in ClientsOf(cache)
    BY DEF ClientsOf
  <2>3. \A c \in ClientsOf(cache) : client[c].open /\ ~client[c].retired
    BY <1>1 DEF IInv, CacheSound
  <2> QED BY <2>1, <2>2, <2>3 DEF CacheIsUsable, Distinct
<1> QED BY <1>1, Invariance, PTL

\* Every open client is in the cache, or a request has it in its list to close
\* (RsdClient._http, close).
THEOREM ClientsAreClosed == Spec => []NoClientLeaks
<1>1. IInv => NoClientLeaks
  BY DEF IInv, Reachable, ClientsOf, NoClientLeaks
<1> QED BY <1>1, Invariance, PTL

\* A client is not closed, nor retired, while a request calls the portal with it
\* (RsdClient._retire).
THEOREM CallsGoOn == Spec => []CallsAreNotCut
<1>1. IInv => CallsAreNotCut
  BY DEF IInv, Locked, CallsAreNotCut
<1> QED BY <1>1, Invariance, PTL

\* The row says "verified" only of a credential the portal accepted in a test,
\* or after two requests have updated the row at once (atualizar_config).
THEOREM VerifiedIsProven == Spec => []VerifiedUnlessRaced
<1>1. IInv => VerifiedUnlessRaced
  BY DEF IInv, Proven, Earned, VerifiedUnlessRaced
<1> QED BY <1>1, Invariance, PTL

=============================================================================
