----------------------- MODULE WooviWebhookKeysProofs -----------------------
(***************************************************************************)
(* The bounds on trust and refusal, for any number of handlers and keys    *)
(* and any cache lifetime.  The invariant dates every set of keys: the     *)
(* entry from the start of the fetch that filled it, a fetched set from    *)
(* the start of its handler.  Withdrawals and publications happen now, so  *)
(* they disturb nothing that is dated.                                     *)
(***************************************************************************)
EXTENDS WooviWebhookKeys, TLAPS

\* S is what was published at some moment not before t.
Dated(S, t) ==
    /\ t <= clock
    /\ \A k \in S : PublishedAfter(k, t)
    /\ \A k \in Keys \ S : ~PublishedSince(k, t)

HandlerDated(h) ==
    /\ local[h].now <= clock
    /\ pc[h] # "idle" => local[h].signer \in Keys
    /\ pc[h] = "store" => Dated(local[h].keys, local[h].now)
    /\ pc[h] = "verify" /\ local[h].fetched =>
          Dated(local[h].keys, local[h].now - Ttl)
    /\ pc[h] = "verified" /\ local[h].fetched =>
          PublishedAfter(local[h].signer, local[h].now - Ttl)
    /\ pc[h] = "refused" /\ local[h].fetched =>
          ~PublishedSince(local[h].signer, local[h].now - Ttl)

KInv ==
    /\ TypeOK
    /\ Dated(entry.keys, entry.expires - Ttl)
    /\ \A h \in Handlers : HandlerDated(h)

-----------------------------------------------------------------------------
(* Dates.                                                                   *)

LEMMA Numbers ==
    ASSUME TypeOK
    PROVE  /\ clock \in Nat /\ Ttl \in Nat /\ LongAgo \in Int
           /\ entry.expires \in Int /\ entry.keys \in SUBSET Keys
           /\ \A k \in Keys : changed[k] \in Int /\ changed[k] >= LongAgo
           /\ \A h \in Handlers : local[h] \in Locals /\ local[h].now \in Nat
BY TimeAssumption DEF TypeOK, Time, LongAgo, Entries, Locals

\* What is dated from t is dated from any earlier time.
LEMMA DatedEarlier ==
    ASSUME TypeOK, NEW S \in SUBSET Keys, NEW t \in Int, Dated(S, t),
           NEW u \in Int, u <= t
    PROVE  Dated(S, u)
BY Numbers DEF Dated, PublishedAfter, PublishedSince

\* What Woovi does, and the passing of time, leave every date alone.
LEMMA DatesStay ==
    ASSUME TypeOK, Tick \/ \E k \in Keys : Rotate(k),
           NEW k \in Keys, NEW t \in Int, t <= clock
    PROVE  /\ t <= clock'
           /\ PublishedAfter(k, t) => PublishedAfter(k, t)'
           /\ ~PublishedSince(k, t) => ~PublishedSince(k, t)'
<1>1. CASE Tick
  BY <1>1, Numbers DEF Tick, PublishedAfter, PublishedSince
<1>2. ASSUME NEW j \in Keys, Rotate(j)
      PROVE  /\ t <= clock'
             /\ PublishedAfter(k, t) => PublishedAfter(k, t)'
             /\ ~PublishedSince(k, t) => ~PublishedSince(k, t)'
  <2>1. /\ clock' = clock
        /\ changed'[k] = IF k = j THEN clock ELSE changed[k]
        /\ k # j => (k \in published' <=> k \in published)
    BY <1>2 DEF Rotate, TypeOK
  <2>2. k \in published /\ k = j => k \notin published'
    BY <1>2 DEF Rotate
  <2> QED
    BY <2>1, <2>2, Numbers DEF PublishedAfter, PublishedSince
<1> QED
  BY <1>1, <1>2

-----------------------------------------------------------------------------
(* The steps.                                                               *)

LEMMA InitDated == Init => KInv
<1> SUFFICES ASSUME Init
             PROVE  KInv
  OBVIOUS
<1>1. TypeOK
  BY TimeAssumption DEF Init, TypeOK, Time, LongAgo, Entries, NoEntry, Locals, NoLocals, Steps
<1>2. Dated(entry.keys, entry.expires - Ttl)
  BY TimeAssumption
     DEF Init, Dated, NoEntry, LongAgo, PublishedSince
<1>3. ASSUME NEW h \in Handlers
      PROVE  HandlerDated(h)
  BY DEF Init, HandlerDated, NoLocals
<1> QED
  BY <1>1, <1>2, <1>3 DEF KInv

\* A step of a handler h: the others, the provider and the time stay.
LEMMA HandlerStepDated ==
    ASSUME KInv, NEW h \in Handlers, NEW step \in Steps, NEW l \in Locals,
           UNCHANGED world, Goto(h, step), local' = [local EXCEPT ![h] = l],
           entry' \in Entries, Dated(entry'.keys, entry'.expires - Ttl),
           HandlerDated(h)'
    PROVE  KInv'
<1>1. TypeOK'
  BY DEF KInv, TypeOK, Goto, world
<1>2. Dated(entry.keys, entry.expires - Ttl)'
  BY DEF Dated, PublishedAfter, PublishedSince, world
<1>3. ASSUME NEW g \in Handlers \ {h}
      PROVE  HandlerDated(g)'
  <2>1. pc'[g] = pc[g] /\ local'[g] = local[g] /\ HandlerDated(g)
    BY DEF KInv, TypeOK, Goto
  <2> QED
    BY <2>1 DEF HandlerDated, Dated, PublishedAfter, PublishedSince, world
<1> QED
  BY <1>1, <1>2, <1>3 DEF KInv

LEMMA ReceiveDated ==
    ASSUME KInv, NEW h \in Handlers, NEW k \in Keys, Receive(h, k)
    PROVE  KInv'
<1>0. PICK l : l = [NoLocals EXCEPT !.signer = k, !.now = clock]
  OBVIOUS
<1>1. l \in Locals /\ l.now = clock /\ l.signer = k
  BY <1>0 DEF KInv, TypeOK, NoLocals, Locals
<1>2. Goto(h, "read") /\ local' = [local EXCEPT ![h] = l] /\ UNCHANGED <<world, entry>>
  BY <1>0 DEF Receive
<1>3. pc'[h] = "read" /\ local'[h] = l /\ clock' = clock
  BY <1>2 DEF Goto, KInv, TypeOK, world
<1>4. HandlerDated(h)'
  BY <1>1, <1>3, Numbers DEF HandlerDated, KInv
<1> QED
  BY <1>1, <1>2, <1>4, HandlerStepDated DEF KInv, TypeOK, Steps

LEMMA ReadEntryDated ==
    ASSUME KInv, NEW h \in Handlers, ReadEntry(h)
    PROVE  KInv'
<1> DEFINE step == IF Current(h) THEN "verify" ELSE "fetch"
<1>0. PICK l : l = [local[h] EXCEPT !.keys = entry.keys]
  OBVIOUS
<1>1. /\ local[h] \in Locals /\ HandlerDated(h) /\ pc[h] = "read"
      /\ Dated(entry.keys, entry.expires - Ttl)
  BY Numbers DEF KInv, ReadEntry
<1>2. /\ l \in Locals /\ l.now = local[h].now /\ l.signer = local[h].signer
      /\ l.keys = entry.keys
  BY <1>0, <1>1, Numbers DEF KInv, Locals
<1>3. Goto(h, step) /\ local' = [local EXCEPT ![h] = l] /\ UNCHANGED <<world, entry>>
  BY <1>0 DEF ReadEntry, KInv, TypeOK
<1>4. pc'[h] = step /\ local'[h] = l /\ clock' = clock
  BY <1>3 DEF Goto, KInv, TypeOK, world
<1>5. Current(h) => Dated(entry.keys, local[h].now - Ttl)
  BY <1>1, Numbers, DatedEarlier DEF KInv, Current
<1>6. Current(h) => Dated(l.keys, l.now - Ttl)'
  BY <1>2, <1>3, <1>5 DEF Dated, PublishedAfter, PublishedSince, world
<1>7. HandlerDated(h)'
  BY <1>1, <1>2, <1>4, <1>6 DEF HandlerDated
<1> QED
  BY <1>1, <1>2, <1>3, <1>7, HandlerStepDated DEF KInv, TypeOK, Steps

\* What is published now is dated from any moment before.
LEMMA FetchDated ==
    ASSUME KInv, NEW h \in Handlers, Fetch(h)
    PROVE  KInv'
<1>0. PICK l : l = [local[h] EXCEPT !.keys = published]
  OBVIOUS
<1>1. local[h] \in Locals /\ HandlerDated(h) /\ pc[h] = "fetch" /\ published \subseteq Keys
  BY Numbers DEF KInv, Fetch, TypeOK
<1>2. /\ l \in Locals /\ l.now = local[h].now /\ l.signer = local[h].signer
      /\ l.keys = published /\ l.now \in Nat
  BY <1>0, <1>1, Numbers DEF Locals, KInv
<1>3. Goto(h, "store") /\ local' = [local EXCEPT ![h] = l] /\ UNCHANGED <<world, entry>>
  BY <1>0 DEF Fetch, UsableKeys, KInv, TypeOK
<1>4. pc'[h] = "store" /\ local'[h] = l
  BY <1>3 DEF Goto, KInv, TypeOK
<1>5. Dated(l.keys, l.now)'
  BY <1>1, <1>2, <1>3 DEF Dated, PublishedAfter, PublishedSince, HandlerDated, world
<1>6. HandlerDated(h)'
  BY <1>1, <1>2, <1>3, <1>4, <1>5 DEF HandlerDated, world
<1> QED
  BY <1>2, <1>3, <1>6, HandlerStepDated DEF KInv, TypeOK, Steps

LEMMA FetchFailsDated ==
    ASSUME KInv, NEW h \in Handlers, FetchFails(h)
    PROVE  KInv'
<1> DEFINE step == IF local[h].keys # {} THEN "verify" ELSE "unavailable"
<1>0. PICK l : l = [local[h] EXCEPT !.fetched = FALSE]
  OBVIOUS
<1>1. local[h] \in Locals /\ HandlerDated(h) /\ pc[h] = "fetch"
  BY Numbers DEF KInv, FetchFails
<1>2. l \in Locals /\ l.now = local[h].now /\ l.signer = local[h].signer /\ l.fetched = FALSE
  BY <1>0, <1>1 DEF Locals
<1>3. Goto(h, step) /\ local' = [local EXCEPT ![h] = l] /\ UNCHANGED <<world, entry>>
  BY <1>0 DEF FetchFails, KInv, TypeOK
<1>4. pc'[h] = step /\ local'[h] = l
  BY <1>3 DEF Goto, KInv, TypeOK
<1>5. HandlerDated(h)'
  BY <1>1, <1>2, <1>3, <1>4 DEF HandlerDated, world
<1> QED
  BY <1>2, <1>3, <1>5, HandlerStepDated DEF KInv, TypeOK, Steps

\* The new entry is dated from the start of this handler, whatever it replaces.
LEMMA StoreEntryDated ==
    ASSUME KInv, NEW h \in Handlers, StoreEntry(h)
    PROVE  KInv'
<1>1. /\ local[h] \in Locals /\ local[h].now \in Nat /\ local[h].keys \in SUBSET Keys
      /\ HandlerDated(h) /\ pc[h] = "store" /\ Dated(local[h].keys, local[h].now)
  BY Numbers DEF KInv, StoreEntry, HandlerDated, Locals
<1>2. /\ Goto(h, "verify") /\ local' = [local EXCEPT ![h] = local[h]]
      /\ UNCHANGED <<world, local>>
      /\ entry' = [keys |-> local[h].keys, expires |-> local[h].now + Ttl]
  BY DEF StoreEntry, FetchedEntry, KInv, TypeOK
<1>3. entry' \in Entries /\ entry'.keys = local[h].keys /\ entry'.expires - Ttl = local[h].now
  BY <1>1, <1>2, TimeAssumption DEF Entries
<1>4. Dated(local[h].keys, local[h].now - Ttl)
  BY <1>1, TimeAssumption, DatedEarlier DEF KInv
<1>5. pc'[h] = "verify" /\ local' = local
  BY <1>2 DEF Goto, KInv, TypeOK
<1>6. HandlerDated(h)'
  BY <1>1, <1>2, <1>4, <1>5 DEF HandlerDated, Dated, PublishedAfter, PublishedSince, world
<1> QED
  BY <1>1, <1>2, <1>3, <1>6, HandlerStepDated DEF Steps

LEMMA VerifyDated ==
    ASSUME KInv, NEW h \in Handlers, Verify(h)
    PROVE  KInv'
<1> DEFINE step == IF local[h].signer \in local[h].keys THEN "verified" ELSE "refused"
<1>1. local[h] \in Locals /\ HandlerDated(h) /\ pc[h] = "verify"
  BY Numbers DEF KInv, Verify
<1>2. Goto(h, step) /\ local' = [local EXCEPT ![h] = local[h]] /\ UNCHANGED <<world, entry, local>>
  BY DEF Verify, KInv, TypeOK
<1>3. pc'[h] = step
  BY <1>2 DEF Goto, KInv, TypeOK
<1>4. HandlerDated(h)'
  BY <1>1, <1>2, <1>3 DEF HandlerDated, Dated, PublishedAfter, PublishedSince, world
<1> QED
  BY <1>1, <1>2, <1>4, HandlerStepDated DEF KInv, TypeOK, Steps

LEMMA LeaveDated ==
    ASSUME KInv, NEW h \in Handlers, Leave(h)
    PROVE  KInv'
<1>1. /\ Goto(h, "idle") /\ local' = [local EXCEPT ![h] = NoLocals]
      /\ UNCHANGED <<world, entry>>
  BY DEF Leave
<1>2. NoLocals \in Locals /\ NoLocals.now = 0
  BY TimeAssumption DEF NoLocals, Locals, Time
<1>3. pc'[h] = "idle" /\ local'[h] = NoLocals /\ clock' = clock
  BY <1>1 DEF Goto, KInv, TypeOK, world
<1>4. HandlerDated(h)'
  BY <1>2, <1>3, Numbers DEF HandlerDated, KInv
<1> QED
  BY <1>1, <1>2, <1>4, HandlerStepDated DEF KInv, TypeOK, Steps

LEMMA WorldDated ==
    ASSUME KInv, Tick \/ \E k \in Keys : Rotate(k)
    PROVE  KInv'
<1>1. UNCHANGED <<entry, pc, local>> /\ clock <= clock' /\ clock' \in Time
  BY Numbers, TimeAssumption DEF Tick, Rotate, KInv, TypeOK, Time
<1>2. TypeOK'
  BY <1>1 DEF KInv, TypeOK, Tick, Rotate
<1>3. ASSUME NEW S \in SUBSET Keys, NEW t \in Int, Dated(S, t)
      PROVE  Dated(S, t)'
  <2>1. t <= clock
    BY <1>3 DEF Dated
  <2>2. ASSUME NEW k \in Keys
        PROVE  /\ t <= clock'
               /\ PublishedAfter(k, t) => PublishedAfter(k, t)'
               /\ ~PublishedSince(k, t) => ~PublishedSince(k, t)'
    BY <2>1, DatesStay DEF KInv
  <2>3. t <= clock'
    BY <1>1, <2>1, TimeAssumption DEF KInv, TypeOK, Time
  <2> QED
    BY <1>3, <2>2, <2>3 DEF Dated
<1>4. Dated(entry.keys, entry.expires - Ttl)'
  <2>1. entry.keys \in SUBSET Keys /\ entry.expires - Ttl \in Int
    BY Numbers DEF KInv
  <2>2. PICK S \in SUBSET Keys : S = entry.keys
    BY <2>1
  <2>3. PICK t \in Int : t = entry.expires - Ttl
    BY <2>1
  <2>4. Dated(S, t)'
    BY <1>3, <2>2, <2>3 DEF KInv
  <2> QED
    BY <1>1, <2>2, <2>3, <2>4
<1>5. ASSUME NEW h \in Handlers
      PROVE  HandlerDated(h)'
  <2>1. /\ local[h].now \in Int /\ local[h].now - Ttl \in Int /\ local[h].keys \in SUBSET Keys
        /\ HandlerDated(h) /\ Ttl \in Nat /\ clock \in Nat /\ clock' \in Nat
    BY <1>1, Numbers DEF KInv, Locals, Time
  <2>2. PICK t \in Int : t = local[h].now
    BY <2>1
  <2>3. PICK S \in SUBSET Keys : S = local[h].keys
    BY <2>1
  <2>4. PICK s : s = local[h].signer
    OBVIOUS
  <2>5. PICK u \in Int : u = t - Ttl
    BY <2>1
  <2>6. t <= clock /\ u <= clock /\ t <= clock'
    BY <1>1, <2>1, <2>2, <2>5 DEF HandlerDated
  <2>7. /\ Dated(S, t) => Dated(S, t)'
        /\ Dated(S, u) => Dated(S, u)'
    BY <1>3
  <2>8. s \in Keys => /\ PublishedAfter(s, u) => PublishedAfter(s, u)'
                      /\ ~PublishedSince(s, u) => ~PublishedSince(s, u)'
    BY <2>6, DatesStay DEF KInv
  <2> QED
    BY <1>1, <2>1, <2>2, <2>3, <2>4, <2>5, <2>6, <2>7, <2>8 DEF HandlerDated
<1> QED
  BY <1>2, <1>4, <1>5 DEF KInv

LEMMA NextDated ==
    ASSUME KInv, [Next]_vars
    PROVE  KInv'
<1>1. CASE UNCHANGED vars
  BY <1>1 DEF vars, KInv, TypeOK, Dated, HandlerDated, PublishedAfter, PublishedSince
<1>2. CASE Next
  BY <1>2, ReceiveDated, ReadEntryDated, FetchDated, FetchFailsDated, StoreEntryDated,
     VerifyDated, LeaveDated, WorldDated
     DEF Next, HandlerStep
<1> QED
  BY <1>1, <1>2

\* Every set of keys in the process is dated.
THEOREM KeysDated == Spec => []KInv
<1>1. KInv /\ [Next]_vars => KInv'
  BY NextDated
<1> QED
  BY InitDated, <1>1, PTL DEF Spec

\* The key cache and its handlers keep their types.
THEOREM KeysTyped == Spec => []TypeOK
<1>1. KInv => TypeOK
  BY DEF KInv
<1> QED
  BY KeysDated, <1>1, PTL

\* A withdrawn key is trusted for at most the cache lifetime (publicKeyCache.get).
THEOREM TrustWillEnd == Spec => []TrustEnds
<1>1. KInv => TrustEnds
  BY DEF KInv, HandlerDated, TrustEnds
<1> QED
  BY KeysDated, <1>1, PTL

\* A new key is refused for at most the cache lifetime (publicKeyCache.get).
THEOREM RefusalWillEnd == Spec => []RefusalEnds
<1>1. KInv => RefusalEnds
  BY DEF KInv, HandlerDated, RefusalEnds
<1> QED
  BY KeysDated, <1>1, PTL

=============================================================================
