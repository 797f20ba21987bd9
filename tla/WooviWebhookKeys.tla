-------------------------- MODULE WooviWebhookKeys --------------------------
(***************************************************************************)
(* The public keys that Woovi's webhooks are verified with                 *)
(* (internal/provider/woovi, publicKeyCache and ParseWebhook): one cache   *)
(* entry of one API, shared by the webhook handlers of a process.  A       *)
(* handler reads the time and then the entry, and without a usable entry   *)
(* it fetches the published keys and stores them; the mutex is not held    *)
(* during the fetch, so fetches overlap and are stored in any order.       *)
(***************************************************************************)
EXTENDS Integers

CONSTANTS
    Handlers,     \* executions of ParseWebhook in the process
    Keys,         \* the RSA keys Woovi ever signs with
    Ttl,          \* Options.KeyCacheTTL (one hour unless configured)
    MaxTime,      \* bound on the clock
    None

ASSUME TimeAssumption == Ttl \in Nat \ {0} /\ MaxTime \in Nat

ASSUME NoKeyAssumption == None \notin Keys

VARIABLES
    clock,
    published,    \* at Woovi: the keys it publishes
    changed,      \* at Woovi: when the key was last published or withdrawn
    entry,        \* the cache entry: its keys and when it expires
    pc,           \* the next step of each handler
    local         \* the local variables of each handler

vars == <<clock, published, changed, entry, pc, local>>

Time == 0..MaxTime

\* Earlier than any time that matters.
LongAgo == -Ttl - 1

Entries == [keys : SUBSET Keys, expires : Int]

NoEntry == [keys |-> {}, expires |-> LongAgo]

Steps == {"idle", "read", "fetch", "store", "verify", "verified", "refused", "unavailable"}

Locals ==
    [signer : Keys \cup {None},     \* the key of the signature
     now    : Time,
     keys   : SUBSET Keys,          \* the keys to verify with, or to fall back to
     fetched : BOOLEAN]             \* whether the handler's own fetch, if any, worked

NoLocals == [signer |-> None, now |-> 0, keys |-> {}, fetched |-> TRUE]

TypeOK ==
    /\ clock \in Time
    /\ published \subseteq Keys
    /\ changed \in [Keys -> Time \cup {LongAgo}]
    /\ entry \in Entries
    /\ pc \in [Handlers -> Steps]
    /\ local \in [Handlers -> Locals]

Init ==
    /\ clock = 0
    /\ published \in SUBSET Keys
    /\ changed = [k \in Keys |-> LongAgo]
    /\ entry = NoEntry
    /\ pc = [h \in Handlers |-> "idle"]
    /\ local = [h \in Handlers |-> NoLocals]

Goto(h, step) == pc' = [pc EXCEPT ![h] = step]

world == <<clock, published, changed>>

-----------------------------------------------------------------------------
(* ParseWebhook and publicKeyCache.get.                                     *)

\* A webhook signed with k; the time is read before the lock is taken.
Receive(h, k) ==
    /\ pc[h] = "idle"
    /\ local' = [local EXCEPT ![h] = [NoLocals EXCEPT !.signer = k, !.now = clock]]
    /\ Goto(h, "read")
    /\ UNCHANGED <<world, entry>>

\* Slip: an entry is used for ever.
CurrentSlip(h) == entry.keys # {}

Current(h) == local[h].now < entry.expires

\* Under the lock: the keys of a current entry, or those to fall back to.
ReadEntry(h) ==
    /\ pc[h] = "read"
    /\ local' = [local EXCEPT ![h].keys = entry.keys]
    /\ Goto(h, IF Current(h) THEN "verify" ELSE "fetch")
    /\ UNCHANGED <<world, entry>>

\* Slip: an item that cannot be parsed is kept as an empty key.
UsableKeysSlip == published \cup {None}

\* The items of the answer that are RSA keys.
UsableKeys == published

\* Woovi answers with what it publishes at that moment.
Fetch(h) ==
    /\ pc[h] = "fetch"
    /\ UsableKeys # {}
    /\ local' = [local EXCEPT ![h].keys = UsableKeys]
    /\ Goto(h, "store")
    /\ UNCHANGED <<world, entry>>

\* No answer, an error status, or no usable key: the expired keys are used once
\* more, if there are any.  The request itself can always be built.
FetchFails(h) ==
    /\ pc[h] = "fetch"
    /\ local' = [local EXCEPT ![h].fetched = FALSE]
    /\ Goto(h, IF local[h].keys # {} THEN "verify" ELSE "unavailable")
    /\ UNCHANGED <<world, entry>>

\* Slip: the lifetime is counted from the moment the entry is stored.
FetchedEntrySlip(h) == [keys |-> local[h].keys, expires |-> clock + Ttl]

FetchedEntry(h) == [keys |-> local[h].keys, expires |-> local[h].now + Ttl]

\* Under the lock again, over whatever another handler stored meanwhile.
StoreEntry(h) ==
    /\ pc[h] = "store"
    /\ entry' = FetchedEntry(h)
    /\ Goto(h, "verify")
    /\ UNCHANGED <<world, local>>

\* verifySignature.
Verify(h) ==
    /\ pc[h] = "verify"
    /\ Goto(h, IF local[h].signer \in local[h].keys THEN "verified" ELSE "refused")
    /\ UNCHANGED <<world, entry, local>>

Leave(h) ==
    /\ pc[h] \in {"verified", "refused", "unavailable"}
    /\ local' = [local EXCEPT ![h] = NoLocals]
    /\ Goto(h, "idle")
    /\ UNCHANGED <<world, entry>>

-----------------------------------------------------------------------------
(* Woovi and time.                                                          *)

\* A key is published, or withdrawn.
Rotate(k) ==
    /\ published' = IF k \in published THEN published \ {k} ELSE published \cup {k}
    /\ changed' = [changed EXCEPT ![k] = clock]
    /\ UNCHANGED <<clock, entry, pc, local>>

Tick ==
    /\ clock < MaxTime
    /\ clock' = clock + 1
    /\ UNCHANGED <<published, changed, entry, pc, local>>

-----------------------------------------------------------------------------

HandlerStep(h) ==
    \/ ReadEntry(h)  \/ Fetch(h)  \/ FetchFails(h)
    \/ StoreEntry(h) \/ Verify(h) \/ Leave(h)

Next ==
    \/ \E h \in Handlers : HandlerStep(h) \/ \E k \in Keys : Receive(h, k)
    \/ \E k \in Keys : Rotate(k)
    \/ Tick

Spec == Init /\ [][Next]_vars

-----------------------------------------------------------------------------
(* Properties.                                                              *)

\* The key was published at this time or later.
PublishedAfter(k, t) == k \in published \/ changed[k] >= t

\* The key has been published all the time since.
PublishedSince(k, t) == k \in published /\ changed[k] < t

\* A withdrawn key is trusted for no longer than the cache lifetime, in whatever order
\* overlapping fetches are stored: the signature of a webhook is accepted only with a
\* key that was published within that time before it came in.  The exception the code
\* makes is a handler whose own fetch failed (publicKeyCache.get).
TrustEnds ==
    \A h \in Handlers :
        pc[h] = "verified" /\ local[h].fetched =>
            PublishedAfter(local[h].signer, local[h].now - Ttl)

\* A new key is refused for no longer than the cache lifetime: a slow fetch that
\* stores an older answer over a newer one cannot prolong it (publicKeyCache.get).
RefusalEnds ==
    \A h \in Handlers :
        pc[h] = "refused" /\ local[h].fetched =>
            ~PublishedSince(local[h].signer, local[h].now - Ttl)

=============================================================================
