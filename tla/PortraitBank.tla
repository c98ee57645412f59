----------------------------- MODULE PortraitBank -----------------------------
(***************************************************************************)
(* The pod with its identity bank, inference/identity_bank.py: an LRU cache *)
(* from avatar_key to the encoded portrait, which start() consults and which *)
(* outlives the sessions.  An OrderedDict is the sequence of its entries,   *)
(* least recently used first.                                               *)
(***************************************************************************)
EXTENDS SessionManager, SequencesExt

CONSTANTS
    Keys,            \* the values of avatar_key
    KeyOf,           \* the avatar_key of each session's request
    Capacity,        \* of the bank
    Portraits,       \* what can be encoded: an image per session, and ...
    Grey,            \* ... the portrait of a request that brings none
    EarlierBanks     \* what the sessions that came before may have left

Entry == [key : Keys, portrait : Portraits]

OneEntryPerKey(store) ==
    \A i, j \in DOMAIN store : store[i].key = store[j].key => i = j

\* The i-th session is the last that used its key.
IsLast(shown, i) == \A j \in (i + 1)..Len(shown) : shown[j].key # shown[i].key

\* The entries stand in the bank as the sessions of `pos` got them, who were the
\* last with their keys; other last ones came before, when the bank was full.
Places(pos, store, shown) ==
    /\ pos \in [1..Len(store) -> 1..Len(shown)]
    /\ \A m \in 1..Len(store) : IsLast(shown, pos[m]) /\ store[m] = shown[pos[m]]
    /\ \A m, k \in 1..Len(store) : m < k => pos[m] < pos[k]
    /\ \A i \in 1..Len(shown) : IsLast(shown, i) =>
            \/ \E m \in 1..Len(store) : pos[m] = i
            \/ Len(store) >= Capacity /\ i < pos[1]

\* The bank is what the history of the sessions makes it.
InOrder(b) ==
    /\ Len(b.store) <= Capacity
    /\ \A i \in 1..Len(b.shown) : \E j \in i..Len(b.shown) :
            b.shown[j].key = b.shown[i].key /\ IsLast(b.shown, j)
    /\ \E pos \in [1..Len(b.store) -> 1..Len(b.shown)] : Places(pos, b.store, b.shown)

\* The keys that were used between two sessions.
KeysIn(shown, i, j) == {shown[m].key : m \in (i + 1)..(j - 1)}

\* Two sessions with one key have one face, unless Capacity others come between.
SameFace(shown) ==
    \A i, j \in DOMAIN shown :
        /\ i < j
        /\ shown[i].key = shown[j].key
        /\ Cardinality(KeysIn(shown, i, j) \ {shown[i].key}) < Capacity
        => shown[i].portrait = shown[j].portrait

ASSUME BankAssumption ==
    /\ KeyOf \in [Sessions -> Keys]
    /\ Capacity \in Nat \ {0}
    /\ Sessions \cup {Grey} \subseteq Portraits
    /\ Grey \notin Sessions
    /\ EarlierBanks \subseteq [store : Seq(Entry), shown : Seq(Entry)]
    /\ \A b \in EarlierBanks : OneEntryPerKey(b.store) /\ InOrder(b)
    /\ StopsDuring = {} => \A b \in EarlierBanks : SameFace(b.shown)

VARIABLE bank   \* .store: IdentityBank._store; .shown: history, the entries that
                \* the sessions got, in the order they got them

Cached(store, key) == \E i \in DOMAIN store : store[i].key = key
Index(store, key) == CHOOSE i \in DOMAIN store : store[i].key = key

\* Mutant: a hit leaves the entry where it is.
GetInPlace(store, key) == store

\* What get() does to the bank on a hit: the entry moves to the end.
Get(store, key) ==
    LET i == Index(store, key)
    IN  Append(RemoveAt(store, i), store[i])

WithLast(store, e) ==
    Append(IF Cached(store, e.key) THEN RemoveAt(store, Index(store, e.key)) ELSE store, e)

\* put(): the entry goes to the end, and the front makes room.
Put(store, e) ==
    LET all == WithLast(store, e)
    IN  SubSeq(all, Max({1, Len(all) - Capacity + 1}), Len(all))

EmptyBank == [store |-> << >>, shown |-> << >>]

\* A session finds its key in the bank; it has its portrait encoded.
Hit(b, key) ==
    [store |-> Get(b.store, key), shown |-> Append(b.shown, b.store[Index(b.store, key)])]

Encode(b, e) == [store |-> Put(b.store, e), shown |-> Append(b.shown, e)]

\* A whole request: the image, if there is one, is encoded when the bank misses.
Serve(b, e) == IF Cached(b.store, e.key) THEN Hit(b, e.key) ELSE Encode(b, e)

BankInit == Init /\ bank \in EarlierBanks

------------------------------------------------------------------------------
(* start() and the bank.                                                    *)

\* Mutant: a request with an image has it encoded, whatever the bank has.
IdentityLookupUnlessImage(s) ==
    /\ ChannelReady(s)
    /\ IF s \in BringsPortrait
       THEN ses'[s].start = "load_image" /\ UNCHANGED bank
       ELSE /\ ses'[s].start # "load_image"
            /\ bank' = Serve(bank, [key |-> KeyOf[s], portrait |-> Grey])

\* The key is looked up; without an image to wait for, a miss is encoded at once.  The
\* bank has the entry also when a constructor raises after that.
IdentityLookup(s) ==
    /\ ChannelReady(s)
    /\ IF Cached(bank.store, KeyOf[s])
       THEN ses'[s].start # "load_image" /\ bank' = Hit(bank, KeyOf[s])
       ELSE IF s \in BringsPortrait
       THEN ses'[s].start = "load_image" /\ UNCHANGED bank
       ELSE /\ ses'[s].start # "load_image"
            /\ bank' = Encode(bank, [key |-> KeyOf[s], portrait |-> Grey])

\* The image has come: it is encoded and put, whatever the bank has by now.
IdentityEncoded(s) ==
    /\ PortraitLoaded(s)
    /\ bank' = Encode(bank, [key |-> KeyOf[s], portrait |-> s])

BankNext ==
    \/ OtherStep /\ UNCHANGED bank
    \/ \E s \in Sessions : IdentityLookup(s) \/ IdentityEncoded(s)

BankSpec == BankInit /\ [][BankNext]_<<vars, bank>>

BankFairSpec == BankSpec /\ Fairness

------------------------------------------------------------------------------
(* Properties.                                                              *)

\* The bank holds the entries of the Capacity keys that sessions used last, as
\* they were last shown, in the order of that last use.
BankIsMostRecent ==
    LET n == Len(bank.shown)
        Later(i) == KeysIn(bank.shown, i, n + 1)
    IN  /\ Len(bank.store) = Min({Capacity, Cardinality(Later(0))})
        /\ \A i \in 1..n :
            bank.shown[i].key \notin Later(i) /\ Cardinality(Later(i)) < Capacity =>
                bank.store[Len(bank.store) - Cardinality(Later(i))] = bank.shown[i]

\* avatar_session.py:178, identity_bank.py:9: sessions with the same avatar_key
\* show the same face as long as fewer than Capacity other keys come between them;
\* with a patient gateway no second session can encode the key meanwhile.
FaceShared == SameFace(bank.shown)

\* identity_bank.py:9: what the bank has under a key never changes under the
\* sessions that share it, although put() replaces what it finds.
TokensImmutable ==
    [][\A i \in DOMAIN bank.store, j \in DOMAIN bank'.store :
            bank.store[i].key = bank'.store[j].key => bank.store[i] = bank'.store[j]]_bank
==============================================================================
