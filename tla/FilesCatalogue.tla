---------------------------- MODULE FilesCatalogue ----------------------------
(* What the files capability offers (capabilities/files/src: api/mod.rs, db.rs, *)
(* api/rpc.rs, main.rs): the offerings of its owner, the blobs behind them in   *)
(* the daemon's store, the groups it remembers of each active peer, and a peer  *)
(* that reads the catalogue page by page.  Every await of a handler is a place  *)
(* where other handlers run; a query of the database is one step.               *)
EXTENDS Integers, Sequences, FiniteSets, SequencesExt, AccessGroups

CONSTANTS
  Blob, Name,
  Policy,       \* the access policies in use
  Huge,         \* the blobs over BRIDGE_STORE_THRESHOLD
  Slots,        \* bound on the hooks of a peer that run together
  Page,         \* offerings on a page: 20 unless the reader asks for 1 to 100
  MaxCalls,     \* bound on calls of the owner and changes of sessions
  MaxOffers     \* bound on the offerings there ever are

\* An access policy, as the set of those it lets in: all, the peers of an
\* allowlist, or groups ("friends" lets in the trusted ones too).
AnyPolicy == {{"public"}} \cup SUBSET Peer \cup SUBSET Group

ASSUME CatalogueAssumption ==
  /\ Peer \cap Group = {} /\ "public" \notin Peer \cup Group
  /\ Policy \subseteq AnyPolicy /\ Huge \subseteq Blob /\ IsFiniteSet(Slots)
  /\ Page \in Nat \ {0} /\ MaxCalls \in Nat /\ MaxOffers \in Nat

VARIABLES
  offers,     \* the offerings, in the order they are listed
  store,      \* the blobs the daemon has
  creating,   \* creations whose blob is known to be there, row not yet inserted
  deleting,   \* blobs to delete, of offerings whose row is gone
  lost,       \* blobs deleted although an offering, or a creation, still needs them
  listed,     \* the peers of the PeerTracker
  cached,     \* AppState.peer_groups
  fetching,   \* on_active hooks, and the groups they have read
  behind,     \* peers whose groups changed since they were read, or were not read
  walk,       \* the catalogue.list calls of one reader
  made, calls

offerVars == <<offers, creating, deleting, lost, made>>
groupVars == <<accessVars, listed, cached, fetching, behind>>
catVars == <<offerVars, store, groupVars, walk, calls>>

Idle == [peer |-> CHOOSE p \in Peer : TRUE, st |-> "idle", at |-> 0, seen |-> {},
         must |-> {}, shrunk |-> FALSE]

\* peer_can_see_offering.
MaySee(offer, p, groups) == offer.access \cap ({"public", p} \cup groups) # {}

\* The rows of a list that he may see; of some rows, their ids and how many there
\* are up to one of them.
Visible(list, p, groups) == {i \in DOMAIN list : MaySee(list[i], p, groups)}
Ids(list, rows) == {list[i].id : i \in rows}
UpTo(rows, i) == {j \in rows : j <= i}
Rank(rows, i) == Cardinality(UpTo(rows, i))

Seen(list, p, groups) == Ids(list, Visible(list, p, groups))

CatInit ==
  /\ offers = <<>> /\ store = {} /\ creating = {} /\ deleting = {} /\ lost = {}
  /\ AccessInit
  /\ listed = {} /\ cached = [p \in Peer |-> {}] /\ fetching = {} /\ behind = {}
  /\ walk = Idle /\ made = 0 /\ calls = 0

Call == calls < MaxCalls /\ calls' = calls + 1

\* A reader who has begun notices that something he could see has gone: ghost.
Watch ==
  walk' = IF walk.st # "on" THEN walk
          ELSE [walk EXCEPT !.shrunk =
                 @ \/ ~(Seen(offers, walk.peer, cached[walk.peer])
                          \subseteq Seen(offers', walk.peer, cached'[walk.peer]))]

--------------------------------------------------------------------------------
(* The owner's offerings.                                                      *)

\* Mutant: stores no blob before the row.
CreatesUnasked(blob, name, access, upload) ==
  /\ Call /\ made + Cardinality(creating) < MaxOffers
  /\ creating' = creating \cup {[blob |-> blob, name |-> name, access |-> access]}
  /\ UNCHANGED <<offers, store, deleting, lost, made, groupVars>>

Stored(blobs) == store' = store \cup blobs

\* create_offering_multipart stores the blob, create_offering_json finds it there.
\* A huge one goes to a directory of the capability, where no daemon looks.
Creates(blob, name, access, upload) ==
  /\ Call /\ made + Cardinality(creating) < MaxOffers
  /\ upload \/ blob \in store
  /\ Stored({blob} \ Huge)
  /\ creating' = creating \cup {[blob |-> blob, name |-> name, access |-> access]}
  /\ lost' = lost \ {blob}
  /\ UNCHANGED <<offers, deleting, made, groupVars>>

\* insert_offering: names are unique.  Offerings are listed by created_at: of one
\* second, or after the clock was set back, a new one may come behind others.
Inserted(c) ==
  IF \E i \in DOMAIN offers : offers[i].name = c.name
    THEN UNCHANGED <<offers, made>>
    ELSE /\ made' = made + 1
         /\ \E i \in 1 .. Len(offers) + 1 :
              offers' = InsertAt(offers, i, [id |-> made + 1, blob |-> c.blob, name |-> c.name,
                                             access |-> c.access])

\* Then either inserts the row.
Inserts(c) ==
  /\ c \in creating
  /\ creating' = creating \ {c}
  /\ Inserted(c)
  /\ UNCHANGED <<store, deleting, lost, groupVars, calls>>

\* update_offering, of a name that no other offering has.
NameFree(i, name) == \A j \in DOMAIN offers \ {i} : offers[j].name # name
Updates(i, name, access) ==
  /\ Call /\ i \in DOMAIN offers /\ NameFree(i, name)
  /\ offers' = [offers EXCEPT ![i].name = name, ![i].access = access]
  /\ UNCHANGED <<store, creating, deleting, lost, made, groupVars>>

\* delete_offering removes the row,
RowGone(i) == offers' = RemoveAt(offers, i)
DeletesRow(i, retain) ==
  /\ Call /\ i \in DOMAIN offers /\ RowGone(i)
  /\ deleting' = IF retain THEN deleting ELSE deleting \cup {offers[i].blob}
  /\ UNCHANGED <<store, creating, lost, made, groupVars>>

\* and asks the daemon to delete the blob, whoever else offers it; the daemon
\* may not be there to do it.
DeletesBlob(blob, done) ==
  /\ blob \in deleting
  /\ deleting' = deleting \ {blob}
  /\ IF done
       THEN /\ store' = store \ {blob}
            /\ lost' = IF \/ \E i \in DOMAIN offers : offers[i].blob = blob
                          \/ \E c \in creating : c.blob = blob
                         THEN lost \cup {blob} ELSE lost
       ELSE UNCHANGED <<store, lost>>
  /\ UNCHANGED <<offers, creating, made, groupVars, calls>>

--------------------------------------------------------------------------------
(* The peers' groups.                                                          *)

Hooks(p) == {f \in fetching : f.peer = p}

\* The owner changes groups; nobody tells the capability.  Ghost: who is behind.
Regroups ==
  /\ Call /\ AccessNext
  /\ behind' = behind \cup {p \in Peer : GroupsOf(p)' # GroupsOf(p)}
  /\ UNCHANGED <<offerVars, store, listed, cached, fetching>>

\* The event stream lists a peer: its on_active hook is spawned.
Lists(p, slot) ==
  /\ Call /\ p \notin listed /\ \A f \in Hooks(p) : f.slot # slot
  /\ listed' = listed \cup {p}
  /\ fetching' = fetching \cup {[peer |-> p, slot |-> slot, read |-> FALSE, groups |-> {}]}
  /\ UNCHANGED <<offerVars, store, accessVars, cached, behind>>

\* No hook of the capability runs when it takes the peer off: the cache stays.
Unlists(p) ==
  /\ p \in listed
  /\ listed' = listed \ {p}
  /\ UNCHANGED <<offerVars, store, accessVars, cached, fetching, behind, calls>>

\* fetch_peer_groups_by_id: a fetch that fails finds no groups.  Ghost: it leaves
\* the cache behind if it fails, and catches up if no other hook has read yet.
Fetches(f, found) ==
  /\ f \in fetching /\ ~f.read
  /\ fetching' = (fetching \ {f})
       \cup {[f EXCEPT !.read = TRUE, !.groups = IF found THEN GroupsOf(f.peer) ELSE {}]}
  /\ behind' = IF ~found THEN behind \cup {f.peer}
               ELSE IF \A g \in Hooks(f.peer) : ~g.read THEN behind \ {f.peer}
               ELSE behind
  /\ UNCHANGED <<offerVars, store, accessVars, listed, cached, calls>>

\* Mutant: does not overwrite what the cache has.
CachesOnce(f) ==
  /\ f \in fetching /\ f.read
  /\ cached' = [cached EXCEPT ![f.peer] = IF @ = {} THEN f.groups ELSE @]
  /\ fetching' = fetching \ {f}
  /\ UNCHANGED <<offerVars, store, accessVars, listed, behind, calls>>

Caches(f) ==
  /\ f \in fetching /\ f.read
  /\ cached' = [cached EXCEPT ![f.peer] = f.groups]
  /\ fetching' = fetching \ {f}
  /\ UNCHANGED <<offerVars, store, accessVars, listed, behind, calls>>

--------------------------------------------------------------------------------
(* A peer reads: handle_catalogue_list.                                        *)

\* The rows of a page, of those he may see.
PageAt(rows, at) == {i \in rows : at < Rank(rows, i) /\ Rank(rows, i) <= at + Page}

\* The offset of the next page, or of none.
NextCursor(at, got, total) == IF at + got < total THEN at + got ELSE 0

\* What the answer carries: ids, and the cursor unless it was the last page.
Reply(rows, at, got) ==
  [items |-> Ids(offers, PageAt(rows, at)), next |-> NextCursor(at, got, Cardinality(rows))]

\* peer_catalogue at the reader's, as its user turns to the cursor it was given.
Takes(reply) ==
  walk' = [walk EXCEPT !.seen = @ \cup reply.items, !.at = reply.next,
                       !.st = IF reply.next = 0 THEN "done" ELSE "on"]

Begins(p) ==
  /\ Call /\ walk.st # "on"
  /\ walk' = [Idle EXCEPT !.peer = p, !.st = "on", !.must = Seen(offers, p, cached[p])]
  /\ UNCHANGED <<offerVars, store, groupVars>>

\* Mutant: counts the page by its limit and one.
TurnsFar(p) ==
  /\ walk.st = "on" /\ walk.peer = p
  /\ Takes(Reply(Visible(offers, p, cached[p]), walk.at, Page + 1))
  /\ UNCHANGED <<offerVars, store, groupVars, calls>>

Turns(p) ==
  LET rows == Visible(offers, p, cached[p]) IN
  /\ walk.st = "on" /\ walk.peer = p
  /\ Takes(Reply(rows, walk.at, Cardinality(PageAt(rows, walk.at))))
  /\ UNCHANGED <<offerVars, store, groupVars, calls>>

--------------------------------------------------------------------------------
Owner ==
  \/ \E blob \in Blob, name \in Name, access \in Policy, upload \in BOOLEAN :
       Creates(blob, name, access, upload)
  \/ \E c \in creating : Inserts(c)
  \/ \E i \in DOMAIN offers, name \in Name, access \in Policy : Updates(i, name, access)
  \/ \E i \in DOMAIN offers, retain \in BOOLEAN : DeletesRow(i, retain)
  \/ \E blob \in Blob, done \in BOOLEAN : DeletesBlob(blob, done)

Groups ==
  \/ Regroups
  \/ \E p \in Peer : \/ \E slot \in Slots : Lists(p, slot)
                     \/ Unlists(p)
  \/ \E f \in fetching : \/ \E found \in BOOLEAN : Fetches(f, found)
                        \/ Caches(f)

Reads == \E p \in Peer : Begins(p) \/ Turns(p)

CatNext == ((Owner \/ Groups) /\ Watch) \/ Reads

CatTypeOK ==
  /\ offers \in SeqOf([id : 1 .. MaxOffers, blob : Blob, name : Name, access : Policy], MaxOffers)
  /\ store \subseteq Blob /\ deleting \subseteq Blob /\ lost \subseteq Blob
  /\ creating \subseteq [blob : Blob, name : Name, access : Policy]
  /\ AccessTypeOK /\ cached \in [Peer -> SUBSET Group]
  /\ listed \subseteq Peer /\ behind \subseteq Peer
  /\ fetching \subseteq [peer : Peer, slot : Slots, read : BOOLEAN, groups : SUBSET Group]
  /\ walk.st \in {"idle", "on", "done"} /\ walk.at \in 0 .. MaxOffers
  /\ made \in 0 .. MaxOffers /\ calls \in 0 .. MaxCalls

\* What is offered can be had: the blob of an offering is in the store, however
\* creations, deletions and crashes interleave, but for a blob that was deleted
\* with another offering of it, or is too big for the bridge (api/mod.rs
\* create_offering_json, delete_offering).
OfferedIsStored == \A i \in DOMAIN offers : offers[i].blob \in store \cup lost \cup Huge

\* Once its hooks have run, a peer is judged by the groups it has: only a change
\* of them behind the capability's back, a fetch that failed or one that came in
\* late leaves others in the cache (main.rs on_active, api/mod.rs peer_groups).
CacheIsFresh ==
  \A p \in listed \ behind : Hooks(p) = {} => cached[p] = GroupsOf(p)

\* A reader who turns every page has seen all that he could see when he began,
\* unless something was withdrawn meanwhile: offerings that come in shift the
\* offsets, and lose him nothing (api/rpc.rs handle_catalogue_list).
PagesComplete == walk.st = "done" /\ ~walk.shrunk => walk.must \subseteq walk.seen
================================================================================
