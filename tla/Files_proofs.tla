------------------------------ MODULE Files_proofs ------------------------------
(* For any number of peers, blobs, groups and hooks: what is offered is in the  *)
(* store but for the exceptions the invariant names, and a peer whose hooks     *)
(* have run is judged by its groups, a reader who turns every page misses       *)
(* nothing, and every variable has its type.                                    *)
EXTENDS Files, SequenceTheorems, FiniteSetTheorems, TLAPS

Offering == [id : Nat, blob : Blob, name : Name, access : Policy]

\* The blob of an offering and of one being created is in the store, huge, or lost
\* with another offering.
OfferInv ==
  /\ offers \in Seq(Offering) /\ made \in Nat
  /\ creating \subseteq [blob : Blob, name : Name, access : Policy]
  /\ OfferedIsStored
  /\ \A c \in creating : c.blob \in store \cup lost \cup Huge

\* A hook that has read and is not behind holds the groups of its peer.
GroupInv ==
  /\ member \in [Peer -> SUBSET Group]
  /\ cached \in [Peer -> SUBSET Group] /\ listed \subseteq Peer
  /\ fetching \subseteq [peer : Peer, slot : Slots, read : BOOLEAN, groups : SUBSET Group]
  /\ CacheIsFresh
  /\ \A f \in fetching : f.read /\ f.peer \notin behind => f.groups = GroupsOf(f.peer)

--------------------------------------------------------------------------------
(* Rows put into a list and taken out of it.                                  *)

LEMMA InsertProperties ==
  ASSUME NEW S, NEW s \in Seq(S), NEW i \in 1 .. Len(s) + 1, NEW e \in S
  PROVE  /\ InsertAt(s, i, e) \in Seq(S) /\ Len(InsertAt(s, i, e)) = Len(s) + 1
         /\ \A k \in 1 .. Len(s) + 1 : InsertAt(s, i, e)[k] =
              IF k < i THEN s[k] ELSE IF k = i THEN e ELSE s[k - 1]
<1> DEFINE low == SubSeq(s, 1, i - 1)
           mid == low \o <<e>>
           high == SubSeq(s, i, Len(s))
<1>1. Len(s) \in Nat /\ i \in Int /\ \A k \in 1 .. Len(s) : s[k] \in S
  BY ElementOfSeq
<1>2. low \in Seq(S) /\ Len(low) = i - 1 /\ \A k \in 1 .. i - 1 : low[k] = s[k]
  BY <1>1, SubSeqProperties
<1>3. /\ high \in Seq(S) /\ Len(high) = Len(s) - i + 1
      /\ \A k \in 1 .. Len(s) - i + 1 : high[k] = s[i + k - 1]
  BY <1>1, SubSeqProperties
<1>4. <<e>> \in Seq(S) /\ Len(<<e>>) = 1 /\ <<e>>[1] = e
  OBVIOUS
<1> HIDE DEF low, high
<1>5. /\ mid \in Seq(S) /\ Len(mid) = i
      /\ \A k \in 1 .. i : mid[k] = IF k < i THEN s[k] ELSE e
  BY <1>1, <1>2, <1>4, ConcatProperties
<1> HIDE DEF mid
<1>6. /\ mid \o high \in Seq(S) /\ Len(mid \o high) = Len(mid) + Len(high)
      /\ \A k \in 1 .. Len(mid) + Len(high) : (mid \o high)[k] =
           IF k <= Len(mid) THEN mid[k] ELSE high[k - Len(mid)]
  BY <1>3, <1>5, ConcatProperties
<1>7. Len(mid) + Len(high) = Len(s) + 1
  BY <1>1, <1>3, <1>5
<1>8. InsertAt(s, i, e) = mid \o high
  BY DEF InsertAt, mid, low, high
<1>9. QED
  BY <1>1, <1>3, <1>5, <1>6, <1>7, <1>8

LEMMA InsertOffering ==
  ASSUME offers \in Seq(Offering), NEW i \in 1 .. Len(offers) + 1, NEW o \in Offering,
         offers' = InsertAt(offers, i, o)
  PROVE  /\ offers' \in Seq(Offering) /\ Len(offers') = Len(offers) + 1
         /\ \A k \in 1 .. Len(offers) + 1 :
              offers'[k] = IF k < i THEN offers[k] ELSE IF k = i THEN o ELSE offers[k - 1]
<1> DEFINE with == InsertAt(offers, i, o)
<1>1. with \in Seq(Offering) /\ Len(with) = Len(offers) + 1
  BY InsertProperties
<1>2. ASSUME NEW k \in 1 .. Len(offers) + 1
      PROVE  with[k] = IF k < i THEN offers[k] ELSE IF k = i THEN o ELSE offers[k - 1]
  BY InsertProperties, SMTT(60)
<1>3. offers' = with
  OBVIOUS
<1> HIDE DEF with
<1>4. QED
  BY <1>1, <1>2, <1>3

LEMMA RemoveProperties ==
  ASSUME NEW S, NEW s \in Seq(S), NEW i \in 1 .. Len(s)
  PROVE  /\ RemoveAt(s, i) \in Seq(S) /\ Len(RemoveAt(s, i)) = Len(s) - 1
         /\ \A k \in 1 .. Len(s) - 1 : RemoveAt(s, i)[k] = IF k < i THEN s[k] ELSE s[k + 1]
<1> DEFINE low == SubSeq(s, 1, i - 1)
           high == SubSeq(s, i + 1, Len(s))
<1>1. Len(s) \in Nat /\ i \in Int /\ \A k \in 1 .. Len(s) : s[k] \in S
  BY ElementOfSeq
<1>2. low \in Seq(S) /\ Len(low) = i - 1 /\ \A k \in 1 .. i - 1 : low[k] = s[k]
  BY <1>1, SubSeqProperties
<1>3. /\ high \in Seq(S) /\ Len(high) = Len(s) - i
      /\ \A k \in 1 .. Len(s) - i : high[k] = s[i + k]
  BY <1>1, SubSeqProperties
<1> HIDE DEF low, high
<1>4. /\ low \o high \in Seq(S) /\ Len(low \o high) = Len(low) + Len(high)
      /\ \A k \in 1 .. Len(low) + Len(high) : (low \o high)[k] =
           IF k <= Len(low) THEN low[k] ELSE high[k - Len(low)]
  BY <1>2, <1>3, ConcatProperties
<1>5. Len(low) + Len(high) = Len(s) - 1
  BY <1>1, <1>2, <1>3
<1>6. RemoveAt(s, i) = low \o high
  BY DEF RemoveAt, low, high
<1>7. ASSUME NEW k \in 1 .. Len(s) - 1
      PROVE  (low \o high)[k] = IF k < i THEN s[k] ELSE s[k + 1]
  <2>1. CASE k < i
    BY <1>1, <1>2, <1>4, <1>5, <2>1
  <2>2. CASE k >= i
    <3>1. (low \o high)[k] = high[k - (i - 1)] /\ k - (i - 1) \in 1 .. Len(s) - i
      BY <1>1, <1>2, <1>4, <1>5, <2>2
    <3>2. high[k - (i - 1)] = s[i + (k - (i - 1))]
      BY <1>3, <3>1
    <3>3. i + (k - (i - 1)) = k + 1
      BY <1>1
    <3>4. QED
      BY <1>1, <2>2, <3>1, <3>2, <3>3
  <2>3. k < i \/ k >= i
    BY <1>1
  <2>4. QED
    BY <2>1, <2>2, <2>3, Zenon
<1>8. QED
  BY <1>4, <1>5, <1>6, <1>7

--------------------------------------------------------------------------------
(* Offerings.                                                                 *)

OfferSame == UNCHANGED <<offerVars, store>>

LEMMA OfferStep == OfferInv /\ [Next]_vars => OfferInv'
<1> SUFFICES ASSUME OfferInv, [Next]_vars PROVE OfferInv'
  OBVIOUS
<1>1. ASSUME OfferSame PROVE OfferInv'
  BY <1>1 DEF OfferSame, offerVars, OfferInv, OfferedIsStored
<1>2. ASSUME NEW blob \in Blob, NEW name \in Name, NEW access \in Policy, NEW upload \in BOOLEAN,
             Creates(blob, name, access, upload)
      PROVE  OfferInv'
  BY <1>2 DEF Creates, Stored, OfferInv, OfferedIsStored
<1>3. ASSUME NEW c \in creating, Inserts(c) PROVE OfferInv'
  <2>1. CASE UNCHANGED <<offers, made>>
    BY <1>3, <2>1 DEF Inserts, OfferInv, OfferedIsStored
  <2>2. CASE ~UNCHANGED <<offers, made>>
    <3> DEFINE o == [id |-> made + 1, blob |-> c.blob, name |-> c.name, access |-> c.access]
    <3>1. /\ \E i \in 1 .. Len(offers) + 1 : offers' = InsertAt(offers, i, o)
          /\ offers \in Seq(Offering)
      BY <1>3, <2>2 DEF Inserts, Inserted, OfferInv
    <3>2. o \in Offering /\ o.blob \in store \cup lost \cup Huge /\ made' \in Nat
      BY <1>3, <2>2 DEF Inserts, Inserted, OfferInv, Offering
    <3> HIDE DEF o
    <3>3. PICK i \in 1 .. Len(offers) + 1 : offers' = InsertAt(offers, i, o)
      BY <3>1
    <3>4. /\ offers' \in Seq(Offering) /\ Len(offers') = Len(offers) + 1
          /\ \A k \in 1 .. Len(offers) + 1 : offers'[k] =
               IF k < i THEN offers[k] ELSE IF k = i THEN o ELSE offers[k - 1]
      <4>1. offers \in Seq(Offering) /\ o \in Offering /\ i \in 1 .. Len(offers) + 1
        BY <3>1, <3>2
      <4>2. QED
        BY <3>3, <4>1, InsertOffering
    <3>5. \A k \in DOMAIN offers' : offers'[k] = o \/ \E j \in DOMAIN offers : offers'[k] = offers[j]
      BY <3>1, <3>4
    <3>6. QED
      BY <1>3, <3>2, <3>4, <3>5 DEF Inserts, OfferInv, OfferedIsStored
  <2>3. QED
    BY <1>3, <2>1, <2>2 DEF Inserts, Inserted
<1>4. ASSUME NEW i \in DOMAIN offers, NEW name \in Name, NEW access \in Policy, Updates(i, name, access)
      PROVE  OfferInv'
  <2>1. offers' = [offers EXCEPT ![i].name = name, ![i].access = access]
    BY <1>4 DEF Updates
  <2>2. /\ DOMAIN offers' = DOMAIN offers /\ offers' \in Seq(Offering)
        /\ \A k \in DOMAIN offers : offers'[k].blob = offers[k].blob
    <3>1. DOMAIN offers = 1 .. Len(offers) /\ \A k \in DOMAIN offers : offers[k] \in Offering
      BY DEF OfferInv
    <3>2. DOMAIN offers' = DOMAIN offers /\ \A k \in DOMAIN offers \ {i} : offers'[k] = offers[k]
      BY <2>1
    <3>3. offers'[i] \in Offering /\ offers'[i].blob = offers[i].blob
      BY <2>1, <3>1 DEF Offering
    <3>4. \A k \in DOMAIN offers : offers'[k] \in Offering /\ offers'[k].blob = offers[k].blob
      BY <3>1, <3>2, <3>3
    <3>5. offers' = [offers EXCEPT ![i] = offers'[i]]
      BY <2>1, <3>1
    <3>6. offers' \in Seq(Offering)
      BY <3>1, <3>3, <3>5, ExceptSeq DEF OfferInv
    <3>7. QED
      BY <3>2, <3>4, <3>6
  <2>3. QED
    BY <1>4, <2>2 DEF Updates, OfferInv, OfferedIsStored
<1>5. ASSUME NEW i \in DOMAIN offers, NEW retain \in BOOLEAN, DeletesRow(i, retain) PROVE OfferInv'
  <2>1. offers' = RemoveAt(offers, i) /\ i \in 1 .. Len(offers) /\ offers \in Seq(Offering)
    BY <1>5 DEF DeletesRow, RowGone, OfferInv
  <2>2. offers' \in Seq(Offering) /\ \A k \in DOMAIN offers' : \E j \in DOMAIN offers : offers'[k] = offers[j]
    <3>1. /\ offers' \in Seq(Offering) /\ Len(offers') = Len(offers) - 1
          /\ \A k \in 1 .. Len(offers) - 1 : offers'[k] = IF k < i THEN offers[k] ELSE offers[k + 1]
      BY <2>1, RemoveProperties
    <3>2. QED
      BY <2>1, <3>1
  <2>3. QED
    BY <1>5, <2>2 DEF DeletesRow, OfferInv, OfferedIsStored
<1>6. ASSUME NEW blob \in Blob, NEW done \in BOOLEAN, DeletesBlob(blob, done) PROVE OfferInv'
  BY <1>6 DEF DeletesBlob, OfferInv, OfferedIsStored
<1>7. CASE CatNext
  <2>1. CASE Owner
    BY <1>2, <1>3, <1>4, <1>5, <1>6, <2>1 DEF Owner
  <2>2. CASE Groups
    BY <1>1, <2>2 DEF Groups, Regroups, Lists, Unlists, Fetches, Caches, OfferSame
  <2>3. CASE Reads
    BY <1>1, <2>3 DEF Reads, Begins, Turns, OfferSame
  <2>4. QED
    BY <1>7, <2>1, <2>2, <2>3 DEF CatNext
<1>8. CASE Api
  BY <1>1, <1>8 DEF Api, Asks, Polls, Heals, Clears, Records, Requests, catVars, OfferSame
<1>9. CASE Daemon
  <2>1. ASSUME NEW b \in Blob, NEW status \in Status, Ends(b, status) PROVE OfferInv'
    BY <2>1 DEF Ends, OfferInv, OfferedIsStored
  <2>2. QED
    BY <1>1, <1>9, <2>1 DEF Daemon, Answered, Stalls, Hears, Misses, catVars, OfferSame
<1>10. CASE Restarts
  BY <1>10 DEF Restarts, OfferInv, OfferedIsStored
<1>11. CASE UNCHANGED vars
  BY <1>1, <1>11 DEF vars, catVars, OfferSame
<1>12. QED
  BY <1>7, <1>8, <1>9, <1>10, <1>11 DEF Next

\* What is offered can be had, but for what was deleted with another offering or is
\* too big for the bridge (api/mod.rs create_offering_json, delete_offering).
THEOREM OfferedStaysStored == Spec => []OfferedIsStored
<1>1. Init => OfferInv
  BY DEF Init, CatInit, OfferInv, OfferedIsStored
<1>2. OfferInv => OfferedIsStored
  BY DEF OfferInv
<1>3. QED
  BY <1>1, <1>2, OfferStep, PTL DEF Spec

--------------------------------------------------------------------------------
(* The cache of groups.                                                        *)

GroupSame == UNCHANGED <<accessVars, listed, cached, fetching, behind>>

LEMMA GroupStep == GroupInv /\ [Next]_vars => GroupInv'
<1> SUFFICES ASSUME GroupInv, [Next]_vars PROVE GroupInv'
  OBVIOUS
<1> USE DEF GroupInv, CacheIsFresh, Hooks
<1>1. ASSUME GroupSame PROVE GroupInv'
  BY <1>1 DEF GroupSame, accessVars, GroupsOf, There
<1>2. ASSUME Regroups PROVE GroupInv'
  <2>1. \A p \in Peer : p \notin behind' => p \notin behind /\ GroupsOf(p)' = GroupsOf(p)
    BY <1>2 DEF Regroups
  <2>2. UNCHANGED <<listed, cached, fetching>>
    BY <1>2 DEF Regroups
  <2>3. member' \in [Peer -> SUBSET Group]
    BY <1>2 DEF Regroups, AccessNext, CreateGroup, DeleteGroup, Deleted, AssignPeer, Assigned,
                RemovePeer, Removed, DenyPeer
  <2>4. QED
    BY <2>1, <2>2, <2>3
<1>3. ASSUME NEW p \in Peer, NEW slot \in Slots, Lists(p, slot) PROVE GroupInv'
  <2> DEFINE f == [peer |-> p, slot |-> slot, read |-> FALSE, groups |-> {}]
  <2>1. /\ listed' = listed \cup {p} /\ fetching' = fetching \cup {f}
        /\ UNCHANGED <<member, cached, behind>> /\ \A q \in Peer : GroupsOf(q)' = GroupsOf(q)
    BY <1>3 DEF Lists, accessVars, GroupsOf, There
  <2>2. f.peer = p /\ ~f.read
        /\ f \in [peer : Peer, slot : Slots, read : BOOLEAN, groups : SUBSET Group]
    OBVIOUS
  <2> HIDE DEF f
  <2>3. QED
    BY <2>1, <2>2
<1>4. ASSUME NEW p \in Peer, Unlists(p) PROVE GroupInv'
  BY <1>4 DEF Unlists, accessVars, GroupsOf, There
<1>5. ASSUME NEW f \in fetching, NEW found \in BOOLEAN, Fetches(f, found) PROVE GroupInv'
  <2> DEFINE g == [f EXCEPT !.read = TRUE, !.groups = IF found THEN GroupsOf(f.peer) ELSE {}]
  <2>1. /\ fetching' = (fetching \ {f}) \cup {g}
        /\ UNCHANGED <<member, listed, cached>> /\ \A q \in Peer : GroupsOf(q)' = GroupsOf(q)
    BY <1>5 DEF Fetches, accessVars, GroupsOf, There
  <2>2. behind' = IF ~found THEN behind \cup {f.peer}
                  ELSE IF \A h \in Hooks(f.peer) : ~h.read THEN behind \ {f.peer} ELSE behind
    BY <1>5 DEF Fetches
  <2>3. /\ g.peer = f.peer /\ f.peer \in Peer
        /\ g \in [peer : Peer, slot : Slots, read : BOOLEAN, groups : SUBSET Group]
        /\ found => g.groups = GroupsOf(f.peer)
    <3>1. GroupsOf(f.peer) \in SUBSET Group
      BY DEF GroupsOf
    <3>2. QED
      BY <3>1
  <2> HIDE DEF g
  <2>4. \A h \in fetching' : h.read /\ h.peer \notin behind' => h.groups = GroupsOf(h.peer)'
    <3> TAKE h \in fetching'
    <3>1. CASE h = g
      BY <2>1, <2>2, <2>3, <3>1
    <3>2. CASE h \in fetching
      BY <2>1, <2>2, <2>3, <3>2
    <3>3. QED
      BY <2>1, <3>1, <3>2
  <2>5. \A p \in Peer : Hooks(p)' = {} => p # f.peer /\ Hooks(p) = {} /\ (p \in behind <=> p \in behind')
    BY <2>1, <2>2, <2>3
  <2>6. QED
    BY <2>1, <2>3, <2>4, <2>5
<1>6. ASSUME NEW f \in fetching, Caches(f) PROVE GroupInv'
  <2>1. /\ fetching' = fetching \ {f} /\ cached' = [cached EXCEPT ![f.peer] = f.groups]
        /\ f.read /\ f.peer \in Peer /\ f.groups \in SUBSET Group
        /\ UNCHANGED <<member, listed, behind>> /\ \A q \in Peer : GroupsOf(q)' = GroupsOf(q)
    BY <1>6 DEF Caches, accessVars, GroupsOf, There
  <2>2. cached' \in [Peer -> SUBSET Group]
    BY <2>1
  <2>3. \A p \in (listed \ behind)' : Hooks(p)' = {} => cached'[p] = GroupsOf(p)'
    <3> TAKE p \in (listed \ behind)'
    <3>1. CASE p = f.peer
      BY <2>1, <3>1
    <3>2. CASE p # f.peer
      BY <2>1, <3>2
    <3>3. QED
      BY <3>1, <3>2
  <2>4. QED
    BY <2>1, <2>2, <2>3
<1>7. CASE CatNext
  <2>1. CASE Owner
    BY <1>1, <2>1 DEF Owner, Creates, Inserts, Updates, DeletesRow, DeletesBlob, groupVars, GroupSame
  <2>2. CASE Groups
    BY <1>2, <1>3, <1>4, <1>5, <1>6, <2>2 DEF Groups
  <2>3. CASE Reads
    BY <1>1, <2>3 DEF Reads, Begins, Turns, groupVars, GroupSame
  <2>4. QED
    BY <1>7, <2>1, <2>2, <2>3 DEF CatNext
<1>8. CASE Api
  BY <1>1, <1>8 DEF Api, Asks, Polls, Heals, Clears, Records, Requests, catVars, groupVars, GroupSame
<1>9. CASE Daemon
  BY <1>1, <1>9 DEF Daemon, Answered, Ends, Stalls, Hears, Misses, catVars, groupVars, GroupSame
<1>10. CASE Restarts
  BY <1>10 DEF Restarts, accessVars
<1>11. CASE UNCHANGED vars
  BY <1>1, <1>11 DEF vars, catVars, groupVars, GroupSame
<1>12. QED
  BY <1>7, <1>8, <1>9, <1>10, <1>11 DEF Next

\* A peer whose hooks have run is judged by the groups it has, for any number of
\* hooks that overlap (main.rs on_active, api/mod.rs peer_groups).
THEOREM CacheStaysFresh == Spec => []CacheIsFresh
<1>1. Init => GroupInv
  BY DEF Init, CatInit, AccessInit, GroupInv, CacheIsFresh, Hooks
<1>2. GroupInv => CacheIsFresh
  BY DEF GroupInv
<1>3. QED
  BY <1>1, <1>2, GroupStep, PTL DEF Spec
--------------------------------------------------------------------------------
(* The pages of a catalogue.  Rank numbers the rows of a set from 1 without a  *)
(* gap, so that a page of a cursor is what lies between two ranks.             *)

LEMMA RankType ==
  ASSUME NEW rows \in SUBSET Nat, IsFiniteSet(rows), NEW i \in rows
  PROVE  /\ IsFiniteSet(UpTo(rows, i)) /\ Rank(rows, i) \in 1 .. Cardinality(rows)
         /\ Cardinality(rows) \in Nat
<1>1. UpTo(rows, i) \in SUBSET rows /\ i \in UpTo(rows, i)
  BY DEF UpTo
<1>2. /\ IsFiniteSet(UpTo(rows, i)) /\ Cardinality(rows) \in Nat
      /\ Cardinality(UpTo(rows, i)) <= Cardinality(rows)
  BY <1>1, FS_Subset, FS_CardinalityType
<1>3. Cardinality(UpTo(rows, i)) \in Nat /\ Cardinality(UpTo(rows, i)) # 0
  BY <1>1, <1>2, FS_CardinalityType, FS_EmptySet
<1>4. QED
  BY <1>2, <1>3 DEF Rank

LEMMA RankGrows ==
  ASSUME NEW rows \in SUBSET Nat, IsFiniteSet(rows), NEW i \in rows, NEW j \in rows, i < j
  PROVE  Rank(rows, i) < Rank(rows, j)
<1>1. UpTo(rows, i) \in SUBSET UpTo(rows, j) /\ j \in UpTo(rows, j) /\ j \notin UpTo(rows, i)
  <2>1. i \in Nat /\ j \in Nat /\ \A k \in rows : k \in Nat
    OBVIOUS
  <2>2. j \in UpTo(rows, j) /\ j \notin UpTo(rows, i)
    BY <2>1 DEF UpTo
  <2>3. \A k \in rows : k <= i => k <= j
    BY <2>1
  <2>4. QED
    BY <2>2, <2>3 DEF UpTo
<1>2. IsFiniteSet(UpTo(rows, j)) /\ Rank(rows, i) \in Nat /\ Rank(rows, j) \in Nat
  BY RankType
<1>3. /\ Cardinality(UpTo(rows, i)) <= Cardinality(UpTo(rows, j))
      /\ Cardinality(UpTo(rows, j)) # Cardinality(UpTo(rows, i))
  BY <1>1, <1>2, FS_Subset
<1>4. QED
  BY <1>2, <1>3 DEF Rank

LEMMA RankInjective ==
  ASSUME NEW rows \in SUBSET Nat, IsFiniteSet(rows), NEW i \in rows, NEW j \in rows,
         Rank(rows, i) = Rank(rows, j)
  PROVE  i = j
<1>1. Rank(rows, i) \in Nat /\ Rank(rows, j) \in Nat
  BY RankType
<1>2. CASE i < j
  BY <1>1, <1>2, RankGrows
<1>3. CASE j < i
  BY <1>1, <1>3, RankGrows
<1>4. QED
  BY <1>2, <1>3

\* Every number up to the size of the set is the rank of a row.
LEMMA RankOnto ==
  ASSUME NEW rows \in SUBSET Nat, IsFiniteSet(rows), NEW k \in 1 .. Cardinality(rows)
  PROVE  \E i \in rows : Rank(rows, i) = k
<1> DEFINE n == Cardinality(rows)
           f == [i \in rows |-> Rank(rows, i)]
<1>1. n \in Nat
  BY FS_CardinalityType
<1>2. f \in [rows -> 1 .. n]
  BY RankType
<1>3. f \in Injection(rows, 1 .. n)
  BY <1>2, RankInjective DEF Injection, IsInjective
<1>4. IsFiniteSet(1 .. n) /\ Cardinality(1 .. n) = n
  BY <1>1, FS_Interval
<1> HIDE DEF f
<1>5. f \in Surjection(rows, 1 .. n)
  BY <1>3, <1>4, FS_Injection
<1>6. PICK i \in rows : f[i] = k
  BY <1>5 DEF Surjection
<1>7. QED
  BY <1>6 DEF f

\* A page is at most as long as Page, and is empty only behind the last row.
LEMMA PageSize ==
  ASSUME NEW rows \in SUBSET Nat, IsFiniteSet(rows), NEW at \in Nat
  PROVE  /\ Cardinality(PageAt(rows, at)) \in 0 .. Page
         /\ at < Cardinality(rows) => Cardinality(PageAt(rows, at)) # 0
<1> DEFINE page == PageAt(rows, at)
           f == [i \in page |-> Rank(rows, i)]
<1>1. page \in SUBSET rows /\ IsFiniteSet(page) /\ Page \in Nat \ {0}
  BY FS_Subset, CatalogueAssumption DEF PageAt
<1>2. Cardinality(page) \in Nat
  BY <1>1, FS_CardinalityType
<1>3. Cardinality(page) <= Page
  <2>1. \A i \in page : Rank(rows, i) \in at + 1 .. at + Page
    BY <1>1, RankType DEF PageAt
  <2>2. f \in [page -> at + 1 .. at + Page]
    BY <2>1
  <2>3. f \in Injection(page, at + 1 .. at + Page)
    <3>1. ASSUME NEW i \in page, NEW j \in page, f[i] = f[j]
          PROVE  i = j
      <4>1. i \in rows /\ j \in rows /\ Rank(rows, i) = Rank(rows, j)
        BY <1>1, <3>1
      <4>2. QED
        BY <4>1, RankInjective
    <3>2. DOMAIN f = page
      OBVIOUS
    <3> HIDE DEF f, page
    <3>3. QED
      BY <2>2, <3>1, <3>2 DEF Injection, IsInjective
  <2>4. IsFiniteSet(at + 1 .. at + Page) /\ Cardinality(at + 1 .. at + Page) = Page
    BY <1>1, FS_Interval
  <2> HIDE DEF f, page
  <2>5. QED
    BY <2>3, <2>4, FS_Injection
<1>4. ASSUME at < Cardinality(rows)
      PROVE  Cardinality(page) # 0
  <2>1. at + 1 \in 1 .. Cardinality(rows)
    BY <1>4, FS_CardinalityType
  <2>2. PICK i \in rows : Rank(rows, i) = at + 1
    BY <2>1, RankOnto
  <2>3. i \in page
    BY <1>1, <2>2 DEF PageAt
  <2>4. QED
    BY <1>1, <2>3, FS_EmptySet
<1>5. QED
  BY <1>1, <1>2, <1>3, <1>4

\* All ids of some rows of a list are those of rows of another one, in the same order.
Contained(list, rows, later, after) ==
  /\ Ids(list, rows) \subseteq Ids(later, after)
  /\ \A i, j \in rows : list[i].id = list[j].id => i = j
  /\ \A i, j \in rows, k, l \in after :
       list[i].id = later[k].id /\ list[j].id = later[l].id /\ i <= j => k <= l

\* Then no row has a smaller rank there.
LEMMA RankKept ==
  ASSUME NEW list, NEW rows \in SUBSET Nat, IsFiniteSet(rows),
         NEW later, NEW after \in SUBSET Nat, IsFiniteSet(after),
         Contained(list, rows, later, after), NEW i \in rows
  PROVE  \E k \in after : later[k].id = list[i].id /\ Rank(rows, i) <= Rank(after, k)
<1> USE DEF Contained
<1>1. PICK k \in after : later[k].id = list[i].id
  BY DEF Ids
<1> DEFINE f == [j \in UpTo(rows, i) |-> CHOOSE l \in after : later[l].id = list[j].id]
<1>2. \A j \in UpTo(rows, i) : f[j] \in after /\ later[f[j]].id = list[j].id
  BY DEF UpTo, Ids
<1>3. \A j \in UpTo(rows, i) : f[j] \in UpTo(after, k)
  BY <1>1, <1>2 DEF UpTo
<1>4. \A j, l \in UpTo(rows, i) : f[j] = f[l] => j = l
  BY <1>2 DEF UpTo
<1>5. f \in Injection(UpTo(rows, i), UpTo(after, k))
  BY <1>3, <1>4 DEF Injection, IsInjective
<1> HIDE DEF f
<1>6. IsFiniteSet(UpTo(after, k))
  BY RankType
<1>7. Rank(rows, i) <= Rank(after, k)
  BY <1>5, <1>6, FS_Injection DEF Rank
<1>8. QED
  BY <1>1, <1>7

Walks == [peer : Peer \cup {Idle.peer}, st : {"idle", "on", "done"}, at : Nat,
          seen : SUBSET Nat, must : SUBSET Nat, shrunk : BOOLEAN]

\* What the reader could see at a moment.
Rows == Visible(offers, walk.peer, cached[walk.peer])

\* Every offering has an id of its own.
IdsDistinct ==
  /\ \A i \in DOMAIN offers : offers[i].id <= made
  /\ \A i, j \in DOMAIN offers : offers[i].id = offers[j].id => i = j

\* What a reader who has lost nothing has not seen yet lies behind his cursor.
WalkInv ==
  /\ IdsDistinct /\ walk \in Walks /\ PagesComplete
  /\ walk.st = "on" /\ ~walk.shrunk => \A x \in walk.must \ walk.seen :
       \E i \in Rows : offers[i].id = x /\ walk.at < Rank(Rows, i)

OrderKept == \A i, j \in DOMAIN offers, k, l \in DOMAIN offers' :
  offers[i].id = offers'[k].id /\ offers[j].id = offers'[l].id /\ i <= j => k <= l

LEMMA OfferIds == OfferInv => \A i \in DOMAIN offers : offers[i].id \in Nat
<1> SUFFICES ASSUME OfferInv, NEW i \in DOMAIN offers PROVE offers[i].id \in Nat
  OBVIOUS
<1>1. offers \in Seq(Offering) /\ i \in 1 .. Len(offers)
  BY DEF OfferInv
<1>2. offers[i] \in Offering
  BY <1>1, ElementOfSeq
<1>3. QED
  BY <1>2 DEF Offering

\* No step changes the order of the offerings it keeps.
LEMMA OrderStep ==
  ASSUME OfferInv, IdsDistinct, [Next]_vars
  PROVE  IdsDistinct' /\ OrderKept
<1>1. offers \in Seq(Offering) /\ Len(offers) \in Nat /\ DOMAIN offers = 1 .. Len(offers) /\ made \in Nat
  BY DEF OfferInv
<1>2. \A i \in 1 .. Len(offers) : offers[i].id \in Nat /\ offers[i].id <= made
  BY <1>1, OfferIds DEF IdsDistinct
<1>3. ASSUME UNCHANGED <<offers, made>>
      PROVE  IdsDistinct' /\ OrderKept
  BY <1>1, <1>3 DEF IdsDistinct, OrderKept
<1>4. ASSUME NEW c \in creating, Inserts(c), ~UNCHANGED <<offers, made>>
      PROVE  IdsDistinct' /\ OrderKept
  <2> DEFINE o == [id |-> made + 1, blob |-> c.blob, name |-> c.name, access |-> c.access]
  <2>1. made' = made + 1 /\ \E i \in 1 .. Len(offers) + 1 : offers' = InsertAt(offers, i, o)
    BY <1>4 DEF Inserts, Inserted
  <2>2. o \in Offering /\ o.id = made + 1
    BY <1>1, <1>4 DEF OfferInv, Offering
  <2> HIDE DEF o
  <2>3. PICK p \in 1 .. Len(offers) + 1 : offers' = InsertAt(offers, p, o)
    BY <2>1
  <2>4. /\ offers' \in Seq(Offering) /\ Len(offers') = Len(offers) + 1
        /\ \A k \in 1 .. Len(offers) + 1 : offers'[k] =
             IF k < p THEN offers[k] ELSE IF k = p THEN o ELSE offers[k - 1]
    BY <1>1, <2>2, <2>3, InsertOffering
  <2>5. DOMAIN offers' = 1 .. Len(offers) + 1
    BY <2>4
  <2>6. ASSUME NEW i \in DOMAIN offers, NEW k \in DOMAIN offers', offers[i].id = offers'[k].id
        PROVE  k = IF i < p THEN i ELSE i + 1
    <3>1. k \in 1 .. Len(offers) + 1 /\ i \in 1 .. Len(offers) /\ k # p
      BY <1>1, <1>2, <2>2, <2>4, <2>5, <2>6
    <3>2. CASE k < p
      <4>1. k \in DOMAIN offers /\ offers[i].id = offers[k].id
        BY <1>1, <2>4, <2>6, <3>1, <3>2
      <4>2. QED
        BY <3>1, <3>2, <4>1 DEF IdsDistinct
    <3>3. CASE k > p
      <4>1. k - 1 \in DOMAIN offers /\ offers[i].id = offers[k - 1].id
        BY <1>1, <2>4, <2>6, <3>1, <3>3
      <4>2. i = k - 1
        BY <4>1 DEF IdsDistinct
      <4>3. QED
        BY <3>1, <3>3, <4>2
    <3>4. QED
      BY <3>1, <3>2, <3>3
  <2>7. OrderKept
    BY <1>1, <2>5, <2>6 DEF OrderKept
  <2>8. \A k \in 1 .. Len(offers) + 1 : offers'[k].id <= made'
    <3> SUFFICES ASSUME NEW k \in 1 .. Len(offers) + 1 PROVE offers'[k].id <= made'
      OBVIOUS
    <3>1. CASE k = p
      BY <1>1, <2>1, <2>2, <2>4, <3>1
    <3>2. CASE k < p
      <4>1. k \in 1 .. Len(offers) /\ offers'[k] = offers[k]
        BY <1>1, <2>4, <3>2
      <4>2. QED
        BY <1>1, <1>2, <2>1, <4>1
    <3>3. CASE k > p
      <4>1. k - 1 \in 1 .. Len(offers) /\ offers'[k] = offers[k - 1]
        BY <1>1, <2>4, <3>3
      <4>2. QED
        BY <1>1, <1>2, <2>1, <4>1
    <3>4. QED
      BY <3>1, <3>2, <3>3
  <2>9. \A k, l \in 1 .. Len(offers) + 1 : offers'[k].id = offers'[l].id => k = l
    <3> SUFFICES ASSUME NEW k \in 1 .. Len(offers) + 1, NEW l \in 1 .. Len(offers) + 1,
                        offers'[k].id = offers'[l].id
                 PROVE  k = l
      OBVIOUS
    <3>1. ASSUME NEW m \in 1 .. Len(offers) + 1, m # p
          PROVE  \E i \in DOMAIN offers : offers'[m] = offers[i] /\ m = IF i < p THEN i ELSE i + 1
      <4>1. CASE m < p
        BY <1>1, <2>4, <4>1, SMTT(30)
      <4>2. CASE m > p
        <5>1. m - 1 \in DOMAIN offers /\ offers'[m] = offers[m - 1] /\ ~(m - 1 < p)
          BY <1>1, <2>4, <4>2
        <5>2. QED
          BY <5>1
      <4>3. QED
        BY <3>1, <4>1, <4>2
    <3>2. offers'[p] = o
      BY <2>4
    <3>3. \A i \in DOMAIN offers : offers[i].id # o.id
      BY <1>1, <1>2, <2>2
    <3>4. CASE k # p /\ l # p
      <4>1. PICK i \in DOMAIN offers : offers'[k] = offers[i] /\ k = IF i < p THEN i ELSE i + 1
        BY <3>1, <3>4
      <4>2. PICK j \in DOMAIN offers : offers'[l] = offers[j] /\ l = IF j < p THEN j ELSE j + 1
        BY <3>1, <3>4
      <4>3. i = j
        BY <4>1, <4>2 DEF IdsDistinct
      <4>4. QED
        BY <4>1, <4>2, <4>3
    <3>5. CASE k = p \/ l = p
      BY <3>1, <3>2, <3>3, <3>5
    <3>6. QED
      BY <3>4, <3>5
  <2>10. QED
    BY <2>5, <2>7, <2>8, <2>9 DEF IdsDistinct
<1>5. ASSUME NEW i \in DOMAIN offers, NEW name \in Name, NEW access \in Policy, Updates(i, name, access)
      PROVE  IdsDistinct' /\ OrderKept
  <2>1. /\ made' = made /\ DOMAIN offers' = DOMAIN offers
        /\ \A k \in DOMAIN offers : offers'[k].id = offers[k].id
    <3>1. offers' = [offers EXCEPT ![i].name = name, ![i].access = access] /\ made' = made
      BY <1>5 DEF Updates
    <3>2. offers[i] \in Offering
      BY <1>1, ElementOfSeq
    <3>3. DOMAIN offers' = DOMAIN offers /\ \A k \in DOMAIN offers \ {i} : offers'[k] = offers[k]
      BY <3>1
    <3>4. offers'[i].id = offers[i].id
      BY <3>1, <3>2 DEF Offering
    <3>5. QED
      BY <3>1, <3>3, <3>4
  <2>2. QED
    BY <1>1, <2>1 DEF IdsDistinct, OrderKept
<1>6. ASSUME NEW i \in DOMAIN offers, NEW retain \in BOOLEAN, DeletesRow(i, retain)
      PROVE  IdsDistinct' /\ OrderKept
  <2>1. offers' = RemoveAt(offers, i) /\ made' = made
    BY <1>6 DEF DeletesRow, RowGone
  <2>2. /\ offers' \in Seq(Offering) /\ Len(offers') = Len(offers) - 1
        /\ \A k \in 1 .. Len(offers) - 1 : offers'[k] = IF k < i THEN offers[k] ELSE offers[k + 1]
    BY <1>1, <2>1, RemoveProperties
  <2>3. DOMAIN offers' = 1 .. Len(offers) - 1
    BY <1>1, <2>2
  <2>4. ASSUME NEW k \in DOMAIN offers'
        PROVE  \E m \in DOMAIN offers : offers'[k] = offers[m] /\ m = IF k < i THEN k ELSE k + 1
    BY <1>1, <2>2, <2>3
  <2>5. ASSUME NEW j \in DOMAIN offers, NEW k \in DOMAIN offers', offers[j].id = offers'[k].id
        PROVE  j = IF k < i THEN k ELSE k + 1
    <3>1. PICK m \in DOMAIN offers : offers'[k] = offers[m] /\ m = IF k < i THEN k ELSE k + 1
      BY <2>4, <2>5
    <3>2. QED
      BY <2>5, <3>1 DEF IdsDistinct
  <2>6. OrderKept
    BY <1>1, <2>3, <2>5 DEF OrderKept
  <2>7. \A k \in 1 .. Len(offers) - 1 : offers'[k].id <= made'
    BY <1>1, <1>2, <2>1, <2>2
  <2>8. \A k, l \in 1 .. Len(offers) - 1 : offers'[k].id = offers'[l].id => k = l
    <3> SUFFICES ASSUME NEW k \in DOMAIN offers', NEW l \in DOMAIN offers',
                        offers'[k].id = offers'[l].id
                 PROVE  k = l
      BY <2>3
    <3>1. PICK m \in DOMAIN offers : offers'[k] = offers[m] /\ m = IF k < i THEN k ELSE k + 1
      BY <2>4
    <3>2. PICK n \in DOMAIN offers : offers'[l] = offers[n] /\ n = IF l < i THEN l ELSE l + 1
      BY <2>4
    <3>3. m = n
      BY <3>1, <3>2 DEF IdsDistinct
    <3>4. QED
      BY <1>1, <2>3, <3>1, <3>2, <3>3
  <2>9. QED
    BY <2>3, <2>6, <2>7, <2>8 DEF IdsDistinct
<1>7. CASE CatNext
  <2>1. CASE Owner
    BY <1>3, <1>4, <1>5, <1>6, <2>1 DEF Owner, Creates, DeletesBlob, Inserts
  <2>2. CASE Groups
    BY <1>3, <2>2 DEF Groups, Regroups, Lists, Unlists, Fetches, Caches, offerVars
  <2>3. CASE Reads
    BY <1>3, <2>3 DEF Reads, Begins, Turns, offerVars
  <2>4. QED
    BY <1>7, <2>1, <2>2, <2>3 DEF CatNext
<1>8. QED
  BY <1>3, <1>7 DEF Next, Api, Asks, Polls, Heals, Clears, Records, Requests, Daemon, Answered, Ends,
     Stalls, Hears, Misses, Restarts, vars, catVars, offerVars

LEMMA RowsFinite ==
  ASSUME OfferInv, NEW p, NEW groups
  PROVE  Visible(offers, p, groups) \in SUBSET Nat /\ IsFiniteSet(Visible(offers, p, groups))
<1>1. Len(offers) \in Nat /\ DOMAIN offers = 1 .. Len(offers)
  BY DEF OfferInv
<1>2. IsFiniteSet(DOMAIN offers)
  BY <1>1, FS_Interval
<1>3. Visible(offers, p, groups) \in SUBSET DOMAIN offers
  BY DEF Visible
<1>4. QED
  BY <1>1, <1>2, <1>3, FS_Subset

\* A change of the catalogue or of the groups, which the reader watches.
LEMMA WatchKeeps ==
  ASSUME OfferInv, OfferInv', WalkInv, IdsDistinct', OrderKept, Watch
  PROVE  WalkInv'
<1>1. walk \in Walks
  BY DEF WalkInv
<1>2. CASE walk.st # "on"
  <2>1. walk' = walk
    BY <1>2 DEF Watch
  <2>2. QED
    BY <1>2, <2>1 DEF WalkInv, PagesComplete, Walks
<1>3. CASE walk.st = "on"
  <2> DEFINE later == Visible(offers', walk.peer, cached'[walk.peer])
  <2>1. walk' = [walk EXCEPT !.shrunk = @ \/ ~(Ids(offers, Rows) \subseteq Ids(offers', later))]
    BY <1>3 DEF Watch, Rows, Seen
  <2>2. /\ walk' \in Walks /\ walk'.st = "on" /\ walk'.must = walk.must /\ walk'.seen = walk.seen
        /\ walk'.at = walk.at /\ walk'.peer = walk.peer
        /\ ~walk'.shrunk => ~walk.shrunk /\ Ids(offers, Rows) \subseteq Ids(offers', later)
    BY <1>1, <1>3, <2>1 DEF Walks
  <2>3. Rows' = later
    BY <2>2 DEF Rows
  <2>4. ASSUME ~walk'.shrunk, NEW x \in walk.must \ walk.seen
        PROVE  \E k \in Rows' : offers'[k].id = x /\ walk.at < Rank(Rows', k)
    <3>1. PICK i \in Rows : offers[i].id = x /\ walk.at < Rank(Rows, i)
      BY <1>3, <2>2, <2>4 DEF WalkInv
    <3>2. /\ Rows \in SUBSET Nat /\ IsFiniteSet(Rows) /\ Rows \subseteq DOMAIN offers
      BY RowsFinite DEF Rows, Visible
    <3>3. /\ later \in SUBSET Nat /\ IsFiniteSet(later) /\ later \subseteq DOMAIN offers'
      <4>1. Len(offers') \in Nat /\ DOMAIN offers' = 1 .. Len(offers')
        BY DEF OfferInv
      <4>2. IsFiniteSet(DOMAIN offers') /\ later \in SUBSET DOMAIN offers'
        BY <4>1, FS_Interval DEF Visible
      <4>3. QED
        BY <4>1, <4>2, FS_Subset
    <3> HIDE DEF later
    <3>4. Ids(offers, Rows) \subseteq Ids(offers', later)
      BY <2>2, <2>4
    <3>5. \A j, l \in Rows : offers[j].id = offers[l].id => j = l
      BY <3>2 DEF WalkInv, IdsDistinct
    <3>6. \A j, l \in Rows, k, m \in later :
            offers[j].id = offers'[k].id /\ offers[l].id = offers'[m].id /\ j <= l => k <= m
      BY <3>2, <3>3 DEF OrderKept
    <3>7. PICK k \in later : offers'[k].id = offers[i].id /\ Rank(Rows, i) <= Rank(later, k)
      <4>1. Contained(offers, Rows, offers', later)
        BY <3>4, <3>5, <3>6 DEF Contained
      <4>2. QED
        BY <3>2, <3>3, <4>1, RankKept
    <3>8. Rank(Rows, i) \in Nat /\ Rank(later, k) \in Nat /\ walk.at \in Nat
      BY <1>1, <3>2, <3>3, RankType DEF Walks
    <3>9. QED
      BY <2>3, <3>1, <3>7, <3>8
  <2>5. QED
    BY <2>2, <2>4 DEF WalkInv, PagesComplete
<1>4. QED
  BY <1>2, <1>3

\* A page that is turned.
LEMMA TurnKeeps ==
  ASSUME OfferInv, WalkInv, NEW p \in Peer, Turns(p)
  PROVE  WalkInv'
<1> DEFINE page == PageAt(Rows, walk.at)
           got == Cardinality(page)
           total == Cardinality(Rows)
           next == NextCursor(walk.at, got, total)
<1>1. /\ walk.st = "on" /\ walk.peer = p /\ UNCHANGED <<offers, made, cached>>
      /\ walk' = [walk EXCEPT !.seen = @ \cup Ids(offers, page), !.at = next,
                              !.st = IF next = 0 THEN "done" ELSE "on"]
  BY DEF Turns, Takes, Reply, offerVars, groupVars, Rows
<1>2. walk \in Walks /\ IdsDistinct /\ walk.at \in Nat
  BY DEF WalkInv, Walks
<1>3. Rows \in SUBSET Nat /\ IsFiniteSet(Rows) /\ Rows \subseteq DOMAIN offers
  BY RowsFinite DEF Rows, Visible
<1>4. Page \in Nat /\ total \in Nat /\ got \in 0 .. Page /\ (walk.at < total => got # 0)
  BY <1>2, <1>3, PageSize, FS_CardinalityType, CatalogueAssumption
<1>5. Ids(offers, page) \subseteq Nat
  <2>1. \A i \in DOMAIN offers : offers[i].id \in Nat
    BY OfferIds
  <2>2. QED
    BY <1>3, <2>1 DEF Ids, PageAt
<1> HIDE DEF page, got, total
<1>6. next \in Nat /\ (next = 0 => walk.at + got >= total) /\ (next # 0 => next = walk.at + got)
  BY <1>2, <1>4 DEF NextCursor
<1> HIDE DEF next
<1>7. /\ walk' \in Walks /\ walk'.seen = walk.seen \cup Ids(offers, page) /\ walk'.at = next
      /\ walk'.st = (IF next = 0 THEN "done" ELSE "on")
      /\ walk'.peer = walk.peer /\ walk'.must = walk.must /\ walk'.shrunk = walk.shrunk
  BY <1>1, <1>2, <1>5, <1>6 DEF Walks
<1>8. Rows' = Rows
  BY <1>1, <1>7 DEF Rows
<1>9. ASSUME ~walk.shrunk, NEW x \in walk.must, x \notin walk'.seen
      PROVE  next # 0 /\ \E i \in Rows : offers[i].id = x /\ next < Rank(Rows, i)
  <2>1. x \notin walk.seen /\ x \notin Ids(offers, page)
    BY <1>7, <1>9
  <2>2. PICK i \in Rows : offers[i].id = x /\ walk.at < Rank(Rows, i)
    BY <1>1, <1>9, <2>1 DEF WalkInv
  <2>3. i \notin page
    BY <2>1, <2>2 DEF Ids
  <2>4. Rank(Rows, i) \in 1 .. total
    BY <1>3, RankType DEF total
  <2>5. Rank(Rows, i) > walk.at + Page
    BY <1>2, <1>4, <2>2, <2>3, <2>4 DEF page, PageAt
  <2>6. QED
    BY <1>2, <1>4, <1>6, <2>2, <2>4, <2>5
<1>10. QED
  BY <1>1, <1>2, <1>7, <1>8, <1>9 DEF WalkInv, PagesComplete, IdsDistinct

LEMMA BeginKeeps ==
  ASSUME OfferInv, WalkInv, NEW p \in Peer, Begins(p)
  PROVE  WalkInv'
<1> DEFINE rows == Visible(offers, p, cached[p])
<1>1. /\ UNCHANGED <<offers, made, cached>>
      /\ walk' = [Idle EXCEPT !.peer = p, !.st = "on", !.must = Ids(offers, rows)]
  BY DEF Begins, offerVars, groupVars, Seen
<1>2. rows \in SUBSET Nat /\ IsFiniteSet(rows) /\ rows \subseteq DOMAIN offers
  BY RowsFinite DEF Visible
<1>3. Ids(offers, rows) \subseteq Nat
  <2>1. \A i \in DOMAIN offers : offers[i].id \in Nat
    BY OfferIds
  <2>2. QED
    BY <1>2, <2>1 DEF Ids
<1>4. /\ walk' \in Walks /\ walk'.st = "on" /\ walk'.must = Ids(offers, rows) /\ walk'.at = 0
      /\ walk'.peer = p
  BY <1>1, <1>3 DEF Walks, Idle
<1>5. Rows' = rows
  BY <1>1, <1>4 DEF Rows
<1> HIDE DEF rows
<1>6. \A i \in rows : 0 < Rank(rows, i)
  BY <1>2, RankType
<1>7. QED
  BY <1>1, <1>4, <1>5, <1>6 DEF WalkInv, PagesComplete, IdsDistinct, Ids

LEMMA WalkStep == OfferInv /\ WalkInv /\ [Next]_vars => WalkInv'
<1> SUFFICES ASSUME OfferInv, WalkInv, [Next]_vars PROVE WalkInv'
  OBVIOUS
<1>1. OfferInv' /\ IdsDistinct' /\ OrderKept
  BY OfferStep, OrderStep DEF WalkInv
<1>2. ASSUME UNCHANGED <<offers, made, cached, walk>>
      PROVE  WalkInv'
  BY <1>2 DEF WalkInv, PagesComplete, IdsDistinct, Rows
<1>3. CASE Watch
  BY <1>1, <1>3, WatchKeeps
<1>4. CASE Reads
  BY <1>4, BeginKeeps, TurnKeeps DEF Reads
<1>5. CASE Api
  BY <1>2, <1>5 DEF Api, Asks, Polls, Heals, Clears, Records, Requests, catVars, offerVars, groupVars
<1>6. CASE Daemon
  BY <1>2, <1>6 DEF Daemon, Answered, Ends, Stalls, Hears, Misses, catVars, offerVars, groupVars
<1>7. CASE UNCHANGED vars
  BY <1>2, <1>7 DEF vars, catVars, offerVars, groupVars
<1>8. QED
  BY <1>3, <1>4, <1>5, <1>6, <1>7 DEF Next, CatNext

\* A reader who turns every page has seen all that he could see when he began, whatever
\* the length of a page, while offerings come and change, unless something was withdrawn
\* (api/rpc.rs handle_catalogue_list).
THEOREM PagesStayComplete == Spec => []PagesComplete
<1>1. Init => OfferInv /\ WalkInv
  BY DEF Init, CatInit, OfferInv, OfferedIsStored, WalkInv, PagesComplete, IdsDistinct, Walks, Idle
<1>2. WalkInv => PagesComplete
  BY DEF WalkInv
<1>3. QED
  BY <1>1, <1>2, OfferStep, WalkStep, PTL DEF Spec

--------------------------------------------------------------------------------
(* Types of the catalogue and of the downloads.                                 *)

\* There are never more offerings than were made, nor more made and under way than
\* the bound; a cursor points at one of them.
Counts ==
  /\ IsFiniteSet(creating) /\ made + Cardinality(creating) <= MaxOffers
  /\ Len(offers) <= made /\ \A i \in DOMAIN offers : offers[i].id # 0
  /\ walk.at <= MaxOffers

\* The rest of the types of the catalogue, and those of the downloads.
BlobTypes ==
  /\ store \subseteq Blob /\ deleting \subseteq Blob /\ lost \subseteq Blob
  /\ group \in [Group -> {"new", "there", "deleted"}] /\ behind \subseteq Peer
  /\ calls \in 0 .. MaxCalls

DownloadTypes ==
  /\ downloads \in [Blob -> Status \cup {"none", "transferring"}]
  /\ handler \in [Handlers -> [st : {"free", "found", "missing", "asking", "asked"}, blob : Blob]]
  /\ transfers \subseteq Blob /\ answers \subseteq Blob \X Status /\ unheard \subseteq Blob
  /\ restarts \in 0 .. MaxRestarts

LEMMA CallRange == ASSUME BlobTypes, Call PROVE calls' \in 0 .. MaxCalls
BY CatalogueAssumption DEF Call, BlobTypes

\* What an offering that is put in, or taken out, makes of the counts.
LEMMA InsertCounts ==
  ASSUME OfferInv, Counts, NEW c \in creating, Inserts(c), walk'.at = walk.at
  PROVE  Counts'
<1>1. /\ IsFiniteSet(creating') /\ Cardinality(creating') = Cardinality(creating) - 1
      /\ Cardinality(creating) \in Nat /\ made \in Nat /\ MaxOffers \in Nat
  BY FS_RemoveElement, FS_CardinalityType, CatalogueAssumption DEF Counts, Inserts, OfferInv
<1>2. CASE UNCHANGED <<offers, made>>
  BY <1>1, <1>2 DEF Counts
<1>3. CASE ~UNCHANGED <<offers, made>>
  <2> DEFINE o == [id |-> made + 1, blob |-> c.blob, name |-> c.name, access |-> c.access]
  <2>1. /\ made' = made + 1 /\ \E i \in 1 .. Len(offers) + 1 : offers' = InsertAt(offers, i, o)
        /\ offers \in Seq(Offering) /\ o \in Offering /\ o.id # 0
    BY <1>1, <1>3 DEF Inserts, Inserted, OfferInv, Offering
  <2> HIDE DEF o
  <2>2. PICK i \in 1 .. Len(offers) + 1 : offers' = InsertAt(offers, i, o)
    BY <2>1
  <2>3. /\ offers' \in Seq(Offering) /\ Len(offers') = Len(offers) + 1
        /\ \A k \in 1 .. Len(offers) + 1 : offers'[k] =
             IF k < i THEN offers[k] ELSE IF k = i THEN o ELSE offers[k - 1]
    BY <2>1, <2>2, InsertOffering
  <2>4. \A k \in DOMAIN offers' : offers'[k] = o \/ \E j \in DOMAIN offers : offers'[k] = offers[j]
    BY <2>1, <2>3
  <2>5. \A k \in DOMAIN offers' : offers'[k].id # 0
    BY <2>1, <2>4 DEF Counts
  <2>6. Len(offers) \in Nat
    BY <2>1
  <2>7. QED
    BY <1>1, <2>1, <2>3, <2>5, <2>6 DEF Counts
<1>4. QED
  BY <1>2, <1>3

LEMMA OwnerCounts ==
  ASSUME OfferInv, OfferInv', Counts, Owner, walk'.at = walk.at
  PROVE  Counts'
<1>1. ASSUME NEW blob \in Blob, NEW name \in Name, NEW access \in Policy, NEW upload \in BOOLEAN,
             Creates(blob, name, access, upload)
      PROVE  Counts'
  <2> DEFINE c == [blob |-> blob, name |-> name, access |-> access]
  <2>1. creating' = creating \cup {c} /\ UNCHANGED <<offers, made>> /\ made + Cardinality(creating) < MaxOffers
    BY <1>1 DEF Creates
  <2> HIDE DEF c
  <2>2. /\ IsFiniteSet(creating') /\ Cardinality(creating) \in Nat /\ Cardinality(creating') \in Nat
        /\ Cardinality(creating') <= Cardinality(creating) + 1
    <3>1. IsFiniteSet(creating) /\ Cardinality(creating) \in Nat
      BY FS_CardinalityType DEF Counts
    <3>2. /\ IsFiniteSet(creating')
          /\ Cardinality(creating') = IF c \in creating THEN Cardinality(creating) ELSE Cardinality(creating) + 1
      BY <2>1, <3>1, FS_AddElement
    <3>3. QED
      BY <3>1, <3>2
  <2>3. made \in Nat /\ MaxOffers \in Nat
    BY CatalogueAssumption DEF OfferInv
  <2>4. QED
    BY <2>1, <2>2, <2>3 DEF Counts
<1>2. ASSUME NEW i \in DOMAIN offers, NEW name \in Name, NEW access \in Policy, Updates(i, name, access)
      PROVE  Counts'
  <2>1. offers' = [offers EXCEPT ![i].name = name, ![i].access = access] /\ UNCHANGED <<creating, made>>
    BY <1>2 DEF Updates
  <2>2. DOMAIN offers = 1 .. Len(offers) /\ \A k \in DOMAIN offers : offers[k] \in Offering
    BY DEF OfferInv
  <2>3. DOMAIN offers' = DOMAIN offers /\ \A k \in DOMAIN offers \ {i} : offers'[k] = offers[k]
    BY <2>1
  <2>4. offers'[i].id = offers[i].id
    BY <2>1, <2>2 DEF Offering
  <2>5. Len(offers') = Len(offers)
    BY <2>2, <2>3 DEF OfferInv
  <2>6. QED
    BY <2>1, <2>3, <2>4, <2>5 DEF Counts
<1>3. ASSUME NEW i \in DOMAIN offers, NEW retain \in BOOLEAN, DeletesRow(i, retain) PROVE Counts'
  <2>1. offers' = RemoveAt(offers, i) /\ i \in 1 .. Len(offers) /\ offers \in Seq(Offering)
        /\ UNCHANGED <<creating, made>>
    BY <1>3 DEF DeletesRow, RowGone, OfferInv
  <2>2. /\ Len(offers') = Len(offers) - 1 /\ offers' \in Seq(Offering)
        /\ \A k \in 1 .. Len(offers) - 1 : offers'[k] = IF k < i THEN offers[k] ELSE offers[k + 1]
    BY <2>1, RemoveProperties
  <2>3. \A k \in DOMAIN offers' : \E j \in DOMAIN offers : offers'[k] = offers[j]
    BY <2>1, <2>2
  <2>4. Len(offers) \in Nat /\ made \in Nat
    BY <2>1 DEF OfferInv
  <2>5. QED
    BY <2>1, <2>2, <2>3, <2>4 DEF Counts
<1>4. ASSUME NEW blob \in Blob, NEW done \in BOOLEAN, DeletesBlob(blob, done) PROVE Counts'
  BY <1>4 DEF DeletesBlob, Counts
<1>5. QED
  BY <1>1, <1>2, <1>3, <1>4, InsertCounts DEF Owner

\* A cursor is less than the number of rows there are.
LEMMA TurnCounts ==
  ASSUME OfferInv, WalkInv, Counts, NEW p \in Peer, Turns(p)
  PROVE  Counts'
<1> DEFINE rows == Visible(offers, p, cached[p])
           total == Cardinality(rows)
           got == Cardinality(PageAt(rows, walk.at))
           next == NextCursor(walk.at, got, total)
<1>1. UNCHANGED <<offers, made, creating>> /\ walk'.at = next
  <2>1. walk \in Walks
    BY DEF WalkInv
  <2>2. QED
    BY <2>1 DEF Turns, Takes, Reply, offerVars, groupVars, Walks
<1>2. rows \in SUBSET Nat /\ IsFiniteSet(rows) /\ rows \subseteq DOMAIN offers
  BY RowsFinite DEF Visible
<1>3. walk.at \in Nat /\ made \in Nat /\ MaxOffers \in Nat /\ Len(offers) \in Nat
  <2>1. walk \in Walks /\ offers \in Seq(Offering) /\ made \in Nat
    BY DEF WalkInv, OfferInv
  <2>2. walk.at \in Nat
    BY <2>1 DEF Walks
  <2>3. QED
    BY <2>1, <2>2, CatalogueAssumption
<1>4. DOMAIN offers = 1 .. Len(offers)
  BY DEF OfferInv
<1>5. IsFiniteSet(DOMAIN offers) /\ Cardinality(DOMAIN offers) = Len(offers)
  <2>1. \A n \in Nat : IsFiniteSet(1 .. n) /\ Cardinality(1 .. n) = n
    <3> TAKE n \in Nat
    <3>1. /\ IsFiniteSet(1 .. n) /\ Cardinality(1 .. n) = IF 1 > n THEN 0 ELSE n - 1 + 1
      BY FS_Interval
    <3>2. QED
      BY <3>1
  <2>2. QED
    BY <1>3, <1>4, <2>1
<1> HIDE DEF rows
<1>6. total \in Nat /\ total <= Len(offers)
  BY <1>2, <1>5, FS_Subset, FS_CardinalityType
<1>7. got \in Nat
  <2>1. got \in 0 .. Page
    BY <1>2, <1>3, PageSize
  <2>2. QED
    BY <2>1
<1>8. IsFiniteSet(creating) /\ Cardinality(creating) \in Nat
  BY FS_CardinalityType DEF Counts
<1> HIDE DEF total, got
<1>9. next <= MaxOffers
  BY <1>3, <1>6, <1>7, <1>8 DEF NextCursor, Counts
<1>10. QED
  BY <1>1, <1>9 DEF Counts

LEMMA CountsStep == OfferInv /\ WalkInv /\ Counts /\ [Next]_vars => Counts'
<1> SUFFICES ASSUME OfferInv, WalkInv, Counts, [Next]_vars PROVE Counts'
  OBVIOUS
<1>1. OfferInv' /\ walk \in Walks
  BY OfferStep DEF WalkInv
<1>2. ASSUME UNCHANGED <<offers, made, creating>>, walk'.at = walk.at PROVE Counts'
  BY <1>2 DEF Counts
<1>3. Watch => walk'.at = walk.at
  BY <1>1 DEF Watch, Walks
<1>4. CASE Owner /\ Watch
  BY <1>1, <1>3, <1>4, OwnerCounts
<1>5. CASE Groups /\ Watch
  BY <1>2, <1>3, <1>5 DEF Groups, Regroups, Lists, Unlists, Fetches, Caches, offerVars
<1>6. CASE Reads
  <2>1. ASSUME NEW p \in Peer, Begins(p) PROVE Counts'
    <3>1. UNCHANGED <<offers, made, creating>> /\ walk'.at = 0
      BY <2>1 DEF Begins, offerVars, Idle
    <3>2. QED
      BY <3>1, CatalogueAssumption DEF Counts
  <2>2. QED
    BY <1>6, <2>1, TurnCounts DEF Reads
<1>7. CASE Api
  BY <1>2, <1>7 DEF Api, Asks, Polls, Heals, Clears, Records, Requests, catVars, offerVars
<1>8. CASE Daemon
  BY <1>2, <1>8 DEF Daemon, Answered, Ends, Stalls, Hears, Misses, catVars, offerVars
<1>9. CASE Restarts /\ Watch
  <2>1. creating' = {} /\ UNCHANGED <<offers, made>>
    BY <1>9 DEF Restarts
  <2>2. IsFiniteSet(creating') /\ Cardinality(creating') = 0 /\ Cardinality(creating) \in Nat
    BY <2>1, FS_EmptySet, FS_CardinalityType DEF Counts
  <2>3. made \in Nat /\ MaxOffers \in Nat
    BY CatalogueAssumption DEF OfferInv
  <2>4. QED
    BY <1>3, <1>9, <2>1, <2>2, <2>3 DEF Counts
<1>10. CASE UNCHANGED vars
  BY <1>2, <1>10 DEF vars, catVars, offerVars
<1>11. QED
  BY <1>4, <1>5, <1>6, <1>7, <1>8, <1>9, <1>10 DEF Next, CatNext

LEMMA BlobTypesStep == OfferInv /\ GroupInv /\ BlobTypes /\ DownloadTypes /\ [Next]_vars => BlobTypes'
<1> SUFFICES ASSUME OfferInv, GroupInv, BlobTypes, DownloadTypes, [Next]_vars PROVE BlobTypes'
  OBVIOUS
<1>1. CASE UNCHANGED <<store, deleting, lost, group, behind>> /\ (Call \/ UNCHANGED calls)
  BY <1>1, CallRange DEF BlobTypes
<1>2. CASE Owner
  <2>1. ASSUME NEW blob \in Blob, NEW name \in Name, NEW access \in Policy, NEW upload \in BOOLEAN,
               Creates(blob, name, access, upload)
        PROVE  BlobTypes'
    BY <2>1, CallRange DEF Creates, Stored, BlobTypes, groupVars, accessVars
  <2>2. ASSUME NEW c \in creating, Inserts(c) PROVE BlobTypes'
    BY <1>1, <2>2 DEF Inserts, groupVars, accessVars
  <2>3. ASSUME NEW i \in DOMAIN offers, NEW name \in Name, NEW access \in Policy, Updates(i, name, access)
        PROVE  BlobTypes'
    BY <1>1, <2>3 DEF Updates, groupVars, accessVars
  <2>4. ASSUME NEW i \in DOMAIN offers, NEW retain \in BOOLEAN, DeletesRow(i, retain) PROVE BlobTypes'
    <3>1. offers[i].blob \in Blob
      <4>1. offers[i] \in Offering
        BY DEF OfferInv
      <4>2. QED
        BY <4>1 DEF Offering
    <3>2. deleting' \subseteq Blob /\ UNCHANGED <<store, lost, group, behind>>
      BY <2>4, <3>1 DEF DeletesRow, BlobTypes, groupVars, accessVars
    <3>3. calls' \in 0 .. MaxCalls
      BY <2>4, CallRange DEF DeletesRow
    <3>4. QED
      BY <3>2, <3>3 DEF BlobTypes
  <2>5. ASSUME NEW blob \in Blob, NEW done \in BOOLEAN, DeletesBlob(blob, done) PROVE BlobTypes'
    BY <2>5 DEF DeletesBlob, BlobTypes, groupVars, accessVars
  <2>6. QED
    BY <1>2, <2>1, <2>2, <2>3, <2>4, <2>5 DEF Owner
<1>3. CASE Groups
  <2>1. CASE Regroups
    <3>1. group' \in [Group -> {"new", "there", "deleted"}]
      <4>1. \/ UNCHANGED group
            \/ \E g \in Group, s \in {"there", "deleted"} : group' = [group EXCEPT ![g] = s]
        BY <2>1 DEF Regroups, AccessNext, CreateGroup, Created, DeleteGroup, Deleted, AssignPeer,
                    RemovePeer, DenyPeer
      <4>2. QED
        BY <4>1 DEF BlobTypes
    <3>2. behind' \subseteq Peer /\ UNCHANGED <<store, deleting, lost>>
      BY <2>1 DEF Regroups, offerVars, BlobTypes
    <3>3. calls' \in 0 .. MaxCalls
      BY <2>1, CallRange DEF Regroups
    <3>4. QED
      BY <3>1, <3>2, <3>3 DEF BlobTypes
  <2>2. ASSUME NEW p \in Peer, Unlists(p) \/ \E slot \in Slots : Lists(p, slot) PROVE BlobTypes'
    BY <1>1, <2>2 DEF Unlists, Lists, offerVars, accessVars
  <2>3. ASSUME NEW f \in fetching, NEW found \in BOOLEAN, Fetches(f, found) PROVE BlobTypes'
    <3>1. f.peer \in Peer
      BY DEF GroupInv
    <3>2. QED
      BY <2>3, <3>1 DEF Fetches, BlobTypes, offerVars, accessVars
  <2>4. ASSUME NEW f \in fetching, Caches(f) PROVE BlobTypes'
    BY <1>1, <2>4 DEF Caches, offerVars, accessVars
  <2>5. QED
    BY <1>3, <2>1, <2>2, <2>3, <2>4 DEF Groups
<1>4. CASE Reads
  BY <1>1, <1>4 DEF Reads, Begins, Turns, offerVars, groupVars, accessVars
<1>5. CASE Api
  <2>1. ASSUME NEW h \in Handlers, NEW b \in Blob, (\E told \in BOOLEAN : Asks(h, b, told)) \/ Polls(h, b)
        PROVE  BlobTypes'
    BY <1>1, <2>1 DEF Asks, Polls, offerVars, groupVars, accessVars
  <2>2. ASSUME NEW h \in Handlers,
               Heals(h) \/ Clears(h) \/ Records(h) \/ \E sent \in BOOLEAN : Requests(h, sent)
        PROVE  BlobTypes'
    BY <1>1, <2>2 DEF Heals, Clears, Records, Requests, catVars, offerVars, groupVars, accessVars
  <2>3. QED
    BY <1>5, <2>1, <2>2 DEF Api
<1>6. CASE Daemon
  <2>1. ASSUME NEW b \in Blob, NEW status \in Status, Ends(b, status) PROVE BlobTypes'
    BY <2>1 DEF Ends, BlobTypes, groupVars, accessVars
  <2>2. ASSUME NEW b \in Blob,
               Stalls(b) \/ \E status \in Status : Hears(b, status) \/ Misses(b, status)
        PROVE  BlobTypes'
    BY <1>1, <2>2 DEF Stalls, Hears, Misses, catVars, offerVars, groupVars, accessVars
  <2>3. QED
    BY <1>6, <2>1, <2>2 DEF Daemon, Answered
<1>7. CASE Restarts
  BY <1>7 DEF Restarts, BlobTypes, accessVars
<1>8. CASE UNCHANGED vars
  BY <1>1, <1>8 DEF vars, catVars, offerVars, groupVars, accessVars
<1>9. QED
  BY <1>2, <1>3, <1>4, <1>5, <1>6, <1>7, <1>8 DEF Next, CatNext

LEMMA ApiTypes == ASSUME DownloadTypes, Api PROVE DownloadTypes'
<1>0. PICK h \in Handlers :
        \/ \E b \in Blob : (\E told \in BOOLEAN : Asks(h, b, told)) \/ Polls(h, b)
        \/ Heals(h) \/ Clears(h) \/ Records(h)
        \/ \E sent \in BOOLEAN : Requests(h, sent)
  BY DEF Api
<1> DEFINE Held == [st : {"free", "found", "missing", "asking", "asked"}, blob : Blob]
<1>1. /\ handler \in [Handlers -> Held] /\ Free \in Held
      /\ handler[h].blob \in Blob
  <2>1. (CHOOSE b \in Blob : TRUE) \in Blob
    BY FilesAssumption
  <2>2. QED
    BY <2>1 DEF DownloadTypes, Free
<1>2. ASSUME NEW s \in {"asking", "asked"}, At(h, s) PROVE handler' \in [Handlers -> Held]
  <2>1. [handler[h] EXCEPT !.st = s] \in Held
    BY <1>1
  <2>2. QED
    BY <1>1, <1>2, <2>1 DEF At
<1>3. ASSUME NEW x \in Held, handler' = [handler EXCEPT ![h] = x] PROVE handler' \in [Handlers -> Held]
  BY <1>1, <1>3
<1>4. ASSUME NEW b \in Blob, (\E told \in BOOLEAN : Asks(h, b, told)) \/ Polls(h, b)
      PROVE  DownloadTypes'
  <2>1. \A s \in {"found", "missing"} : [st |-> s, blob |-> b] \in Held
    OBVIOUS
  <2>2. handler' \in [Handlers -> Held]
    BY <1>3, <1>4, <2>1 DEF Asks, Polls
  <2>3. QED
    BY <1>4, <2>2 DEF Asks, Polls, DownloadTypes
<1>5. CASE Heals(h)
  <2>1. handler' \in [Handlers -> Held]
    BY <1>1, <1>3, <1>5 DEF Heals
  <2>2. downloads' \in [Blob -> Status \cup {"none", "transferring"}]
    BY <1>1, <1>5 DEF Heals, Updated, Status, DownloadTypes
  <2>3. QED
    BY <1>5, <2>1, <2>2 DEF Heals, DownloadTypes
<1>6. CASE Clears(h)
  <2>1. handler' \in [Handlers -> Held]
    BY <1>1, <1>2, <1>3, <1>6 DEF Clears
  <2>2. downloads' \in [Blob -> Status \cup {"none", "transferring"}]
    BY <1>1, <1>6 DEF Clears, DownloadTypes
  <2>3. QED
    BY <1>6, <2>1, <2>2 DEF Clears, DownloadTypes
<1>7. CASE Records(h)
  <2>1. handler' \in [Handlers -> Held]
    BY <1>1, <1>3, <1>7 DEF Records
  <2>2. downloads' \in [Blob -> Status \cup {"none", "transferring"}]
    BY <1>1, <1>7 DEF Records, Recorded, DownloadTypes
  <2>3. QED
    BY <1>7, <2>1, <2>2 DEF Records, DownloadTypes
<1>8. ASSUME NEW sent \in BOOLEAN, Requests(h, sent) PROVE DownloadTypes'
  <2>1. handler' \in [Handlers -> Held]
    BY <1>1, <1>2, <1>3, <1>8 DEF Requests
  <2>2. transfers' \subseteq Blob
    BY <1>1, <1>8 DEF Requests, DownloadTypes
  <2>3. QED
    BY <1>8, <2>1, <2>2 DEF Requests, DownloadTypes
<1>9. QED
  BY <1>0, <1>4, <1>5, <1>6, <1>7, <1>8

LEMMA DownloadTypesStep == DownloadTypes /\ [Next]_vars => DownloadTypes'
<1> SUFFICES ASSUME DownloadTypes, [Next]_vars PROVE DownloadTypes'
  OBVIOUS
<1>1. CASE UNCHANGED <<dlVars, restarts>>
  BY <1>1 DEF dlVars, DownloadTypes
<1>2. CASE Daemon
  <2>1. PICK b \in Blob, status \in Status :
          Ends(b, status) \/ Stalls(b) \/ Hears(b, status) \/ Misses(b, status)
    BY <1>2 DEF Daemon, Answered, Status
  <2>2. CASE Ends(b, status) \/ Stalls(b) \/ Misses(b, status)
    BY <2>2 DEF Ends, Stalls, Misses, DownloadTypes
  <2>3. CASE Hears(b, status)
    <3>1. downloads' \in [Blob -> Status \cup {"none", "transferring"}]
      BY <2>3 DEF Hears, Updated, DownloadTypes
    <3>2. QED
      BY <2>3, <3>1 DEF Hears, DownloadTypes
  <2>4. QED
    BY <2>1, <2>2, <2>3
<1>3. CASE Restarts
  <2>1. handler' \in [Handlers -> [st : {"free", "found", "missing", "asking", "asked"}, blob : Blob]]
    <3>1. (CHOOSE b \in Blob : TRUE) \in Blob
      BY FilesAssumption
    <3>2. QED
      BY <1>3, <3>1 DEF Restarts, Free
  <2>2. restarts' \in 0 .. MaxRestarts
    BY <1>3, FilesAssumption DEF Restarts, DownloadTypes
  <2>3. QED
    BY <1>3, <2>1, <2>2 DEF Restarts, DownloadTypes
<1>4. CASE UNCHANGED vars
  BY <1>1, <1>4 DEF vars
<1>5. QED
  BY <1>1, <1>2, <1>3, <1>4, ApiTypes DEF Next

\* Every variable of the catalogue and of the downloads has its type: there are never
\* more offerings than were made, a cursor is never past the last of them, and a row,
\* a request and a callback are about a blob, for any peers, blobs, handlers and bounds.
THEOREM FilesTypeCorrect == Spec => []TypeOK
<1>1. Init => OfferInv /\ WalkInv /\ GroupInv
  BY DEF Init, CatInit, AccessInit, OfferInv, OfferedIsStored, WalkInv, PagesComplete, IdsDistinct,
         Walks, Idle, GroupInv, CacheIsFresh, Hooks
<1>2. Init => Counts
  <2> SUFFICES ASSUME Init PROVE Counts
    OBVIOUS
  <2>1. offers = <<>> /\ creating = {} /\ made = 0 /\ walk.at = 0
    BY DEF Init, CatInit, Idle
  <2>2. QED
    BY <2>1, FS_EmptySet, CatalogueAssumption DEF Counts
<1>3. Init => BlobTypes /\ DownloadTypes
  <2> SUFFICES ASSUME Init PROVE BlobTypes /\ DownloadTypes
    OBVIOUS
  <2>1. BlobTypes
    <3>1. group \in [Group -> {"new", "there"}]
      BY DEF Init, CatInit, AccessInit
    <3>2. calls \in 0 .. MaxCalls
      BY CatalogueAssumption DEF Init, CatInit
    <3>3. QED
      BY <3>1, <3>2 DEF Init, CatInit, BlobTypes
  <2>2. (CHOOSE b \in Blob : TRUE) \in Blob
    BY FilesAssumption
  <2>3. DownloadTypes
    BY <2>2, FilesAssumption DEF Init, Free, DownloadTypes
  <2>4. QED
    BY <2>1, <2>3
<1>4. OfferInv /\ WalkInv /\ GroupInv /\ Counts /\ BlobTypes /\ DownloadTypes => TypeOK
  <2> SUFFICES ASSUME OfferInv, WalkInv, GroupInv, Counts, BlobTypes, DownloadTypes PROVE TypeOK
    OBVIOUS
  <2> DEFINE Row == [id : 1 .. MaxOffers, blob : Blob, name : Name, access : Policy]
  <2>1. /\ made \in Nat /\ MaxOffers \in Nat /\ Cardinality(creating) \in Nat /\ Len(offers) \in Nat
        /\ DOMAIN offers = 1 .. Len(offers) /\ offers \in Seq(Offering)
    BY CatalogueAssumption, FS_CardinalityType DEF Counts, OfferInv
  <2>2. made \in 0 .. MaxOffers /\ Len(offers) \in 0 .. MaxOffers
    BY <2>1 DEF Counts
  <2>3. offers \in [1 .. Len(offers) -> Row]
    <3>1. ASSUME NEW i \in DOMAIN offers
          PROVE  offers[i] \in Offering /\ offers[i].id \in 1 .. MaxOffers
      <4>1. offers[i] \in Offering /\ offers[i].id # 0 /\ offers[i].id <= made
        BY <2>1 DEF Counts, WalkInv, IdsDistinct
      <4>2. offers[i].id \in Nat
        BY <4>1 DEF Offering
      <4>3. QED
        BY <2>1, <2>2, <4>1, <4>2
    <3>2. \A i \in DOMAIN offers : offers[i] \in Row
      BY <3>1 DEF Offering
    <3>3. QED
      BY <2>1, <3>2
  <2> HIDE DEF Row
  <2>4. offers \in SeqOf(Row, MaxOffers)
    BY <2>2, <2>3 DEF SeqOf
  <2>5. walk.st \in {"idle", "on", "done"} /\ walk.at \in 0 .. MaxOffers
    BY <2>1 DEF WalkInv, Walks, Counts
  <2>6. CatTypeOK
    BY <2>2, <2>4, <2>5 DEF CatTypeOK, AccessTypeOK, BlobTypes, OfferInv, GroupInv, Row
  <2>7. QED
    BY <2>6 DEF TypeOK, DownloadTypes
<1>5. QED
  BY <1>1, <1>2, <1>3, <1>4, OfferStep, WalkStep, GroupStep, CountsStep, BlobTypesStep,
     DownloadTypesStep, PTL DEF Spec
================================================================================
