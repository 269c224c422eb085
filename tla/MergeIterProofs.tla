--------------------------- MODULE MergeIterProofs ----------------------------
(***************************************************************************)
(* What a scan or a compaction gets of its layers, for every number of     *)
(* tables, every content, every damage and every range.                    *)
(***************************************************************************)
EXTENDS Layers, OrderingProofs, SequenceTheorems

(***************************************************************************)
(* The inductive invariant.  All sources have come past the same key       *)
(* `done`, and source s holds what was written to it from there up to the  *)
(* key lost[s], the first that its damage takes away; the damage shows as  *)
(* an error after the last entry, until the error is returned.             *)
(***************************************************************************)
Held(s) == {k \in Keys : whole[s][k] # "absent"}
Left(s, done, lost) == {k \in Held(s) : done < k /\ k < lost}

InOrderOf(items) ==
  \A i, j \in DOMAIN items :
    i < j => /\ ~IsErr(items[i])
             /\ ~IsErr(items[j]) => items[i].key < items[j].key

Holds(s, items, K) ==
  /\ \A i \in DOMAIN items :
       items[i] = Err \/ \E k \in K : items[i] = Item(s, k, whole[s][k])
  /\ \A k \in K : \E i \in DOMAIN items : items[i] = Item(s, k, whole[s][k])

HasErr(items) == \E i \in DOMAIN items : IsErr(items[i])

SourceOk(s, done, lost) ==
  /\ InOrderOf(heads[s])
  /\ Holds(s, heads[s], Left(s, done, lost))
  /\ lost <= Len(Words) => HasErr(heads[s]) \/ Failed

\* The keys to be returned of those up to done.
Shown(done) == {k \in Keys : k <= done /\ InRange(k) /\ Holders(k) # {}}

OutOk(done) ==
  /\ \A i \in DOMAIN out : out[i] = Err \/ \E s \in Sources, k \in 1 .. done :
                                              out[i] = Item(s, k, whole[s][k])
  /\ Ascending
  /\ ~Failed => /\ \A i \in DOMAIN out : \E k \in Shown(done) : out[i] = Newest(k)
                /\ \A k \in Shown(done) : \E i \in DOMAIN out : out[i] = Newest(k)

Items == [key : Keys, source : Sources, version : Versions]
Types == /\ whole \in [Sources -> [Keys -> Versions]]
         /\ heads \in [Sources -> Seq(Items \cup {Err})]
         /\ out \in Seq(Items \cup {Err})
         /\ ended \in BOOLEAN

MInv ==
  /\ Types
  /\ New \/ WithRange \/ WithPrefix
  /\ \E done \in 0 .. Len(Words), lost \in [Sources -> 1 .. Len(Words) + 1] :
       /\ \A s \in Sources : SourceOk(s, done, lost[s])
       /\ OutOk(done)
  /\ ended => Pending = {} /\ (HeadKeys = {} \/ BeyondEnd(Smallest))

-----------------------------------------------------------------------------
(* Items and sequences of them *)

LEMMA KeysAre == Len(Words) \in Nat /\ Keys = 1 .. Len(Words)
BY WordsAssumption DEF Keys

LEMMA ItemFacts ==
  ASSUME NEW s, NEW k, NEW v
  PROVE  /\ ~IsErr(Item(s, k, v)) /\ Item(s, k, v) # Err
         /\ Item(s, k, v).key = k /\ Item(s, k, v).source = s
         /\ Item(s, k, v).version = v
<1>1. "error" \notin DOMAIN Item(s, k, v)
  BY DEF Item
<1>2. "error" \in DOMAIN Err
  BY DEF Err
<1> QED
  BY <1>1, <1>2 DEF Item, IsErr

LEMMA ErrIsErr == IsErr(Err)
BY DEF Err, IsErr

\* Less than all elements but itself.
Least(k, K) == k \in K /\ \A j \in K : k <= j

\* The first item of a source is its only error, or its least key.
LEMMA FirstItem ==
  ASSUME NEW s \in Sources, NEW items \in Seq(Items \cup {Err}), NEW K \in SUBSET Keys,
         InOrderOf(items), Holds(s, items, K), items # <<>>
  PROVE  /\ Head(items) = items[1]
         /\ \/ items[1] = Err /\ Tail(items) = <<>> /\ K = {}
            \/ \E k \in K : items[1] = Item(s, k, whole[s][k]) /\ Least(k, K)
<1>1. /\ Len(items) \in Nat \ {0} /\ 1 \in DOMAIN items /\ DOMAIN items = 1 .. Len(items)
      /\ Head(items) = items[1]
  OBVIOUS
<1>2. CASE items[1] = Err
  <2>1. Len(items) = 1
    <3> SUFFICES ASSUME Len(items) # 1 PROVE FALSE
      OBVIOUS
    <3>1. 2 \in DOMAIN items
      BY <1>1
    <3> QED
      BY <1>1, <1>2, <3>1, ErrIsErr DEF InOrderOf
  <2>2. Tail(items) = <<>>
    <3>1. Tail(items) \in Seq(Items \cup {Err}) /\ Len(Tail(items)) = 0
      BY <1>1, <2>1
    <3> QED
      BY <3>1, EmptySeq
  <2>3. \A i \in DOMAIN items : items[i] = Err
    BY <1>1, <1>2, <2>1
  <2>4. K = {}
    BY <2>3, ItemFacts DEF Holds
  <2> QED
    BY <1>1, <1>2, <2>2, <2>4
<1>3. CASE items[1] # Err
  <2>1. PICK k \in K : items[1] = Item(s, k, whole[s][k])
    BY <1>1, <1>3 DEF Holds
  <2>2. ASSUME NEW j \in K PROVE k <= j
    <3>1. PICK i \in DOMAIN items : items[i] = Item(s, j, whole[s][j])
      BY DEF Holds
    <3>2. items[1].key = k /\ items[i].key = j /\ ~IsErr(items[i])
      BY <2>1, <3>1, ItemFacts
    <3>3. CASE i = 1
      BY <3>2, <3>3, KeysAre
    <3>4. CASE i # 1
      <4>1. 1 < i
        BY <1>1, <3>4
      <4>2. k < j
        BY <1>1, <3>2, <4>1 DEF InOrderOf
      <4> QED
        BY <4>2, KeysAre
    <3> QED
      BY <3>3, <3>4
  <2> QED
    BY <1>1, <2>1, <2>2 DEF Least
<1> QED
  BY <1>2, <1>3

\* Without its first item it holds what was left but for that key.
LEMMA RestItems ==
  ASSUME NEW s \in Sources, NEW items \in Seq(Items \cup {Err}), NEW K \in SUBSET Keys,
         InOrderOf(items), Holds(s, items, K), items # <<>>,
         NEW k \in K, items[1] = Item(s, k, whole[s][k])
  PROVE  /\ Tail(items) \in Seq(Items \cup {Err})
         /\ InOrderOf(Tail(items)) /\ Holds(s, Tail(items), K \ {k})
         /\ HasErr(items) => HasErr(Tail(items))
<1> DEFINE rest == Tail(items)
<1>1. /\ Len(items) \in Nat \ {0} /\ DOMAIN items = 1 .. Len(items)
      /\ DOMAIN rest = 1 .. Len(items) - 1
      /\ \A i \in DOMAIN rest : rest[i] = items[i + 1] /\ i + 1 \in DOMAIN items
      /\ rest \in Seq(Items \cup {Err})
  OBVIOUS
<1>2. \A i \in DOMAIN items : i # 1 => i - 1 \in DOMAIN rest /\ rest[i - 1] = items[i]
  BY <1>1
<1> HIDE DEF rest
<1>3. InOrderOf(rest)
  <2> SUFFICES ASSUME NEW i \in DOMAIN rest, NEW j \in DOMAIN rest, i < j
               PROVE  /\ ~IsErr(rest[i])
                      /\ ~IsErr(rest[j]) => rest[i].key < rest[j].key
    BY DEF InOrderOf
  <2>1. i + 1 < j + 1
    BY <1>1
  <2> QED
    BY <1>1, <2>1 DEF InOrderOf
<1>4. ASSUME NEW i \in DOMAIN rest
      PROVE  rest[i] = Err \/ \E j \in K \ {k} : rest[i] = Item(s, j, whole[s][j])
  <2>1. i + 1 \in DOMAIN items /\ 1 \in DOMAIN items /\ 1 < i + 1 /\ rest[i] = items[i + 1]
    BY <1>1
  <2>2. CASE items[i + 1] # Err
    <3>1. PICK j \in K : items[i + 1] = Item(s, j, whole[s][j])
      BY <2>1, <2>2 DEF Holds
    <3>2. k < j
      BY <2>1, <3>1, ItemFacts DEF InOrderOf
    <3> QED
      BY <2>1, <3>1, <3>2, KeysAre
  <2> QED
    BY <2>1, <2>2
<1>5. ASSUME NEW j \in K \ {k} PROVE \E i \in DOMAIN rest : rest[i] = Item(s, j, whole[s][j])
  <2>1. PICK i \in DOMAIN items : items[i] = Item(s, j, whole[s][j])
    BY DEF Holds
  <2>2. i # 1
    BY <2>1, ItemFacts
  <2> QED
    BY <1>2, <2>1, <2>2
<1>6. HasErr(items) => HasErr(rest)
  BY <1>2, ItemFacts DEF HasErr
<1> QED
  BY <1>1, <1>3, <1>4, <1>5, <1>6 DEF Holds, rest

-----------------------------------------------------------------------------
(* What the heads say of the sources *)

LEMMA LeftAre ==
  ASSUME NEW s, NEW done \in Nat, NEW lost \in Nat
  PROVE  Left(s, done, lost) \in SUBSET Keys
BY DEF Left, Held

LEMMA AtTheHead ==
  ASSUME Types, NEW s \in Sources, NEW done \in Nat, NEW lost \in Nat,
         SourceOk(s, done, lost), heads[s] # <<>>
  PROVE  \/ AtErr(s) /\ Tail(heads[s]) = <<>> /\ Left(s, done, lost) = {}
         \/ \E k \in Left(s, done, lost) :
              /\ AtKey(s, k) /\ Least(k, Left(s, done, lost))
              /\ Head(heads[s]) = Item(s, k, whole[s][k]) /\ heads[s][1] = Head(heads[s])
<1> DEFINE K == Left(s, done, lost)
<1>1. K \in SUBSET Keys /\ heads[s] \in Seq(Items \cup {Err})
  BY LeftAre DEF Types
<1>2. InOrderOf(heads[s]) /\ Holds(s, heads[s], K)
  BY DEF SourceOk
<1> HIDE DEF K
<1>3. /\ Head(heads[s]) = heads[s][1]
      /\ \/ heads[s][1] = Err /\ Tail(heads[s]) = <<>> /\ K = {}
         \/ \E k \in K : heads[s][1] = Item(s, k, whole[s][k]) /\ Least(k, K)
  BY <1>1, <1>2, FirstItem
<1>4. CASE heads[s][1] = Err /\ Tail(heads[s]) = <<>> /\ K = {}
  BY <1>3, <1>4, ErrIsErr DEF AtErr, K
<1>5. ASSUME NEW k \in K, heads[s][1] = Item(s, k, whole[s][k]), Least(k, K)
      PROVE  AtKey(s, k) /\ Head(heads[s]) = Item(s, k, whole[s][k])
  BY <1>3, <1>5, ItemFacts DEF AtErr, AtKey
<1> QED
  BY <1>3, <1>4, <1>5 DEF K

LEMMA SmallestIs ==
  ASSUME HeadKeys # {}
  PROVE  Least(Smallest, HeadKeys) /\ Smallest \in Keys
<1>1. HeadKeys \in SUBSET Nat /\ HeadKeys \in SUBSET Keys
  BY KeysAre DEF HeadKeys
<1> QED
  BY <1>1, LeastOf DEF Smallest, Least

LEMMA KeyAtHead ==
  ASSUME Types, NEW s \in Sources, NEW done \in Nat, NEW lost \in Nat,
         SourceOk(s, done, lost), NEW k, AtKey(s, k)
  PROVE  /\ k \in Left(s, done, lost) /\ k \in HeadKeys
         /\ Least(k, Left(s, done, lost))
         /\ Head(heads[s]) = Item(s, k, whole[s][k]) /\ heads[s][1] = Head(heads[s])
         /\ heads[s] # <<>>
<1>1. heads[s] # <<>> /\ ~AtErr(s) /\ Head(heads[s]).key = k
  BY DEF AtKey
<1>2. PICK j \in Left(s, done, lost) :
              /\ AtKey(s, j) /\ Least(j, Left(s, done, lost))
              /\ Head(heads[s]) = Item(s, j, whole[s][j]) /\ heads[s][1] = Head(heads[s])
  BY <1>1, AtTheHead
<1>3. j = k
  BY <1>1, <1>2, ItemFacts
<1>4. k \in HeadKeys
  BY <1>2, <1>3, LeftAre DEF HeadKeys
<1> QED
  BY <1>1, <1>2, <1>3, <1>4

\* As long as no error is about, a key still to come is at the head of its source,
\* or after another that is.
LEMMA NoneHidden ==
  ASSUME Types, NEW s \in Sources, NEW done \in Nat, NEW lost \in 1 .. Len(Words) + 1,
         SourceOk(s, done, lost), ~Failed, Pending = {},
         NEW j \in Held(s), done < j
  PROVE  AtKey(s, j) \/ \E i \in HeadKeys : i < j
<1>1. j \in Keys /\ j \in Nat /\ j <= Len(Words) /\ lost \in Nat
  BY KeysAre DEF Held
<1>2. heads[s] # <<>>
  <2> SUFFICES ASSUME heads[s] = <<>> PROVE FALSE
    OBVIOUS
  <2>1. DOMAIN heads[s] = {}
    OBVIOUS
  <2>2. ~(lost <= Len(Words))
    BY <2>1 DEF SourceOk, HasErr
  <2>3. j \in Left(s, done, lost)
    BY <1>1, <2>2, KeysAre DEF Left
  <2> QED
    BY <2>1, <2>3 DEF SourceOk, Holds
<1>3. ~AtErr(s)
  BY DEF Pending
<1>4. PICK k \in Left(s, done, lost) : AtKey(s, k) /\ Least(k, Left(s, done, lost))
  BY <1>1, <1>2, <1>3, AtTheHead
<1>5. k \in HeadKeys /\ k \in Nat /\ k < lost
  BY <1>1, <1>4, KeyAtHead, KeysAre DEF Left, Held
<1>6. CASE j < lost
  <2>1. j \in Left(s, done, lost)
    BY <1>6 DEF Left
  <2>2. k <= j
    BY <1>4, <2>1 DEF Least
  <2> QED
    BY <1>1, <1>4, <1>5, <2>2
<1>7. CASE ~(j < lost)
  BY <1>1, <1>5, <1>7
<1> QED
  BY <1>6, <1>7

-----------------------------------------------------------------------------
(* Every step keeps the invariant *)

Merged(done, lost) == /\ done \in 0 .. Len(Words) /\ lost \in [Sources -> 1 .. Len(Words) + 1]
                      /\ \A s \in Sources : SourceOk(s, done, lost[s])
                      /\ OutOk(done)
Ranges == New \/ WithRange \/ WithPrefix
Finished == ended => Pending = {} /\ (HeadKeys = {} \/ BeyondEnd(Smallest))

LEMMA MInvIs == MInv <=> Types /\ Ranges /\ (\E done, lost : Merged(done, lost)) /\ Finished
BY DEF MInv, Ranges, Merged, Finished

\* An error is returned: its source is empty then.
LEMMA TakeKeeps ==
  ASSUME Types, NEW done, NEW lost, Merged(done, lost), TakePendingError
  PROVE  Types' /\ Merged(done, lost)'
<1> DEFINE s == CHOOSE s \in Pending : \A r \in Pending : s <= r
<1>1. s \in Sources /\ s \in Pending
  <2>1. Pending # {} /\ Pending \in SUBSET Nat
    BY DEF TakePendingError, Pending, Sources
  <2> QED
    BY <2>1, LeastOf DEF Pending
<1>2. /\ heads' = [heads EXCEPT ![s] = Tail(@)]
      /\ out' = Append(out, Err)
      /\ UNCHANGED <<whole, start, end, ended>>
  BY DEF TakePendingError
<1> HIDE DEF s
<1>3. heads[s] # <<>> /\ AtErr(s)
  BY <1>1 DEF Pending, AtErr
<1>4. done \in Nat /\ lost[s] \in Nat /\ SourceOk(s, done, lost[s])
  BY <1>1, KeysAre DEF Merged
<1>5. heads' \in [Sources -> Seq(Items \cup {Err})] /\ out' \in Seq(Items \cup {Err})
  <2>1. Tail(heads[s]) \in Seq(Items \cup {Err})
    BY <1>1, <1>3 DEF Types
  <2>2. heads' \in [Sources -> Seq(Items \cup {Err})]
    BY <1>2, <2>1 DEF Types
  <2>3. out \in Seq(Items \cup {Err}) /\ Err \in Items \cup {Err}
    BY DEF Types
  <2>4. out' \in Seq(Items \cup {Err})
    BY <1>2, <2>3
  <2> QED
    BY <2>2, <2>4
<1>6. Types'
  BY <1>2, <1>5 DEF Types
<1>7. Tail(heads[s]) = <<>> /\ Left(s, done, lost[s]) = {}
  <2>1. \A k : ~AtKey(s, k)
    BY <1>3 DEF AtKey
  <2> QED
    BY <1>1, <1>3, <1>4, <2>1, AtTheHead
<1>8. /\ Len(out) \in Nat /\ DOMAIN out = 1 .. Len(out)
      /\ DOMAIN out' = 1 .. Len(out) + 1
      /\ \A i \in DOMAIN out : out'[i] = out[i] /\ i \in DOMAIN out'
      /\ out'[Len(out) + 1] = Err /\ Len(out) + 1 \in DOMAIN out'
  BY <1>2 DEF Types
<1>9. Failed'
  BY <1>8, ErrIsErr DEF Failed
<1>10. ASSUME NEW r \in Sources PROVE SourceOk(r, done, lost[r])'
  <2>1. heads'[r] = IF r = s THEN <<>> ELSE heads[r]
    BY <1>2, <1>7 DEF Types
  <2>2. SourceOk(r, done, lost[r])
    BY DEF Merged
  <2>3. Left(r, done, lost[r])' = Left(r, done, lost[r])
    BY <1>2 DEF Left, Held
  <2>4. CASE r = s
    BY <1>2, <1>7, <1>9, <2>1, <2>3, <2>4 DEF SourceOk, InOrderOf, Holds
  <2>5. CASE r # s
    BY <1>2, <1>9, <2>1, <2>2, <2>3, <2>5 DEF SourceOk, InOrderOf, Holds
  <2> QED
    BY <2>4, <2>5
<1>11. OutOk(done)'
  <2>1. OutOk(done)
    BY DEF Merged
  <2>2. \A i \in DOMAIN out' : i \in DOMAIN out \/ out'[i] = Err
    BY <1>8
  <2>3. Ascending'
    <3> SUFFICES ASSUME NEW i \in DOMAIN out', NEW j \in DOMAIN out',
                        i < j, ~IsErr(out'[i]), ~IsErr(out'[j])
                 PROVE  out'[i].key < out'[j].key
      BY DEF Ascending
    <3>1. i \in DOMAIN out /\ j \in DOMAIN out
      BY <2>2, ErrIsErr
    <3> QED
      BY <1>8, <2>1, <3>1 DEF OutOk, Ascending
  <2>4. \A i \in DOMAIN out' : out'[i] = Err \/ \E r \in Sources, k \in 1 .. done :
                                                  out'[i] = Item(r, k, whole'[r][k])
    BY <1>2, <1>8, <2>1, <2>2 DEF OutOk
  <2> QED
    BY <1>9, <2>3, <2>4 DEF OutOk
<1> QED
  BY <1>6, <1>10, <1>11 DEF Merged

\* What of a source is left when the smallest key is done.
LEMMA LeftAfter ==
  ASSUME Types, NEW s \in Sources, NEW done \in Nat, NEW lost \in Nat,
         SourceOk(s, done, lost), Pending = {}, HeadKeys # {},
         done < Smallest
  PROVE  /\ Left(s, Smallest, lost) = Left(s, done, lost) \ {Smallest}
         /\ ~AtKey(s, Smallest) => Smallest \notin Left(s, done, lost)
<1> DEFINE K == Left(s, done, lost)
<1>1. Least(Smallest, HeadKeys) /\ Smallest \in Nat
  BY SmallestIs, KeysAre
<1>2. K \in SUBSET Nat
  BY LeftAre, KeysAre
<1>3. ~AtErr(s)
  BY DEF Pending
<1>4. ASSUME NEW j \in K PROVE Smallest <= j /\ (j = Smallest => AtKey(s, j))
  <2>1. heads[s] # <<>>
    BY DEF SourceOk, Holds
  <2>2. PICK k \in K : AtKey(s, k) /\ Least(k, K)
    BY <1>3, <2>1, AtTheHead
  <2>3. k \in HeadKeys
    BY <2>2, KeyAtHead
  <2>4. Smallest <= k /\ k <= j
    BY <1>1, <2>2, <2>3 DEF Least
  <2>5. k \in Nat /\ j \in Nat
    BY <1>2
  <2> QED
    BY <1>1, <2>2, <2>4, <2>5
<1>5. \A j : j \in Left(s, Smallest, lost) <=> j \in Held(s) /\ Smallest < j /\ j < lost
  BY DEF Left
<1>6. \A j : j \in K <=> j \in Held(s) /\ done < j /\ j < lost
  BY DEF Left
<1>7. Held(s) \in SUBSET Nat
  BY KeysAre DEF Held
<1> HIDE DEF K
<1>8. ASSUME NEW j \in Left(s, Smallest, lost) PROVE j \in K \ {Smallest}
  BY <1>1, <1>5, <1>6, <1>7
<1>9. ASSUME NEW j \in K \ {Smallest} PROVE j \in Left(s, Smallest, lost)
  BY <1>1, <1>2, <1>4, <1>5, <1>6
<1>10. Left(s, Smallest, lost) = K \ {Smallest}
  BY <1>8, <1>9
<1> QED
  BY <1>4, <1>10 DEF K

\* The first of the sources at the smallest key.
LEMMA WinnerIs ==
  ASSUME NEW k, NEW holders, holders = {s \in Sources : AtKey(s, k)}, holders # {}
  PROVE  WinnerOf(holders) \in holders /\ \A r \in holders : WinnerOf(holders) <= r
<1>1. holders \in SUBSET Nat
  BY DEF Sources
<1> QED
  BY <1>1, LeastOf DEF WinnerOf

LEMMA RangeEnds ==
  ASSUME Ranges, NEW k \in Keys, ~BeyondEnd(k)
  PROVE  InRange(k) <=> ~(k < start)
<1>1. k \in Nat /\ start \in Nat
  BY KeysAre DEF Ranges, New, WithRange, WithPrefix, NoBound
<1>2. CASE end.kind = "none"
  BY <1>1, <1>2 DEF InRange
<1>3. CASE end.kind = "excl"
  <2>1. end.key \in Nat
    BY <1>3, KeysAre DEF Ranges, New, WithRange, WithPrefix, Unbounded
  <2> QED
    BY <1>1, <1>3, <2>1 DEF InRange, BeyondEnd
<1>4. CASE end.kind = "prefix"
  <2>1. end.key = start
    BY <1>4 DEF Ranges, New, WithRange, WithPrefix, Unbounded
  <2> QED
    BY <1>1, <1>4, <2>1 DEF InRange, BeyondEnd, PastPrefix
<1> QED
  BY <1>2, <1>3, <1>4 DEF Ranges, New, WithRange, WithPrefix, Unbounded

\* The keys to be returned up to the smallest key are those up to the last one done
\* and itself, if no error has gone by.
LEMMA ShownAfter ==
  ASSUME Types, Ranges, NEW done, NEW lost, Merged(done, lost), ~Failed,
         Pending = {}, HeadKeys # {}, ~BeyondEnd(Smallest), done < Smallest
  PROVE  Shown(Smallest) = Shown(done) \cup (IF Smallest < start THEN {} ELSE {Smallest})
<1>1. Least(Smallest, HeadKeys) /\ Smallest \in Keys
  BY SmallestIs
<1>2. done \in Nat /\ Smallest \in Nat /\ Keys \in SUBSET Nat
  BY <1>1, KeysAre DEF Merged
<1>3. InRange(Smallest) <=> ~(Smallest < start)
  BY <1>1, RangeEnds
<1>4. Holders(Smallest) # {}
  <2>1. PICK s \in Sources : AtKey(s, Smallest)
    BY <1>1 DEF Least, HeadKeys
  <2>2. SourceOk(s, done, lost[s]) /\ lost[s] \in Nat
    BY KeysAre DEF Merged
  <2>3. Smallest \in Held(s)
    BY <1>2, <2>1, <2>2, KeyAtHead DEF Left
  <2> QED
    BY <2>3 DEF Held, Holders
<1>5. ASSUME NEW j \in Shown(Smallest), done < j PROVE j = Smallest
  <2>1. j \in Keys /\ j \in Nat /\ j <= Smallest
    BY <1>2, <1>5 DEF Shown
  <2>2. PICK s \in Sources : whole[s][j] # "absent"
    BY DEF Shown, Holders
  <2>3. SourceOk(s, done, lost[s]) /\ lost[s] \in 1 .. Len(Words) + 1 /\ j \in Held(s)
    BY <2>1, <2>2 DEF Merged, Held
  <2>4. AtKey(s, j) \/ \E i \in HeadKeys : i < j
    BY <1>2, <1>5, <2>3, NoneHidden
  <2>5. CASE AtKey(s, j)
    <3>1. j \in HeadKeys
      BY <2>1, <2>5 DEF HeadKeys
    <3> QED
      BY <1>1, <1>2, <2>1, <3>1 DEF Least
  <2>6. CASE \E i \in HeadKeys : i < j
    <3>1. PICK i \in HeadKeys : i < j
      BY <2>6
    <3>2. Smallest <= i /\ i \in Nat
      BY <1>1, <1>2 DEF Least, HeadKeys
    <3> QED
      BY <1>2, <2>1, <3>1, <3>2
  <2> QED
    BY <2>4, <2>5, <2>6
<1>6. ASSUME NEW j PROVE j \in Shown(Smallest) <=>
                           j \in Shown(done) \cup (IF Smallest < start THEN {} ELSE {Smallest})
  <2>1. CASE j \in Keys /\ j <= done
    BY <1>1, <1>2, <2>1 DEF Shown
  <2>2. CASE j = Smallest
    BY <1>1, <1>2, <1>3, <1>4, <2>2 DEF Shown
  <2>3. CASE j # Smallest /\ ~(j \in Keys /\ j <= done)
    <3>1. j \notin Shown(done)
      BY <2>3 DEF Shown
    <3>2. j \notin Shown(Smallest)
      <4> SUFFICES ASSUME j \in Shown(Smallest) PROVE FALSE
        OBVIOUS
      <4>1. j \in Keys /\ j \in Nat
        BY <1>2 DEF Shown
      <4>2. done < j
        BY <1>2, <2>3, <4>1
      <4> QED
        BY <1>5, <2>3, <4>2
    <3> QED
      BY <2>3, <3>1, <3>2
  <2> QED
    BY <2>1, <2>2, <2>3
<1> QED
  BY <1>6

\* The newest of the sources at the smallest key has the newest version of it, if no
\* error has gone by.
LEMMA WinnerIsNewest ==
  ASSUME Types, NEW done, NEW lost, Merged(done, lost), ~Failed,
         Pending = {}, HeadKeys # {}, done < Smallest,
         NEW holders, holders = {s \in Sources : AtKey(s, Smallest)}
  PROVE  Newest(Smallest) = Item(WinnerOf(holders), Smallest, whole[WinnerOf(holders)][Smallest])
<1>1. Least(Smallest, HeadKeys) /\ Smallest \in Keys
  BY SmallestIs
<1>2. done \in Nat /\ Smallest \in Nat /\ Keys \in SUBSET Nat
  BY <1>1, KeysAre DEF Merged
<1>3. ASSUME NEW s \in Sources PROVE AtKey(s, Smallest) <=> s \in Holders(Smallest)
  <2>1. SourceOk(s, done, lost[s]) /\ lost[s] \in 1 .. Len(Words) + 1 /\ lost[s] \in Nat
    BY KeysAre DEF Merged
  <2>2. CASE AtKey(s, Smallest)
    <3>1. Smallest \in Held(s)
      BY <1>2, <2>1, <2>2, KeyAtHead DEF Left
    <3> QED
      BY <2>2, <3>1 DEF Held, Holders
  <2>3. CASE s \in Holders(Smallest)
    <3>1. Smallest \in Held(s)
      BY <1>1, <2>3 DEF Held, Holders
    <3>2. AtKey(s, Smallest) \/ \E i \in HeadKeys : i < Smallest
      BY <1>2, <2>1, <3>1, NoneHidden
    <3>3. \A i \in HeadKeys : Smallest <= i /\ i \in Nat
      BY <1>1, <1>2 DEF Least, HeadKeys
    <3> QED
      BY <1>2, <2>3, <3>2, <3>3
  <2> QED
    BY <2>2, <2>3
<1>4. Holders(Smallest) = holders
  BY <1>3 DEF Holders
<1> QED
  BY <1>4 DEF Newest, WinnerOf

LEMMA ConsumeKeeps ==
  ASSUME Types, Ranges, NEW done, NEW lost, Merged(done, lost), ConsumeSmallest,
         NEW k, k = Smallest
  PROVE  Types' /\ Merged(k, lost)'
<1> DEFINE holders == {s \in Sources : AtKey(s, k)}
           w == WinnerOf(holders)
<1>1. /\ Pending = {} /\ HeadKeys # {} /\ ~BeyondEnd(k)
      /\ heads' = [s \in Sources |-> IF s \in holders THEN Tail(heads[s]) ELSE heads[s]]
      /\ out' = IF k < start THEN out ELSE Append(out, Head(heads[w]))
      /\ UNCHANGED <<whole, start, end, ended>>
  BY DEF ConsumeSmallest, Consumers
<1>2. Least(k, HeadKeys) /\ k \in Keys /\ k \in Nat /\ k <= Len(Words) /\ done \in Nat
  BY <1>1, SmallestIs, KeysAre DEF Merged
<1>3. holders # {}
  BY <1>2 DEF Least, HeadKeys
<1>4. w \in holders /\ w \in Sources /\ AtKey(w, k)
  BY <1>3, WinnerIs
<1> HIDE DEF w
<1>5. \A s \in Sources : SourceOk(s, done, lost[s]) /\ lost[s] \in Nat
  BY KeysAre DEF Merged
<1>6. Head(heads[w]) = Item(w, k, whole[w][k]) /\ done < k
  BY <1>2, <1>4, <1>5, KeyAtHead DEF Left
<1>7. Types'
  <2>1. \A s \in holders : Tail(heads[s]) \in Seq(Items \cup {Err})
    BY DEF Types, AtKey
  <2>2. heads' \in [Sources -> Seq(Items \cup {Err})]
    BY <1>1, <2>1 DEF Types
  <2>3. Item(w, k, whole[w][k]) \in Items
    BY <1>2, <1>4 DEF Types, Items, Item
  <2>4. out' \in Seq(Items \cup {Err})
    BY <1>1, <1>6, <2>3 DEF Types
  <2> QED
    BY <1>1, <2>2, <2>4 DEF Types
<1>8. /\ \A i \in DOMAIN out : i \in DOMAIN out' /\ out'[i] = out[i]
      /\ \A i \in DOMAIN out' : i \notin DOMAIN out =>
            ~(k < start) /\ out'[i] = Item(w, k, whole[w][k])
      /\ ~(k < start) => \E i \in DOMAIN out' : out'[i] = Item(w, k, whole[w][k])
      /\ \A i \in DOMAIN out', j \in DOMAIN out : i < j => i \in DOMAIN out
      /\ \A i, j \in DOMAIN out' : i < j => i \in DOMAIN out
  <2>1. CASE k < start
    BY <1>1, <2>1
  <2>2. CASE ~(k < start)
    <3>1. out' = Append(out, Item(w, k, whole[w][k]))
      BY <1>1, <1>6, <2>2
    <3>2. Len(out) \in Nat /\ DOMAIN out = 1 .. Len(out) /\ DOMAIN out' = 1 .. Len(out) + 1
          /\ out'[Len(out) + 1] = Item(w, k, whole[w][k])
          /\ \A i \in 1 .. Len(out) : out'[i] = out[i]
      BY <3>1 DEF Types
    <3> QED
      BY <2>2, <3>2
  <2> QED
    BY <2>1, <2>2
<1>9. Failed' <=> Failed
  BY <1>8, ItemFacts DEF Failed
<1>10. ASSUME NEW s \in Sources PROVE SourceOk(s, k, lost[s])'
  <2> DEFINE K == Left(s, done, lost[s])
  <2>1. /\ Left(s, k, lost[s]) = K \ {k}
        /\ ~AtKey(s, k) => k \notin K
    BY <1>1, <1>2, <1>5, <1>6, LeftAfter
  <2>2. Left(s, k, lost[s])' = K \ {k}
    <3>1. whole' = whole
      BY <1>1
    <3> QED
      BY <2>1, <3>1 DEF Left, Held
  <2>3. K \in SUBSET Keys /\ heads[s] \in Seq(Items \cup {Err})
    BY <1>2, <1>5, LeftAre DEF Types
  <2>4. /\ InOrderOf(heads[s]) /\ Holds(s, heads[s], K)
        /\ lost[s] <= Len(Words) => HasErr(heads[s]) \/ Failed
    BY <1>5 DEF SourceOk
  <2>5. k \in K => (AtKey(s, k) <=> s \in holders)
    OBVIOUS
  <2>6. AtKey(s, k) => /\ k \in K /\ heads[s] # <<>>
                       /\ heads[s][1] = Item(s, k, whole[s][k])
    BY <1>2, <1>5, KeyAtHead
  <2>7. heads'[s] = IF AtKey(s, k) THEN Tail(heads[s]) ELSE heads[s]
    BY <1>1
  <2> HIDE DEF K
  <2>8. /\ InOrderOf(heads'[s]) /\ Holds(s, heads'[s], K \ {k})
        /\ HasErr(heads[s]) => HasErr(heads'[s])
    <3>1. CASE AtKey(s, k)
      <4>1. /\ InOrderOf(Tail(heads[s])) /\ Holds(s, Tail(heads[s]), K \ {k})
            /\ HasErr(heads[s]) => HasErr(Tail(heads[s]))
        BY <2>3, <2>4, <2>6, <3>1, RestItems
      <4> QED
        BY <2>7, <3>1, <4>1
    <3>2. CASE ~AtKey(s, k)
      <4>1. K \ {k} = K
        BY <2>1, <3>2 DEF K
      <4> QED
        BY <2>4, <2>7, <3>2, <4>1
    <3> QED
      BY <3>1, <3>2
  <2>9. whole' = whole
    BY <1>1
  <2> QED
    BY <1>9, <2>2, <2>4, <2>8, <2>9 DEF SourceOk, Holds, InOrderOf, HasErr
<1>11. OutOk(done)
  BY DEF Merged
<1>12. \A i \in DOMAIN out' : out'[i] = Err \/ \E s \in Sources, j \in 1 .. k :
                                                out'[i] = Item(s, j, whole'[s][j])
  <2> SUFFICES ASSUME NEW i \in DOMAIN out'
               PROVE  out'[i] = Err \/ \E s \in Sources, j \in 1 .. k :
                                          out'[i] = Item(s, j, whole[s][j])
    BY <1>1
  <2>1. CASE i \in DOMAIN out
    <3>1. out[i] = Err \/ \E s \in Sources, j \in 1 .. done : out[i] = Item(s, j, whole[s][j])
      BY <1>11, <2>1 DEF OutOk
    <3>2. \A j \in 1 .. done : j \in 1 .. k
      BY <1>2, <1>6
    <3> QED
      BY <1>8, <2>1, <3>1, <3>2
  <2>2. CASE i \notin DOMAIN out
    <3>1. k \in 1 .. k
      BY <1>2, KeysAre
    <3> QED
      BY <1>4, <1>8, <2>2, <3>1
  <2> QED
    BY <2>1, <2>2
<1>13. Ascending'
  <2> SUFFICES ASSUME NEW i \in DOMAIN out', NEW j \in DOMAIN out',
                      i < j, ~IsErr(out'[i]), ~IsErr(out'[j])
               PROVE  out'[i].key < out'[j].key
    BY DEF Ascending
  <2>1. i \in DOMAIN out /\ out'[i] = out[i]
    BY <1>8
  <2>2. CASE j \in DOMAIN out
    BY <1>8, <1>11, <2>1, <2>2 DEF OutOk, Ascending
  <2>3. CASE j \notin DOMAIN out
    <3>1. PICK s \in Sources, m \in 1 .. done : out[i] = Item(s, m, whole[s][m])
      BY <1>11, <2>1, ErrIsErr DEF OutOk
    <3>2. out'[i].key = m /\ out'[j].key = k
      BY <1>8, <2>1, <2>3, <3>1, ItemFacts
    <3> QED
      BY <1>2, <1>6, <3>2
  <2> QED
    BY <2>2, <2>3
<1>14. ASSUME ~Failed'
       PROVE  /\ \A i \in DOMAIN out' : \E j \in Shown(k) : out'[i] = Newest(j)
              /\ \A j \in Shown(k) : \E i \in DOMAIN out' : out'[i] = Newest(j)
  <2>1. Shown(k) = Shown(done) \cup (IF k < start THEN {} ELSE {k})
    BY <1>1, <1>6, <1>9, <1>14, ShownAfter
  <2>2. Newest(k) = Item(w, k, whole[w][k])
    BY <1>1, <1>6, <1>9, <1>14, WinnerIsNewest DEF w
  <2>3. /\ \A i \in DOMAIN out : \E j \in Shown(done) : out[i] = Newest(j)
        /\ \A j \in Shown(done) : \E i \in DOMAIN out : out[i] = Newest(j)
    BY <1>9, <1>11, <1>14 DEF OutOk
  <2>4. ASSUME NEW i \in DOMAIN out' PROVE \E j \in Shown(k) : out'[i] = Newest(j)
    <3>1. CASE i \in DOMAIN out
      BY <1>8, <2>1, <2>3, <3>1
    <3>2. CASE i \notin DOMAIN out
      BY <1>8, <2>1, <2>2, <3>2
    <3> QED
      BY <3>1, <3>2
  <2>5. ASSUME NEW j \in Shown(k) PROVE \E i \in DOMAIN out' : out'[i] = Newest(j)
    <3>1. CASE j \in Shown(done)
      BY <1>8, <2>3, <3>1
    <3>2. CASE j \notin Shown(done)
      BY <1>8, <2>1, <2>2, <3>2
    <3> QED
      BY <3>1, <3>2
  <2> QED
    BY <2>4, <2>5
<1>15. \A j : Newest(j)' = Newest(j)
  BY <1>1 DEF Newest, Holders
<1>16. Shown(k)' = Shown(k)
  BY <1>1 DEF Shown, InRange, Holders
<1>17. OutOk(k)'
  BY <1>12, <1>13, <1>14, <1>15, <1>16 DEF OutOk
<1> QED
  BY <1>2, <1>7, <1>10, <1>17 DEF Merged

LEMMA StepKeepsMInv == MInv /\ [Next]_vars => MInv'
<1> SUFFICES ASSUME MInv, [Next]_vars PROVE MInv'
  OBVIOUS
<1>1. Types /\ Ranges /\ Finished
  BY MInvIs
<1>2. PICK done, lost : Merged(done, lost)
  BY MInvIs
<1> SUFFICES Types' /\ Ranges' /\ (\E d, l : Merged(d, l)') /\ Finished'
  BY DEF MInv, Ranges, Merged, Finished
<1>3. CASE TakePendingError
  <2>1. Types' /\ Merged(done, lost)'
    BY <1>1, <1>2, <1>3, TakeKeeps
  <2>2. ended' = FALSE /\ start' = start /\ end' = end
    BY <1>1, <1>3 DEF TakePendingError, Types
  <2>3. Ranges' /\ Finished'
    BY <1>1, <2>2 DEF Ranges, New, WithRange, WithPrefix, Finished
  <2> QED
    BY <2>1, <2>3
<1>4. CASE ConsumeSmallest
  <2>1. PICK k : k = Smallest
    OBVIOUS
  <2>2. Types' /\ Merged(k, lost)'
    BY <1>1, <1>2, <1>4, <2>1, ConsumeKeeps
  <2>3. ended' = FALSE /\ start' = start /\ end' = end
    BY <1>1, <1>4 DEF ConsumeSmallest, Types
  <2>4. Ranges' /\ Finished'
    BY <1>1, <2>3 DEF Ranges, New, WithRange, WithPrefix, Finished
  <2> QED
    BY <2>2, <2>4
<1>5. CASE End \/ UNCHANGED vars
  <2>1. UNCHANGED <<whole, heads, start, end, out>>
    BY <1>5 DEF End, vars
  <2>2. Types' /\ Ranges'
    <3>1. ended' \in BOOLEAN
      BY <1>1, <1>5 DEF End, vars, Types
    <3> QED
      BY <1>1, <2>1, <3>1 DEF Types, Ranges, New, WithRange, WithPrefix
  <2>3. Merged(done, lost)'
    <3>1. OutOk(done) /\ \A s \in Sources : SourceOk(s, done, lost[s])
      BY <1>2 DEF Merged
    <3>2. Failed' = Failed /\ Shown(done)' = Shown(done) /\ \A k : Newest(k)' = Newest(k)
      BY <2>1 DEF Failed, Shown, Newest, InRange, Holders
    <3>3. OutOk(done)'
      BY <2>1, <3>1, <3>2 DEF OutOk, Ascending
    <3>4. ASSUME NEW s \in Sources PROVE SourceOk(s, done, lost[s])'
      <4>1. Left(s, done, lost[s])' = Left(s, done, lost[s])
        BY <2>1 DEF Left, Held
      <4> QED
        BY <2>1, <3>1, <3>2, <4>1 DEF SourceOk, InOrderOf, Holds, HasErr
    <3> QED
      BY <1>2, <3>3, <3>4 DEF Merged
  <2>4. Pending' = Pending /\ HeadKeys' = HeadKeys
    BY <2>1 DEF Pending, HeadKeys, AtErr, AtKey
  <2>5. BeyondEnd(Smallest)' = BeyondEnd(Smallest)
    BY <2>1, <2>4 DEF BeyondEnd, PastPrefix, Smallest
  <2>6. Finished'
    BY <1>1, <1>5, <2>4, <2>5 DEF Finished, End, vars
  <2> QED
    BY <2>2, <2>3, <2>6
<1> QED
  BY <1>3, <1>4, <1>5 DEF Next

-----------------------------------------------------------------------------
(* The initial states *)

\* All of a source: its keys in order.
LEMMA EntriesAre ==
  ASSUME NEW s \in Sources, whole \in [Sources -> [Keys -> Versions]]
  PROVE  LET all == Entries(s, whole[s])
         IN  /\ all \in Seq(Items)
             /\ \A i \in DOMAIN all : \E k \in Held(s) : all[i] = Item(s, k, whole[s][k])
             /\ \A k \in Held(s) : \E i \in DOMAIN all : all[i] = Item(s, k, whole[s][k])
             /\ \A i, j \in DOMAIN all : i < j <=> all[i].key < all[j].key
<1> DEFINE K == {k \in Keys : whole[s][k] # "absent"}
           keys == Ordered(K)
           n == Cardinality(K)
           all == [i \in DOMAIN keys |-> Item(s, keys[i], whole[s][keys[i]])]
<1>1. K \in SUBSET Nat /\ IsFiniteSet(K) /\ K \in SUBSET Keys
  <2>1. K \in SUBSET Keys
    OBVIOUS
  <2> HIDE DEF K
  <2>2. IsFiniteSet(Keys)
    BY KeysAre, FS_Interval
  <2>3. IsFiniteSet(K)
    BY <2>1, <2>2, FS_Subset
  <2>4. Keys \in SUBSET Nat
    BY KeysAre
  <2> QED
    BY <2>1, <2>3, <2>4
<1>2. Entries(s, whole[s]) = all
  BY DEF Entries
<1>3. K = Held(s)
  BY DEF Held
<1> HIDE DEF K
<1>4. /\ n \in Nat /\ keys \in [1 .. n -> K]
      /\ \A i, j \in 1 .. n : i < j <=> keys[i] < keys[j]
      /\ \A k \in K : \E i \in 1 .. n : keys[i] = k
  BY <1>1, AscendingList
<1> HIDE DEF n, keys
<1>5. DOMAIN all = 1 .. n /\ \A i \in 1 .. n : all[i] = Item(s, keys[i], whole[s][keys[i]])
  BY <1>4
<1>6. all \in Seq(Items)
  <2>1. \A i \in 1 .. n : Item(s, keys[i], whole[s][keys[i]]) \in Items
    BY <1>1, <1>4 DEF Item, Items
  <2>2. all \in [1 .. n -> Items]
    BY <1>4, <2>1
  <2> QED
    BY <1>4, <2>2
<1> HIDE DEF all
<1>7. \A i \in 1 .. n : all[i].key = keys[i]
  BY <1>5, ItemFacts
<1>8. \A i \in 1 .. n : keys[i] \in K /\ all[i] = Item(s, keys[i], whole[s][keys[i]])
  BY <1>4, <1>5
<1>9. \A k \in K : \E i \in 1 .. n : all[i] = Item(s, k, whole[s][k])
  BY <1>4, <1>5
<1>10. \A i, j \in 1 .. n : i < j <=> all[i].key < all[j].key
  BY <1>4, <1>7
<1> QED
  BY <1>2, <1>3, <1>5, <1>6, <1>8, <1>9, <1>10

\* What can be read of it ends at one key.
LEMMA ReadableAre ==
  ASSUME NEW s \in Sources, whole \in [Sources -> [Keys -> Versions]],
         NEW items \in Readable(s, whole[s])
  PROVE  /\ items \in Seq(Items \cup {Err}) /\ InOrderOf(items)
         /\ \E lost \in 1 .. Len(Words) + 1 : /\ Holds(s, items, Left(s, 0, lost))
                                              /\ lost <= Len(Words) => HasErr(items)
<1> DEFINE all == Entries(s, whole[s])
           n == Len(all)
<1>1. /\ all \in Seq(Items)
      /\ \A i \in DOMAIN all : \E k \in Held(s) : all[i] = Item(s, k, whole[s][k])
      /\ \A k \in Held(s) : \E i \in DOMAIN all : all[i] = Item(s, k, whole[s][k])
      /\ \A i, j \in DOMAIN all : i < j <=> all[i].key < all[j].key
  BY EntriesAre
<1>2. items = all \/ \E intact \in 0 .. n - 1 : items = Append(SubSeq(all, 1, intact), Err)
  BY DEF Readable
<1> HIDE DEF all
<1>3. n \in Nat /\ DOMAIN all = 1 .. n
  BY <1>1
<1>4. \A i \in 1 .. n : ~IsErr(all[i])
  BY <1>1, <1>3, ItemFacts
<1>5. \A k \in Held(s) : k \in Nat /\ 0 < k /\ k < Len(Words) + 1 /\ k \in 1 .. Len(Words)
  BY KeysAre DEF Held
<1>6. CASE items = all
  <2>1. Left(s, 0, Len(Words) + 1) = Held(s)
    BY <1>5 DEF Left
  <2>2. Holds(s, items, Left(s, 0, Len(Words) + 1))
    BY <1>1, <1>6, <2>1 DEF Holds
  <2>3. InOrderOf(items)
    BY <1>1, <1>3, <1>4, <1>6 DEF InOrderOf
  <2>4. items \in Seq(Items \cup {Err})
    BY <1>1, <1>6
  <2>5. Len(Words) + 1 \in 1 .. Len(Words) + 1 /\ ~(Len(Words) + 1 <= Len(Words))
    BY KeysAre
  <2> QED
    BY <2>2, <2>3, <2>4, <2>5
<1>7. ASSUME NEW intact \in 0 .. n - 1, items = Append(SubSeq(all, 1, intact), Err)
      PROVE  /\ items \in Seq(Items \cup {Err}) /\ InOrderOf(items)
             /\ \E lost \in 1 .. Len(Words) + 1 : /\ Holds(s, items, Left(s, 0, lost))
                                                  /\ lost <= Len(Words) => HasErr(items)
  <2> DEFINE front == SubSeq(all, 1, intact)
  <2>1. /\ front \in Seq(Items) /\ Len(front) = intact
        /\ \A i \in 1 .. intact : front[i] = all[i]
    <3>1. \A i \in 1 .. intact : all[i] \in Items /\ intact \in Int
      BY <1>1, <1>3
    <3>2. /\ front \in Seq(Items) /\ Len(front) = (IF 1 <= intact THEN intact - 1 + 1 ELSE 0)
          /\ \A i \in 1 .. intact - 1 + 1 : front[i] = all[1 + i - 1]
      BY <3>1, SubSeqProperties
    <3> HIDE DEF front
    <3>3. \A i \in 1 .. intact : i \in 1 .. intact - 1 + 1 /\ 1 + i - 1 = i
      BY <1>3
    <3>4. (IF 1 <= intact THEN intact - 1 + 1 ELSE 0) = intact
      BY <1>3
    <3> QED
      BY <3>2, <3>3, <3>4
  <2> HIDE DEF front
  <2>2. /\ items \in Seq(Items \cup {Err}) /\ DOMAIN items = 1 .. intact + 1
        /\ \A i \in 1 .. intact : items[i] = all[i] /\ i \in 1 .. n
        /\ items[intact + 1] = Err
    <3>1. items = Append(front, Err)
      BY <1>7 DEF front
    <3> QED
      BY <1>3, <2>1, <3>1
  <2>3. InOrderOf(items)
    <3> SUFFICES ASSUME NEW i \in 1 .. intact + 1, NEW j \in 1 .. intact + 1, i < j
                 PROVE  /\ ~IsErr(items[i])
                        /\ ~IsErr(items[j]) => items[i].key < items[j].key
      BY <2>2 DEF InOrderOf
    <3>1. i \in 1 .. intact /\ (j \in 1 .. intact \/ j = intact + 1)
      OBVIOUS
    <3> QED
      BY <1>1, <1>3, <1>4, <2>2, <3>1, ErrIsErr
  <2>4. PICK lost \in Held(s) : all[intact + 1] = Item(s, lost, whole[s][lost])
    <3>1. intact + 1 \in 1 .. n
      BY <1>3
    <3> QED
      BY <1>1, <1>3, <3>1
  <2>5. \A i \in 1 .. n : i < intact + 1 <=> all[i].key < lost
    <3>1. intact + 1 \in 1 .. n /\ all[intact + 1].key = lost
      BY <1>3, <2>4, ItemFacts
    <3> QED
      BY <1>1, <1>3, <3>1
  <2>6. ASSUME NEW i \in DOMAIN items
        PROVE  items[i] = Err \/ \E k \in Left(s, 0, lost) : items[i] = Item(s, k, whole[s][k])
    <3>1. CASE i \in 1 .. intact
      <4>1. i \in 1 .. n /\ i < intact + 1 /\ items[i] = all[i]
        BY <1>3, <2>2, <3>1
      <4>2. PICK k \in Held(s) : all[i] = Item(s, k, whole[s][k])
        BY <1>1, <1>3, <4>1
      <4>3. k < lost
        BY <2>5, <4>1, <4>2, ItemFacts
      <4> QED
        BY <1>5, <4>1, <4>2, <4>3 DEF Left
    <3>2. CASE i = intact + 1
      BY <2>2, <3>2
    <3> QED
      BY <2>2, <3>1, <3>2
  <2>7. ASSUME NEW k \in Left(s, 0, lost)
        PROVE  \E i \in DOMAIN items : items[i] = Item(s, k, whole[s][k])
    <3>1. k \in Held(s) /\ k < lost
      BY DEF Left
    <3>2. PICK i \in 1 .. n : all[i] = Item(s, k, whole[s][k])
      BY <1>1, <1>3, <3>1
    <3>3. i < intact + 1
      BY <2>5, <3>1, <3>2, ItemFacts
    <3>4. i \in 1 .. intact
      BY <1>3, <3>3
    <3> QED
      BY <2>2, <3>2, <3>4
  <2>8. HasErr(items)
    <3>1. intact + 1 \in DOMAIN items
      BY <2>2
    <3> QED
      BY <2>2, <3>1, ErrIsErr DEF HasErr
  <2>9. lost \in 1 .. Len(Words) + 1
    BY <1>5, <2>4, KeysAre
  <2> QED
    BY <2>2, <2>3, <2>6, <2>7, <2>8, <2>9 DEF Holds
<1> QED
  BY <1>2, <1>6, <1>7

LEMMA InitMInv == Init => MInv
<1> SUFFICES ASSUME Init PROVE MInv
  OBVIOUS
<1>1. /\ whole \in [Sources -> [Keys -> Versions]]
      /\ \A s \in Sources : heads[s] \in Readable(s, whole[s])
      /\ DOMAIN heads = Sources /\ heads = [s \in Sources |-> heads[s]]
      /\ Ranges /\ out = <<>> /\ ended = FALSE
  BY DEF Init, Ranges
<1> DEFINE Ends(s, l) == /\ Holds(s, heads[s], Left(s, 0, l))
                         /\ l <= Len(Words) => HasErr(heads[s])
           lost == [s \in Sources |-> CHOOSE l \in 1 .. Len(Words) + 1 : Ends(s, l)]
<1>2. ASSUME NEW s \in Sources
      PROVE  /\ heads[s] \in Seq(Items \cup {Err}) /\ InOrderOf(heads[s])
             /\ \E l \in 1 .. Len(Words) + 1 : Ends(s, l)
  BY <1>1, ReadableAre
<1> HIDE DEF Ends
<1>3. lost \in [Sources -> 1 .. Len(Words) + 1] /\ \A s \in Sources : Ends(s, lost[s])
  BY <1>2
<1> HIDE DEF lost
<1>4. Types
  <2>1. heads \in [Sources -> Seq(Items \cup {Err})]
    BY <1>1, <1>2
  <2>2. out \in Seq(Items \cup {Err})
    BY <1>1
  <2> QED
    BY <1>1, <2>1, <2>2 DEF Types
<1>5. \A s \in Sources : SourceOk(s, 0, lost[s])
  BY <1>2, <1>3 DEF SourceOk, Ends
<1>6. Shown(0) = {}
  BY KeysAre DEF Shown
<1>7. OutOk(0)
  BY <1>1, <1>6 DEF OutOk, Ascending
<1>8. Merged(0, lost)
  BY <1>3, <1>5, <1>7, KeysAre DEF Merged
<1> QED
  BY <1>1, <1>4, <1>8, MInvIs DEF Finished

\* The sources move together: what each has still to yield starts after the same key.
THEOREM MergeInductive == Spec => []MInv
BY InitMInv, StepKeepsMInv, PTL DEF Spec

\* Each key comes once and in ascending order, also past an error.
THEOREM OutAscends == Spec => []Ascending
<1>1. MInv => Ascending
  BY DEF MInv, OutOk
<1> QED
  BY <1>1, MergeInductive, PTL

-----------------------------------------------------------------------------
(* What has been returned, against the reference *)

LEMMA PrefixIs ==
  ASSUME NEW S, NEW a \in Seq(S), NEW b \in Seq(S)
  PROVE  IsPrefix(a, b) <=> /\ Len(a) <= Len(b)
                            /\ \A i \in 1 .. Len(a) : a[i] = b[i]
<1> DEFINE n == Len(a)
<1>1. n \in Nat /\ Len(b) \in Nat /\ a \in [1 .. n -> S] /\ b \in [1 .. Len(b) -> S]
  OBVIOUS
<1>2. /\ SubSeq(a, 1, n) \in Seq(S) /\ Len(SubSeq(a, 1, n)) = n
      /\ \A i \in 1 .. n : SubSeq(a, 1, n)[i] = a[i]
  OBVIOUS
<1>3. ASSUME n <= Len(b)
      PROVE  /\ SubSeq(b, 1, n) \in Seq(S) /\ Len(SubSeq(b, 1, n)) = n
             /\ \A i \in 1 .. n : SubSeq(b, 1, n)[i] = b[i]
  BY <1>1, <1>3
<1> HIDE DEF n
<1>4. CASE ~(n <= Len(b))
  BY <1>4 DEF IsPrefix, n
<1>5. CASE n <= Len(b)
  <2>1. SubSeq(a, 1, n) = SubSeq(b, 1, n) => \A i \in 1 .. n : a[i] = b[i]
    BY <1>2, <1>3, <1>5
  <2>2. (\A i \in 1 .. n : a[i] = b[i]) => SubSeq(a, 1, n) = SubSeq(b, 1, n)
    BY <1>2, <1>3, <1>5, SeqEqual
  <2> QED
    BY <1>5, <2>1, <2>2 DEF IsPrefix, n
<1> QED
  BY <1>4, <1>5

ShownInOrder(done) == Ordered(Shown(done))

LEMMA ShownFinite ==
  ASSUME NEW done
  PROVE  Shown(done) \in SUBSET Keys /\ Shown(done) \in SUBSET Nat /\ IsFiniteSet(Shown(done))
<1>1. Shown(done) \in SUBSET Keys
  BY DEF Shown
<1>2. IsFiniteSet(Keys) /\ Keys \in SUBSET Nat
  BY KeysAre, FS_Interval
<1>3. IsFiniteSet(Shown(done))
  BY <1>1, <1>2, FS_Subset
<1> QED
  BY <1>1, <1>2, <1>3

LEMMA NewestIs == ASSUME NEW k PROVE ~IsErr(Newest(k)) /\ Newest(k).key = k
BY ItemFacts DEF Newest

LEMMA OutListed ==
  ASSUME Types, NEW done, NEW lost, Merged(done, lost), ~Failed
  PROVE  /\ Len(out) = Cardinality(Shown(done))
         /\ \A i \in 1 .. Len(out) : out[i] = Newest(ShownInOrder(done)[i])
<1> DEFINE T == Shown(done)
           n == Len(out)
           q == [i \in 1 .. n |-> out[i].key]
<1>1. n \in Nat /\ DOMAIN out = 1 .. n
  BY DEF Types
<1>2. T \in SUBSET Nat /\ IsFiniteSet(T)
  BY ShownFinite
<1>3. /\ \A i \in 1 .. n : \E k \in T : out[i] = Newest(k)
      /\ \A k \in T : \E i \in 1 .. n : out[i] = Newest(k)
      /\ Ascending
  BY <1>1 DEF Merged, OutOk
<1> HIDE DEF T
<1>4. ASSUME NEW i \in 1 .. n PROVE q[i] \in T /\ out[i] = Newest(q[i]) /\ ~IsErr(out[i])
  BY <1>3, NewestIs
<1>5. q \in [1 .. n -> T]
  BY <1>4
<1>6. \A i, j \in 1 .. n : i < j => q[i] < q[j]
  BY <1>1, <1>3, <1>4 DEF Ascending
<1>7. \A k \in T : \E i \in 1 .. n : q[i] = k
  BY <1>3, NewestIs
<1> HIDE DEF q
<1>8. \A x, y \in T : y \in Lesser(T)[x] <=> y < x
  BY DEF Lesser
<1>9. \A i, j \in 1 .. n : i < j => q[i] \in Lesser(T)[q[j]]
  BY <1>5, <1>6, <1>8
<1>10. TotalOrder(T, Lesser(T)) /\ Ordered(T) = Ranked(T, Lesser(T))
  BY <1>2, NaturalOrder
<1>11. q = Ranked(T, Lesser(T)) /\ n = Cardinality(T)
  BY <1>1, <1>2, <1>5, <1>7, <1>9, <1>10, OnlyRanked
<1> QED
  BY <1>4, <1>10, <1>11 DEF T, ShownInOrder

LEMMA AllShown == {k \in Keys : InRange(k) /\ Holders(k) # {}} = Shown(Len(Words))
BY KeysAre DEF Shown

LEMMA ReferenceIs ==
  LET all == ShownInOrder(Len(Words))
  IN  /\ Reference \in Seq({Newest(k) : k \in Keys})
      /\ Len(Reference) = Cardinality(Shown(Len(Words)))
      /\ \A i \in 1 .. Len(Reference) : Reference[i] = Newest(all[i])
<1> DEFINE S == Shown(Len(Words))
           all == ShownInOrder(Len(Words))
           n == Cardinality(S)
<1>1. S \in SUBSET Keys /\ S \in SUBSET Nat /\ IsFiniteSet(S)
  BY ShownFinite
<1>2. n \in Nat /\ all \in [1 .. n -> S]
  BY <1>1, AscendingList DEF ShownInOrder
<1>3. Reference = [i \in DOMAIN all |-> Newest(all[i])]
  BY AllShown DEF Reference, ShownInOrder
<1> HIDE DEF S, all, n
<1>4. Reference \in [1 .. n -> {Newest(k) : k \in Keys}]
  BY <1>1, <1>2, <1>3
<1>5. Len(Reference) = n /\ Reference \in Seq({Newest(k) : k \in Keys})
  BY <1>2, <1>4
<1> QED
  BY <1>2, <1>3, <1>5 DEF S, all, n

LEMMA RightSoFar == MInv => RightUntilError
<1> SUFFICES ASSUME MInv, ~Failed PROVE IsPrefix(out, Reference)
  BY DEF RightUntilError
<1>1. Types
  BY MInvIs
<1>2. PICK done, lost : Merged(done, lost)
  BY MInvIs
<1> DEFINE T == Shown(done)
           S == Shown(Len(Words))
<1>3. /\ Len(out) = Cardinality(T)
      /\ \A i \in 1 .. Len(out) : out[i] = Newest(ShownInOrder(done)[i])
  BY <1>1, <1>2, OutListed
<1>4. done \in Nat /\ done <= Len(Words) /\ Len(Words) \in Nat
  BY <1>2, KeysAre DEF Merged
<1>5. T \in SUBSET S /\ \A x \in T, y \in S : y < x => y \in T
  BY <1>4, KeysAre DEF Shown
<1>6. /\ T \in SUBSET Nat /\ IsFiniteSet(T) /\ S \in SUBSET Nat /\ IsFiniteSet(S)
      /\ T \in SUBSET Keys
  BY ShownFinite
<1> HIDE DEF T, S
<1>7. \A x \in T : Lesser(S)[x] = Lesser(T)[x]
  BY <1>5 DEF Lesser
<1>8. /\ TotalOrder(T, Lesser(T)) /\ Ordered(T) = Ranked(T, Lesser(T))
      /\ TotalOrder(S, Lesser(S)) /\ Ordered(S) = Ranked(S, Lesser(S))
  <2>1. TotalOrder(T, Lesser(T)) /\ Ordered(T) = Ranked(T, Lesser(T))
    BY <1>6, NaturalOrder
  <2>2. TotalOrder(S, Lesser(S)) /\ Ordered(S) = Ranked(S, Lesser(S))
    BY <1>6, NaturalOrder
  <2> QED
    BY <2>1, <2>2
<1>9. /\ Cardinality(T) \in 0 .. Cardinality(S)
      /\ \A i \in 1 .. Cardinality(T) : Ordered(S)[i] = Ordered(T)[i]
  <2> DEFINE below == Lesser(S)
             under == Lesser(T)
  <2>1. /\ TotalOrder(S, below) /\ TotalOrder(T, under)
        /\ \A x \in T : below[x] = under[x]
        /\ T \in SUBSET S /\ IsFiniteSet(S)
    BY <1>5, <1>6, <1>7, <1>8
  <2> HIDE DEF below, under
  <2>2. /\ Cardinality(T) \in 0 .. Cardinality(S)
        /\ \A i \in 1 .. Cardinality(T) : Ranked(S, below)[i] = Ranked(T, under)[i]
    BY <2>1, RankedPart
  <2> QED
    BY <1>8, <2>2 DEF below, under
<1>10. Cardinality(S) \in Nat
  BY <1>6, FS_CardinalityType
<1>11. /\ Reference \in Seq({Newest(k) : k \in Keys}) /\ Len(Reference) = Cardinality(S)
       /\ \A i \in 1 .. Len(Reference) : Reference[i] = Newest(Ordered(S)[i])
  BY ReferenceIs DEF S, ShownInOrder
<1>12. ASSUME NEW i \in 1 .. Len(out)
       PROVE  out[i] = Reference[i] /\ out[i] \in {Newest(k) : k \in Keys}
  <2>1. i \in 1 .. Cardinality(T) /\ i \in 1 .. Len(Reference)
    BY <1>3, <1>9, <1>10, <1>11
  <2>2. out[i] = Newest(Ordered(T)[i])
    BY <1>3 DEF ShownInOrder, T
  <2>3. Ordered(S)[i] = Ordered(T)[i]
    BY <1>9, <2>1
  <2>4. out[i] = Reference[i]
    BY <1>11, <2>1, <2>2, <2>3
  <2>5. Reference[i] \in {Newest(k) : k \in Keys}
    BY <1>11, <2>1, ElementOfSeq
  <2> QED
    BY <2>4, <2>5
<1>13. out \in Seq({Newest(k) : k \in Keys})
  <2>1. Len(out) \in Nat /\ out = [i \in 1 .. Len(out) |-> out[i]]
    BY <1>1 DEF Types
  <2> DEFINE R == {Newest(k) : k \in Keys}
             m == Len(out)
  <2>2. \A i \in 1 .. m : out[i] \in R
    BY <1>12
  <2> HIDE DEF R, m
  <2>3. out \in [1 .. m -> R]
    BY <2>1, <2>2 DEF m
  <2> QED
    BY <2>1, <2>3, SeqDef DEF R, m
<1>14. Len(out) <= Len(Reference)
  BY <1>3, <1>9, <1>10, <1>11
<1> QED
  BY <1>11, <1>12, <1>13, <1>14, PrefixIs

\* Up to the first error, what has been returned is the reference so far.
THEOREM RightSoFarAlways == Spec => []RightUntilError
BY MergeInductive, RightSoFar, PTL

\* A key between two that start with the same prefix, the lesser being the prefix
\* itself, starts with it too.
LEMMA PrefixesTogether ==
  ASSUME NEW p \in Keys, NEW k \in Keys, NEW j \in Keys, p <= k, k < j, StartsWith(j, p)
  PROVE  StartsWith(k, p)
<1> DEFINE P == Words[p]
           K == Words[k]
           J == Words[j]
<1>1. p \in Nat /\ k \in Nat /\ j \in Nat
  BY KeysAre
<1>2. P \in Seq(Nat) /\ K \in Seq(Nat) /\ J \in Seq(Nat)
  BY WordsAssumption DEF Keys
<1>3. Precedes(K, J) /\ (p < k => Precedes(P, K))
  BY WordsAssumption DEF Keys
<1> HIDE DEF P, K, J
<1>4. Len(P) <= Len(J) /\ \A i \in 1 .. Len(P) : P[i] = J[i]
  <2>1. IsPrefix(P, J)
    BY DEF StartsWith, P, J
  <2> QED
    BY <1>2, <2>1, PrefixIs
<1>5. /\ Len(P) \in Nat /\ Len(K) \in Nat /\ Len(J) \in Nat
      /\ \A i \in 1 .. Len(P) : P[i] \in Nat
      /\ \A i \in 1 .. Len(K) : K[i] \in Nat
      /\ \A i \in 1 .. Len(J) : J[i] \in Nat
  BY <1>2
<1>6. Len(P) <= Len(K) /\ \A i \in 1 .. Len(P) : P[i] = K[i]
  <2>1. CASE p = k
    BY <1>5, <2>1 DEF P, K
  <2>2. CASE p # k
    <3>1. p < k
      BY <1>1, <2>2
    <3>2. PICK n \in 0 .. Len(P) : /\ n < Len(K)
                                   /\ \A i \in 1 .. n : P[i] = K[i]
                                   /\ n = Len(P) \/ P[n + 1] < K[n + 1]
      BY <1>3, <3>1 DEF Precedes
    <3>3. PICK m \in 0 .. Len(K) : /\ m < Len(J)
                                   /\ \A i \in 1 .. m : K[i] = J[i]
                                   /\ m = Len(K) \/ K[m + 1] < J[m + 1]
      BY <1>3 DEF Precedes
    <3>4. CASE n = Len(P)
      BY <1>5, <3>2, <3>4
    <3>5. CASE n # Len(P)
      <4>1. n + 1 \in 1 .. Len(P) /\ n + 1 \in 1 .. Len(K) /\ P[n + 1] < K[n + 1]
        BY <1>5, <3>2, <3>5
      <4>2. P[n + 1] = J[n + 1] /\ P[n + 1] \in Nat /\ K[n + 1] \in Nat
        BY <1>4, <1>5, <4>1
      <4>3. CASE n + 1 <= m
        <5>1. K[n + 1] = J[n + 1]
          BY <1>5, <3>2, <3>3, <4>3
        <5> QED
          BY <4>1, <4>2, <5>1
      <4>4. CASE m = n
        <5>1. K[n + 1] < J[n + 1]
          BY <1>5, <3>2, <3>3, <4>4
        <5> QED
          BY <4>1, <4>2, <5>1
      <4>5. CASE m < n
        <5>1. m + 1 \in 1 .. n /\ m + 1 \in 1 .. Len(P) /\ m + 1 \in 1 .. Len(K) /\ m # Len(K)
          BY <1>5, <3>2, <3>3, <4>5
        <5>2. P[m + 1] = K[m + 1] /\ P[m + 1] = J[m + 1] /\ K[m + 1] < J[m + 1]
          BY <1>4, <3>2, <3>3, <5>1
        <5>3. K[m + 1] \in Nat
          BY <1>5, <5>1
        <5> QED
          BY <5>2, <5>3
      <4> QED
        BY <3>2, <3>3, <4>3, <4>4, <4>5
    <3> QED
      BY <3>4, <3>5
  <2> QED
    BY <2>1, <2>2
<1>7. IsPrefix(P, K)
  BY <1>2, <1>6, PrefixIs
<1> QED
  BY <1>7 DEF StartsWith, P, K

\* Past a key that is past the end nothing is in range.
LEMMA NothingBeyond ==
  ASSUME Ranges, NEW k \in Keys, BeyondEnd(k), NEW j \in Keys, InRange(j)
  PROVE  j < k
<1>1. k \in Nat /\ j \in Nat
  BY KeysAre
<1>2. CASE end.kind = "none"
  BY <1>2 DEF BeyondEnd
<1>3. CASE end.kind = "excl"
  <2>1. end.key \in Nat
    BY <1>3, KeysAre DEF Ranges, New, WithRange, WithPrefix, Unbounded
  <2> QED
    BY <1>1, <1>3, <2>1 DEF InRange, BeyondEnd
<1>4. CASE end.kind = "prefix"
  <2>1. end.key \in Keys /\ end.key \in Nat
    BY <1>4, KeysAre DEF Ranges, New, WithRange, WithPrefix, Unbounded
  <2>2. end.key <= k /\ ~StartsWith(k, end.key) /\ StartsWith(j, end.key)
    BY <1>1, <1>4, <2>1 DEF InRange, BeyondEnd, PastPrefix
  <2>3. j # k /\ ~(k < j)
    BY <2>1, <2>2, PrefixesTogether
  <2> QED
    BY <1>1, <2>3
<1> QED
  BY <1>2, <1>3, <1>4 DEF Ranges, New, WithRange, WithPrefix, Unbounded

\* At the end nothing is left to be returned.
LEMMA AllDone ==
  ASSUME Types, Ranges, Finished, NEW done, NEW lost, Merged(done, lost), ended, ~Failed
  PROVE  Shown(done) = Shown(Len(Words))
<1>1. done \in Nat /\ done <= Len(Words) /\ Len(Words) \in Nat /\ Keys \in SUBSET Nat
  BY KeysAre DEF Merged
<1>2. Pending = {} /\ (HeadKeys = {} \/ BeyondEnd(Smallest))
  BY DEF Finished
<1>3. ASSUME NEW j \in Shown(Len(Words)), done < j PROVE FALSE
  <2>1. j \in Keys /\ j \in Nat /\ InRange(j)
    BY <1>1 DEF Shown
  <2>2. PICK s \in Sources : whole[s][j] # "absent"
    BY DEF Shown, Holders
  <2>3. SourceOk(s, done, lost[s]) /\ lost[s] \in 1 .. Len(Words) + 1 /\ j \in Held(s)
    BY <2>1, <2>2 DEF Merged, Held
  <2>4. AtKey(s, j) \/ \E i \in HeadKeys : i < j
    BY <1>1, <1>2, <1>3, <2>3, NoneHidden
  <2>5. PICK i \in HeadKeys : i <= j
    BY <2>1, <2>4 DEF HeadKeys
  <2>6. Least(Smallest, HeadKeys) /\ Smallest \in Keys
    BY <2>5, SmallestIs
  <2>7. Smallest <= i /\ i \in Nat /\ Smallest \in Nat
    BY <1>1, <2>6 DEF Least, HeadKeys
  <2>8. j < Smallest
    BY <1>2, <2>1, <2>5, <2>6, NothingBeyond
  <2> QED
    BY <2>1, <2>5, <2>7, <2>8
<1>4. ASSUME NEW j \in Shown(Len(Words)) PROVE j \in Shown(done)
  <2>1. ~(done < j)
    BY <1>3
  <2> QED
    BY <1>1, <2>1 DEF Shown
<1>5. ASSUME NEW j \in Shown(done) PROVE j \in Shown(Len(Words))
  BY <1>1 DEF Shown
<1> QED
  BY <1>4, <1>5

\* What live() lets through of a list.
LEMMA LiveAre ==
  ASSUME NEW S, NEW items \in Seq(S)
  PROVE  LET shown == Live(items)
             K == {i \in DOMAIN items : IsErr(items[i]) \/ items[i].version = "put"}
         IN  /\ \A i \in DOMAIN shown : \E j \in K : shown[i] = items[j]
             /\ \A j \in K : \E i \in DOMAIN shown : shown[i] = items[j]
<1> DEFINE K == {i \in DOMAIN items : IsErr(items[i]) \/ items[i].version = "put"}
           order == Ordered(K)
           n == Cardinality(K)
<1>1. Live(items) = [j \in DOMAIN order |-> items[order[j]]]
  BY DEF Live
<1>2. K \in SUBSET Nat /\ IsFiniteSet(K)
  <2>1. Len(items) \in Nat /\ K \in SUBSET (1 .. Len(items))
    OBVIOUS
  <2> HIDE DEF K
  <2>2. IsFiniteSet(1 .. Len(items)) /\ (1 .. Len(items)) \in SUBSET Nat
    BY <2>1, FS_Interval
  <2>3. IsFiniteSet(K)
    BY <2>1, <2>2, FS_Subset
  <2> QED
    BY <2>1, <2>2, <2>3
<1> HIDE DEF K
<1>3. /\ order \in [1 .. n -> K]
      /\ \A x \in K : \E i \in 1 .. n : order[i] = x
  BY <1>2, AscendingList
<1> HIDE DEF order, n
<1>4. DOMAIN Live(items) = 1 .. n /\ \A i \in 1 .. n : Live(items)[i] = items[order[i]]
  BY <1>1, <1>3
<1> QED
  BY <1>3, <1>4 DEF K

\* At the end the list is the reference, and what live() lets through of it are
\* the newest versions that are values.
LEMMA WholeAtEnd ==
  ASSUME MInv, ended, ~Failed
  PROVE  /\ out = Reference
         /\ ToSet(Live(out)) = {Newest(k) : k \in {j \in Keys : /\ InRange(j) /\ Holders(j) # {}
                                                                /\ Newest(j).version = "put"}}
<1> DEFINE shown == Live(out)
           Puts == {k \in Keys : InRange(k) /\ Holders(k) # {} /\ Newest(k).version = "put"}
<1>1. Types /\ Ranges /\ Finished
  BY MInvIs
<1>2. PICK done, lost : Merged(done, lost)
  BY MInvIs
<1> DEFINE T == Shown(done)
<1>3. T = Shown(Len(Words))
  BY <1>1, <1>2, AllDone
<1>4. out = Reference
  <2>1. Len(out) = Cardinality(T)
    BY <1>1, <1>2, OutListed
  <2>2. \A i \in 1 .. Len(out) : out[i] = Newest(ShownInOrder(done)[i])
    BY <1>1, <1>2, OutListed
  <2>3. ShownInOrder(done) = ShownInOrder(Len(Words))
    BY <1>3 DEF ShownInOrder
  <2>4. /\ Reference \in Seq({Newest(k) : k \in Keys}) /\ Len(Reference) = Len(out)
        /\ \A i \in 1 .. Len(out) : Reference[i] = out[i]
    BY <1>3, <2>1, <2>2, <2>3, ReferenceIs
  <2> DEFINE R == {Newest(k) : k \in Keys}
  <2>5. DOMAIN Reference = 1 .. Len(out) /\ Reference = [i \in 1 .. Len(out) |-> Reference[i]]
    <3> HIDE DEF R
    <3>1. Reference \in Seq(R) /\ Len(Reference) = Len(out)
      BY <2>4 DEF R
    <3> QED
      BY <3>1
  <2>6. out = [i \in 1 .. Len(out) |-> out[i]]
    BY <1>1 DEF Types
  <2> QED
    BY <2>4, <2>5, <2>6
<1>5. Puts = {k \in T : Newest(k).version = "put"}
  BY <1>3, AllShown
<1>6. /\ \A i \in DOMAIN out : \E k \in T : out[i] = Newest(k)
      /\ \A k \in T : \E i \in DOMAIN out : out[i] = Newest(k)
  BY <1>2 DEF Merged, OutOk
<1> DEFINE P == {i \in DOMAIN out : IsErr(out[i]) \/ out[i].version = "put"}
<1>7. /\ \A i \in DOMAIN shown : \E j \in P : shown[i] = out[j]
      /\ \A j \in P : \E i \in DOMAIN shown : shown[i] = out[j]
  BY <1>1, LiveAre DEF Types
<1> HIDE DEF shown, T, Puts
<1>8. ASSUME NEW i \in DOMAIN shown PROVE \E k \in Puts : shown[i] = Newest(k)
  <2>1. PICK j \in P : shown[i] = out[j]
    BY <1>7
  <2>2. PICK k \in T : out[j] = Newest(k)
    BY <1>6, <2>1
  <2>3. Newest(k).version = "put"
    BY <2>1, <2>2, NewestIs
  <2> QED
    BY <1>5, <2>1, <2>2, <2>3
<1>9. ASSUME NEW k \in Puts PROVE \E i \in DOMAIN shown : shown[i] = Newest(k)
  <2>1. k \in T /\ Newest(k).version = "put"
    BY <1>5
  <2>2. PICK j \in DOMAIN out : out[j] = Newest(k)
    BY <1>6, <2>1
  <2>3. j \in P
    BY <2>1, <2>2
  <2>4. PICK i \in DOMAIN shown : shown[i] = out[j]
    BY <1>7, <2>3
  <2> QED
    BY <2>2, <2>4
<1>10. ToSet(shown) = {Newest(k) : k \in Puts}
  BY <1>8, <1>9 DEF ToSet
<1> QED
  BY <1>4, <1>10 DEF shown, Puts

-----------------------------------------------------------------------------
(* What is returned, against the search through the layers of LsmTree *)

First(S) == CHOOSE s \in S : \A r \in S : s <= r

LEMMA FirstIs ==
  ASSUME NEW S \in SUBSET Sources, S # {}
  PROVE  First(S) \in S /\ \A r \in S : First(S) <= r
<1>1. S \in SUBSET Nat
  BY DEF Sources
<1> QED
  BY <1>1, LeastOf DEF First

LEMMA LookupIs ==
  ASSUME Types, NEW s \in Sources, NEW k \in Keys
  PROVE  /\ Layer(s)[k] = Lookup(s, k)
         /\ Layer(s) # NoTable
         /\ whole[s][k] = "put" <=> Lookup(s, k) \in Values
         /\ whole[s][k] = "put" => Lookup(s, k) = Written[s][k]
         /\ whole[s][k] = "absent" <=> Lookup(s, k) = "NotFound"
<1>1. ASSUME NEW j \in Keys
      PROVE  /\ whole[s][j] \in Versions
             /\ whole[s][j] = "put" => Lookup(s, j) = Written[s][j] /\ Written[s][j] \in Values
             /\ whole[s][j] = "tombstone" => Lookup(s, j) = "Deleted"
             /\ whole[s][j] = "absent" => Lookup(s, j) = "NotFound"
  <2>1. whole[s][j] \in Versions /\ Written[s][j] \in Values
    BY DEF Types, Values
  <2> QED
    BY <2>1 DEF Lookup
<1>2. Values \cap {"Deleted", "NotFound"} = {}
  BY WrittenAssumption
<1>3. Layer(s) \in [Keys -> Values \cup {"Deleted", "NotFound"}]
  <2>1. \A j \in Keys : Lookup(s, j) \in Values \cup {"Deleted", "NotFound"}
    BY <1>1 DEF Versions
  <2> QED
    BY <2>1 DEF Layer
<1>4. Layer(s) # NoTable
  BY <1>3, WrittenAssumption
<1> QED
  BY <1>1, <1>2, <1>4 DEF Versions, Layer

Below(k) == Holders(k) \ {1}

\* The search through the tables ends at the newest that has the key.
LEMMA SearchIs ==
  ASSUME Types, NEW k \in Keys
  PROVE  Tree!NewestIn(Listed, k) =
           IF Below(k) = {} THEN "NotFound" ELSE Lookup(First(Below(k)), k)
<1> DEFINE files == [i \in 0 .. Tables - 1 |-> Layer(Tables + 1 - i)]
           hits == {n \in 1 .. Len(Listed) : Tree!Holds(Listed[n], k)}
<1>1. Tables \in Nat /\ Len(Listed) = Tables
  BY TablesAssumption DEF Listed
<1>2. ASSUME NEW n \in 1 .. Tables
      PROVE  n + 1 \in Sources /\ Listed[n] = Tables - n /\ files[Listed[n]] = Layer(n + 1)
  <2>1. Listed[n] = Tables - n /\ Tables - n \in 0 .. Tables - 1 /\ Tables + 1 - (Tables - n) = n + 1
    BY <1>1 DEF Listed
  <2>2. n + 1 \in Sources
    BY <1>1 DEF Sources
  <2> QED
    BY <2>1, <2>2
<1>3. ASSUME NEW n \in 1 .. Tables
      PROVE  Tree!Holds(Listed[n], k) <=> n + 1 \in Below(k)
  <2>1. Tree!Holds(Listed[n], k) <=> /\ files[Listed[n]] \notin {NoTable, NoTable}
                                     /\ files[Listed[n]][k] # "NotFound"
    BY DEF Tree!Holds, Tree!IsTable
  <2>2. n + 1 # 1
    BY <1>1
  <2> HIDE DEF files
  <2> QED
    BY <1>2, <2>1, <2>2, LookupIs DEF Below, Holders
<1>4. ASSUME NEW s \in Below(k) PROVE s - 1 \in 1 .. Tables /\ s - 1 + 1 = s /\ s \in Sources
  BY <1>1 DEF Below, Holders, Sources
<1>5. Tree!NewestIn(Listed, k) = IF hits = {} THEN "NotFound"
                                 ELSE files[Listed[Tree!Winner(hits)]][k]
  BY DEF Tree!NewestIn
<1>6. \A n \in 1 .. Tables : n \in hits <=> n + 1 \in Below(k)
  BY <1>1, <1>3
<1>7. hits \in SUBSET (1 .. Tables)
  BY <1>1
<1> HIDE DEF files, hits
<1>8. CASE Below(k) = {}
  BY <1>5, <1>6, <1>7, <1>8
<1>9. CASE Below(k) # {}
  <2> DEFINE s == First(Below(k))
  <2>1. s \in Below(k) /\ \A r \in Below(k) : s <= r
    BY <1>4, <1>9, FirstIs
  <2>2. s - 1 \in hits /\ \A n \in hits : s - 1 <= n
    BY <1>1, <1>4, <1>6, <1>7, <2>1
  <2>3. Tree!Winner(hits) = s - 1
    <3>1. \A n \in hits : (\A m \in hits : n <= m) => n = s - 1
      BY <1>1, <1>4, <1>7, <2>1, <2>2
    <3> QED
      BY <2>2, <3>1 DEF Tree!Winner
  <2>4. files[Listed[s - 1]] = Layer(s)
    BY <1>2, <1>4, <2>1
  <2> QED
    BY <1>4, <1>5, <1>9, <2>1, <2>2, <2>3, <2>4, LookupIs
<1> QED
  BY <1>8, <1>9

\* get finds the newest version.
LEMMA GetIs ==
  ASSUME Types, NEW k \in Keys
  PROVE  LET s == First(Holders(k))
             live == Holders(k) # {} /\ whole[s][k] = "put"
         IN  /\ live => Tree!Get(k) = Written[s][k] /\ Tree!Get(k) # "None"
             /\ ~live => Tree!Get(k) = "None"
<1> DEFINE s == First(Holders(k))
           e == IF Layer(1)[k] # "NotFound" THEN Layer(1)[k] ELSE Tree!NewestIn(Listed, k)
<1>1. 1 \in Sources /\ Holders(k) \in SUBSET Sources /\ \A r \in Sources : r \in Nat /\ 1 <= r
  BY TablesAssumption DEF Sources, Holders
<1>2. Tree!Get(k) = IF e \in Values THEN e ELSE "None"
  BY DEF Tree!Get, Tree!ToOption
<1>3. Layer(1)[k] = Lookup(1, k) /\ (1 \in Holders(k) <=> Lookup(1, k) # "NotFound")
  BY <1>1, LookupIs DEF Holders
<1>4. Holders(k) # {} => s \in Holders(k) /\ s \in Sources /\ \A r \in Holders(k) : s <= r
  BY <1>1, FirstIs
<1>5. e = IF Holders(k) = {} THEN "NotFound" ELSE Lookup(s, k)
  <2>1. CASE 1 \in Holders(k)
    <3>1. s = 1
      BY <1>1, <1>4, <2>1
    <3> QED
      BY <1>3, <2>1, <3>1
  <2>2. CASE 1 \notin Holders(k)
    <3>1. Below(k) = Holders(k)
      BY <2>2 DEF Below
    <3>2. e = Tree!NewestIn(Listed, k)
      BY <1>3, <2>2
    <3> HIDE DEF e
    <3> QED
      BY <3>1, <3>2, SearchIs
  <2> QED
    BY <2>1, <2>2
<1> HIDE DEF e, s
<1>6. Values \cap {"Deleted", "NotFound", "None"} = {}
  BY WrittenAssumption
<1>7. Holders(k) # {} => /\ whole[s][k] = "put" <=> Lookup(s, k) \in Values
                         /\ whole[s][k] = "put" => Lookup(s, k) = Written[s][k]
  BY <1>4, LookupIs
<1> QED
  BY <1>2, <1>5, <1>6, <1>7 DEF s

\* Without a memtable the merge of the tables holds what get finds.
LEMMA MergedIs ==
  ASSUME Types, Layer(1) = Tree!Blank, NEW k \in Keys
  PROVE  /\ Tree!Merged[k] # "NotFound" <=> Tree!Get(k) # "None"
         /\ Tree!Get(k) # "None" => Tree!Merged[k] = Tree!Get(k)
<1>1. Layer(1)[k] = "NotFound"
  BY DEF Tree!Blank
<1> DEFINE e == Tree!NewestIn(Listed, k)
<1>2. Tree!Get(k) = IF e \in Values THEN e ELSE "None"
  BY <1>1 DEF Tree!Get, Tree!ToOption
<1>3. Tree!Merged[k] = IF e \in Values THEN e ELSE "NotFound"
  BY DEF Tree!Merged
<1> HIDE DEF e
<1>4. Values \cap {"Deleted", "NotFound", "None"} = {}
  BY WrittenAssumption
<1> QED
  BY <1>2, <1>3, <1>4

LEMMA RowsAreReads == MInv => NoShortScan
<1> SUFFICES ASSUME MInv, ended, ~Failed
             PROVE  /\ out = Reference
                    /\ Rows(Live(out)) = {<<k, Tree!Get(k)>> :
                         k \in {j \in Keys : InRange(j) /\ Tree!Get(j) # "None"}}
                    /\ New /\ Layer(1) = Tree!Blank =>
                         Rows(Live(out)) = {<<k, Tree!Merged[k]>> :
                           k \in {j \in Keys : Tree!Merged[j] # "NotFound"}}
  BY DEF NoShortScan
<1> DEFINE Puts == {k \in Keys : InRange(k) /\ Holders(k) # {} /\ Newest(k).version = "put"}
           Seen == {k \in Keys : InRange(k) /\ Tree!Get(k) # "None"}
<1>1. Types
  BY DEF MInv
<1>2. out = Reference /\ ToSet(Live(out)) = {Newest(k) : k \in Puts}
  BY WholeAtEnd
<1>3. ASSUME NEW k \in Keys
      PROVE  /\ Newest(k).key = k /\ Newest(k).source = First(Holders(k))
             /\ Newest(k).version = whole[First(Holders(k))][k]
  BY DEF Newest, Item, First
<1>4. ASSUME NEW k \in Keys
      PROVE  /\ k \in Puts <=> k \in Seen
             /\ k \in Puts => <<Newest(k).key, Written[Newest(k).source][Newest(k).key]>> =
                                <<k, Tree!Get(k)>>
  BY <1>1, <1>3, GetIs
<1>5. Rows(Live(out)) =
        {<<Newest(k).key, Written[Newest(k).source][Newest(k).key]>> : k \in Puts}
  BY <1>2 DEF Rows
<1>6. Puts \in SUBSET Keys /\ Seen \in SUBSET Keys
  OBVIOUS
<1> HIDE DEF Puts, Seen
<1>7. Rows(Live(out)) = {<<k, Tree!Get(k)>> : k \in Seen}
  BY <1>4, <1>5, <1>6
<1>8. ASSUME New, Layer(1) = Tree!Blank
      PROVE  Rows(Live(out)) = {<<k, Tree!Merged[k]>> :
                                  k \in {j \in Keys : Tree!Merged[j] # "NotFound"}}
  <2>1. \A k \in Keys : InRange(k)
    BY <1>8, KeysAre DEF New, InRange, Unbounded, NoBound
  <2>2. Seen = {j \in Keys : Tree!Merged[j] # "NotFound"}
    BY <1>1, <1>8, <2>1, MergedIs DEF Seen
  <2>3. \A k \in Seen : Tree!Merged[k] = Tree!Get(k)
    BY <1>1, <1>6, <1>8, MergedIs DEF Seen
  <2> QED
    BY <1>7, <2>2, <2>3
<1> QED
  BY <1>2, <1>7, <1>8 DEF Seen

\* A scan shows what get finds, a compaction writes the merge of its tables.
THEOREM NeverShort == Spec => []NoShortScan
BY MergeInductive, RowsAreReads, PTL
===============================================================================
