----------------------- MODULE VariationReviewProofs -----------------------
(***************************************************************************)
(* What a variations review promises, for every metadata, sheet and bound. *)
(***************************************************************************)
EXTENDS VariationReview, FiniteSetTheorems, SequenceTheorems, WellFoundedInduction, TLAPS

(* There is a least of the numbers of a set.                               *)
LEMMA LeastExists ==
  ASSUME NEW S \in SUBSET Nat, S # {}
  PROVE  \E x \in S : \A y \in S : x <= y
<1>1. PICK x \in S : \A y \in S : ~ (<<y, x>> \in OpToRel(<, Nat))
  BY NatLessThanWellFounded, WFMin
<1>2. \A y \in S : ~ (y < x)
  BY <1>1, Zenon DEF OpToRel
<1>3. QED BY <1>2

-----------------------------------------------------------------------------
(* What update-variations counts. *)

(* A quotient is the number of whole divisors.                             *)
LEMMA Quotient ==
  ASSUME NEW n \in Nat, NEW s \in Nat \ {0}
  PROVE  /\ n \div s \in Nat
         /\ (n \div s) * s <= n
         /\ n < (n \div s) * s + s
OBVIOUS

(* Every chunk but the last is full, and the last is not empty.            *)
LEMMA ChunkLengths ==
  ASSUME NEW T, NEW items \in Seq(T), NEW size \in Nat \ {0}
  PROVE  /\ Len(chunk(items, size)) \in Nat
         /\ Len(chunk(items, size)) * size >= Len(items)
         /\ \A k \in 1 .. Len(chunk(items, size)) :
              /\ chunk(items, size)[k] \in Seq(T)
              /\ (k - 1) * size <= Len(items)
              /\ Len(chunk(items, size)[k]) =
                   (IF k < Len(chunk(items, size)) THEN k * size ELSE Len(items)) - (k - 1) * size
<1> DEFINE n == Len(items)
           c == (n + size - 1) \div size
<1>1. n \in Nat /\ size \in Nat /\ size > 0 /\ n + size - 1 \in Nat
  OBVIOUS
<1>2. c \in Nat /\ c * size <= n + size - 1 /\ n + size - 1 < c * size + size
  BY <1>1, Quotient
<1>3. Len(chunk(items, size)) = c
  BY <1>2 DEF chunk
<1>4. c * size >= n
  <2>1. PICK p \in Nat : p = c * size
    BY <1>1, <1>2
  <2>2. QED BY <1>1, <1>2, <2>1
<1>5. ASSUME NEW k \in 1 .. c
      PROVE  /\ chunk(items, size)[k] \in Seq(T)
             /\ (k - 1) * size <= n
             /\ Len(chunk(items, size)[k]) = (IF k < c THEN k * size ELSE n) - (k - 1) * size
  <2>1. PICK a \in Nat : a = (k - 1) * size
    BY <1>1, <1>2
  <2>2. k * size = a + size
    BY <1>1, <1>2, <2>1
  <2>3. c * size = a + size + (c - k) * size
    BY <1>1, <1>2, <2>1
  <2>4. k < c => (c - k) * size >= size
    BY <1>1, <1>2
  <2>5. (c - k) * size >= 0 /\ (c - k) * size \in Int /\ (k = c => (c - k) * size = 0)
    BY <1>1, <1>2
  <2>6. PICK e \in Int : e = (c - k) * size
    BY <2>5
  <2>7. a < n
    BY <1>1, <1>2, <2>1, <2>3, <2>5, <2>6
  <2>8. IF k < c THEN a + size <= n ELSE n <= a + size
    BY <1>1, <1>2, <1>4, <2>1, <2>3, <2>4, <2>5, <2>6
  <2>9. PICK hi \in Nat : /\ hi = IF k * size < n THEN k * size ELSE n
                          /\ hi = IF k < c THEN a + size ELSE n
    BY <1>1, <1>2, <2>1, <2>2, <2>8
  <2>10. chunk(items, size)[k] = SubSeq(items, a + 1, hi)
    BY <1>1, <2>1, <2>9 DEF chunk
  <2>11. /\ SubSeq(items, a + 1, hi) \in Seq(T)
         /\ Len(SubSeq(items, a + 1, hi)) = hi - a
    <3>1. hi <= n /\ a <= hi /\ a + 1 \in Int /\ hi \in Int
      BY <1>1, <1>2, <2>1, <2>7, <2>9
    <3>2. \A i \in a + 1 .. hi : items[i] \in T
      BY <1>1, <2>1, <3>1
    <3>3. /\ SubSeq(items, a + 1, hi) \in Seq(T)
          /\ Len(SubSeq(items, a + 1, hi)) = IF a + 1 <= hi THEN hi - (a + 1) + 1 ELSE 0
      <4>1. PICK lo \in Int : lo = a + 1
        BY <3>1
      <4>2. /\ SubSeq(items, lo, hi) \in Seq(T)
            /\ Len(SubSeq(items, lo, hi)) = IF lo <= hi THEN hi - lo + 1 ELSE 0
        BY <3>1, <3>2, <4>1, SubSeqProperties
      <4>3. QED BY <4>1, <4>2
    <3>4. hi - a = IF a + 1 <= hi THEN hi - (a + 1) + 1 ELSE 0
      <4>1. a \in Int
        OBVIOUS
      <4>2. \A x, y \in Int : x <= y => y - x = IF x + 1 <= y THEN y - (x + 1) + 1 ELSE 0
        OBVIOUS
      <4>3. QED BY <3>1, <4>1, <4>2
    <3>5. QED BY <3>3, <3>4
  <2>12. Len(chunk(items, size)[k]) = (IF k < c THEN k * size ELSE n) - (k - 1) * size
    BY <2>1, <2>2, <2>9, <2>10, <2>11
  <2>13. chunk(items, size)[k] \in Seq(T) /\ (k - 1) * size <= n
    BY <1>1, <2>1, <2>7, <2>10, <2>11
  <2>14. QED BY <2>12, <2>13
<1>6. QED BY <1>2, <1>3, <1>4, <1>5

(* An item of a chunk is counted in one way.                               *)
AllFates == {"landed", "corrected", "denied", "invalid", "exists"}

LEMMA CountsPartition ==
  ASSUME NEW m \in Nat, NEW fate \in [1 .. m -> AllFates]
  PROVE  /\ \A which : Count(fate, which) \in Nat
         /\ m = Count(fate, {"landed", "corrected"}) + Count(fate, {"denied"}) + Count(fate, {"exists"})
                  + Count(fate, {"invalid"})
<1> DEFINE of(which) == {i \in 1 .. m : fate[i] \in which}
           A == of({"landed", "corrected"})
           B == of({"denied"})
           C == of({"exists"})
           D == of({"invalid"})
<1>1. \A which : Count(fate, which) = Cardinality(of(which))
  BY DEF Count
<1>2. IsFiniteSet(1 .. m) /\ Cardinality(1 .. m) = m
  BY FS_Interval
<1>3. \A which : IsFiniteSet(of(which)) /\ Cardinality(of(which)) \in Nat
  BY <1>2, FS_Subset, FS_CardinalityType
<1>4. A \cup B \cup C \cup D = 1 .. m
  BY DEF AllFates
<1>5. A \cap B = {} /\ (A \cup B) \cap C = {} /\ (A \cup B \cup C) \cap D = {}
  OBVIOUS
<1>6. IsFiniteSet(A \cup B) /\ IsFiniteSet(A \cup B \cup C)
  BY <1>2, FS_Subset
<1>7. /\ Cardinality(A \cup B) = Cardinality(A) + Cardinality(B) - Cardinality({})
      /\ Cardinality(A \cup B \cup C) = Cardinality(A \cup B) + Cardinality(C) - Cardinality({})
      /\ Cardinality(A \cup B \cup C \cup D) = Cardinality(A \cup B \cup C) + Cardinality(D) - Cardinality({})
  <2>1. IsFiniteSet(A) /\ IsFiniteSet(B) /\ IsFiniteSet(C) /\ IsFiniteSet(D)
    BY <1>3
  <2> HIDE DEF A, B, C, D
  <2>2. QED BY <1>5, <1>6, <2>1, FS_Union
<1>8. Cardinality({}) = 0
  BY FS_EmptySet
<1>9. /\ Cardinality(A) \in Nat /\ Cardinality(B) \in Nat /\ Cardinality(C) \in Nat /\ Cardinality(D) \in Nat
      /\ Count(fate, {"landed", "corrected"}) = Cardinality(A)
      /\ Count(fate, {"denied"}) = Cardinality(B)
      /\ Count(fate, {"exists"}) = Cardinality(C)
      /\ Count(fate, {"invalid"}) = Cardinality(D)
  BY <1>1, <1>3
<1>10. m = Cardinality(A) + Cardinality(B) + Cardinality(C) + Cardinality(D)
  <2> HIDE DEF A, B, C, D
  <2>1. PICK a \in Nat, b \in Nat, c \in Nat, d \in Nat :
          a = Cardinality(A) /\ b = Cardinality(B) /\ c = Cardinality(C) /\ d = Cardinality(D)
    BY <1>9
  <2>2. Cardinality(A \cup B) = a + b
    BY <1>7, <1>8, <2>1
  <2>3. Cardinality(A \cup B \cup C) = a + b + c
    BY <1>7, <1>8, <2>1, <2>2
  <2>4. Cardinality(A \cup B \cup C \cup D) = a + b + c + d
    BY <1>7, <1>8, <2>1, <2>3
  <2>5. QED BY <1>2, <1>4, <2>1, <2>4
<1>11. \A which : Count(fate, which) \in Nat
  <2> HIDE DEF of
  <2>1. QED BY <1>1, <1>3
<1>12. QED
  <2> HIDE DEF A, B, C, D
  <2>1. QED BY <1>9, <1>10, <1>11

(* The update under way: of chunks sent, each item is counted.             *)
ChunkLists == {chunk(items, size) : items \in UpdateSheets, size \in ChunkSizes}

Updates ==
  [chunks : ChunkLists, flags : UpdateFlags, next : Nat,
   said : [denied : Nat, overwriteRequired : Nat, invalid : Nat, corrected : Nat],
   submitted : Nat, told : Nat, items : UpdateSheets, landed : Nat, committed : Nat,
   outcome : {"running", "refused", "threw", "done"}]

Counted(u) == u.landed + u.said.denied + u.said.overwriteRequired + u.said.invalid

Sent(u, size) == IF u.next > Len(u.chunks) THEN Len(u.items) ELSE (u.next - 1) * size

CountsUpTo(u, size) ==
  /\ u.chunks = chunk(u.items, size)
  /\ u.next \in 1 .. Len(u.chunks) + 1
  /\ u.committed = u.next - 1
  /\ Counted(u) = Sent(u, size)
  /\ u.outcome = "done" => u.next > Len(u.chunks) /\ u.submitted = Len(u.items)
  /\ u.outcome = "refused" => u.told = u.next - 1

UpdateInv == update # None => update \in Updates /\ \E size \in ChunkSizes : CountsUpTo(update, size)

LEMMA UpdateInvImplies == UpdateInv => CommittedIsCounted
<1> SUFFICES ASSUME UpdateInv, update # None
             PROVE  /\ update.outcome = "done" => update.submitted = Counted(update)
                    /\ update.outcome = "refused" => update.told = update.committed
  BY DEF CommittedIsCounted, Counted
<1>1. PICK size \in ChunkSizes : CountsUpTo(update, size)
  BY DEF UpdateInv
<1>2. QED BY <1>1 DEF CountsUpTo, Sent

(* The sheet of an update is a sequence.                                   *)
LEMMA SheetsAreSequences ==
  ASSUME NEW items \in UpdateSheets
  PROVE  \E T : items \in Seq(T)
BY ReviewAssumption

LEMMA UpdateStarts ==
  ASSUME NEW items \in UpdateSheets, NEW size \in ChunkSizes, NEW flags \in UpdateFlags, NEW token \in BOOLEAN,
         UpdateInv, StartUpdate(items, size, flags, token)
  PROVE  UpdateInv'
<1>1. CASE UNCHANGED update
  BY <1>1 DEF UpdateInv
<1>2. CASE update' = [chunks |-> chunk(items, size), flags |-> flags, next |-> 1,
                      said |-> NothingSaid, submitted |-> 0, told |-> 0,
                      items |-> items, landed |-> 0, committed |-> 0, outcome |-> "running"]
  <2>1. PICK T : items \in Seq(T)
    BY SheetsAreSequences
  <2>2. size \in Nat \ {0}
    BY ReviewAssumption
  <2>3. PICK c \in Nat : c = Len(chunk(items, size))
    BY <2>1, <2>2, ChunkLengths
  <2>4. c * size >= Len(items) /\ Len(items) \in Nat
    <3>1. Len(chunk(items, size)) * size >= Len(items)
      BY <2>1, <2>2, ChunkLengths
    <3>2. QED BY <2>1, <2>3, <3>1
  <2>5. update' \in Updates
    BY <1>2 DEF Updates, ChunkLists, NothingSaid
  <2>6. Counted(update') = 0
    BY <1>2 DEF Counted, NothingSaid
  <2>7. Sent(update', size) = 0
    <3>1. (1 - 1) * size = 0
      BY <2>2
    <3>2. c = 0 => Len(items) = 0
      BY <2>2, <2>4
    <3>3. QED BY <1>2, <2>3, <3>1, <3>2 DEF Sent
  <2>8. CountsUpTo(update', size)
    BY <1>2, <2>3, <2>6, <2>7 DEF CountsUpTo
  <2>9. QED BY <2>5, <2>8 DEF UpdateInv
<1>3. QED BY <1>1, <1>2 DEF StartUpdate

LEMMA UpdateSends ==
  ASSUME UpdateInv, UpdateChunk
  PROVE  UpdateInv'
<1>0. update # None /\ update.outcome = "running" /\ update.next <= Len(update.chunks)
  BY DEF UpdateChunk
<1>1. PICK size \in ChunkSizes : CountsUpTo(update, size)
  BY <1>0 DEF UpdateInv
<1>2. update \in Updates /\ update.items \in UpdateSheets
  BY <1>0 DEF UpdateInv, Updates
<1>3. PICK T : update.items \in Seq(T)
  BY <1>2, SheetsAreSequences
<1>4. size \in Nat \ {0}
  BY ReviewAssumption
<1>5. PICK k \in Nat, c \in Nat, n \in Nat :
        /\ k = update.next /\ c = Len(update.chunks) /\ n = Len(update.items)
        /\ k \in 1 .. c /\ c = Len(chunk(update.items, size)) /\ update.chunks = chunk(update.items, size)
  <2>1. Len(chunk(update.items, size)) \in Nat /\ Len(update.items) \in Nat
    BY <1>3, <1>4, ChunkLengths
  <2>2. QED BY <1>0, <1>1, <2>1 DEF CountsUpTo
<1>6. ASSUME NEW fate \in [DOMAIN Batch -> AllFates],
             update' = [update EXCEPT
                          !.next = @ + 1,
                          !.said = [denied |-> @.denied + Count(fate, {"denied"}),
                                    overwriteRequired |-> @.overwriteRequired + Count(fate, {"exists"}),
                                    invalid |-> @.invalid + Count(fate, {"invalid"}),
                                    corrected |-> @.corrected + Count(fate, {"corrected"})],
                          !.landed = @ + Count(fate, {"landed", "corrected"}),
                          !.committed = @ + 1]
      PROVE  UpdateInv'
  <2>1. PICK a \in Nat : a = (k - 1) * size
    BY <1>4, <1>5
  <2>2. PICK b \in Nat : b = k * size /\ b = a + size
    <3>1. \A x, y \in Nat : x * y \in Nat /\ x * y = (x - 1) * y + y
      OBVIOUS
    <3>2. QED BY <1>4, <2>1, <3>1
  <2>3. Batch \in Seq(T) /\ Len(Batch) = (IF k < c THEN b ELSE n) - a
    <3>1. Batch = chunk(update.items, size)[k]
      BY <1>5 DEF Batch
    <3>2. /\ chunk(update.items, size)[k] \in Seq(T)
          /\ Len(chunk(update.items, size)[k]) = (IF k < c THEN k * size ELSE n) - (k - 1) * size
      <4>1. \A j \in 1 .. Len(chunk(update.items, size)) :
              /\ chunk(update.items, size)[j] \in Seq(T)
              /\ Len(chunk(update.items, size)[j]) =
                   (IF j < Len(chunk(update.items, size)) THEN j * size ELSE Len(update.items)) - (j - 1) * size
        BY <1>3, <1>4, ChunkLengths
      <4>2. k \in 1 .. Len(chunk(update.items, size))
        BY <1>5
      <4>3. /\ chunk(update.items, size)[k] \in Seq(T)
            /\ Len(chunk(update.items, size)[k]) =
                 (IF k < Len(chunk(update.items, size)) THEN k * size ELSE Len(update.items)) - (k - 1) * size
        BY <4>1, <4>2, Zenon
      <4>4. Len(chunk(update.items, size)) = c /\ Len(update.items) = n
        BY <1>5
      <4>5. QED BY <4>3, <4>4, Zenon
    <3>3. QED BY <2>1, <2>2, <3>1, <3>2
  <2>4. PICK m \in Nat : m = Len(Batch) /\ DOMAIN Batch = 1 .. m
    BY <2>3
  <2>5. fate \in [1 .. m -> AllFates]
    BY <1>6, <2>4
  <2>6. PICK l \in Nat, d \in Nat, e \in Nat, i \in Nat, r \in Nat :
          /\ l = Count(fate, {"landed", "corrected"}) /\ d = Count(fate, {"denied"}) /\ e = Count(fate, {"exists"})
          /\ i = Count(fate, {"invalid"}) /\ r = Count(fate, {"corrected"})
          /\ m = l + d + e + i
    BY <2>5, CountsPartition
  <2>7. update' = [update EXCEPT
                     !.next = @ + 1,
                     !.said = [denied |-> @.denied + d, overwriteRequired |-> @.overwriteRequired + e,
                               invalid |-> @.invalid + i, corrected |-> @.corrected + r],
                     !.landed = @ + l,
                     !.committed = @ + 1]
    BY <1>6, <2>6
  <2>8. update' \in Updates
    <3>1. /\ update.next + 1 \in Nat /\ update.landed + l \in Nat /\ update.committed + 1 \in Nat
          /\ update.said.denied + d \in Nat /\ update.said.overwriteRequired + e \in Nat
          /\ update.said.invalid + i \in Nat /\ update.said.corrected + r \in Nat
      BY <1>2 DEF Updates
    <3>2. PICK next, landed, committed \in Nat, said \in [denied : Nat, overwriteRequired : Nat, invalid : Nat, corrected : Nat] :
            update' = [update EXCEPT !.next = next, !.said = said, !.landed = landed, !.committed = committed]
      BY <2>7, <3>1
    <3>3. QED BY <1>2, <3>2 DEF Updates
  <2>9. /\ update'.chunks = update.chunks /\ update'.items = update.items /\ update'.outcome = update.outcome
        /\ update'.next = k + 1 /\ update'.committed = update.committed + 1
        /\ update'.landed = update.landed + l
        /\ update'.said.denied = update.said.denied + d
        /\ update'.said.overwriteRequired = update.said.overwriteRequired + e
        /\ update'.said.invalid = update.said.invalid + i
    BY <1>2, <1>5, <2>7 DEF Updates
  <2>10. Counted(update') = Counted(update) + m
    <3>1. /\ update.landed \in Nat /\ update.said.denied \in Nat /\ update.said.overwriteRequired \in Nat
          /\ update.said.invalid \in Nat
      BY <1>2 DEF Updates
    <3>2. QED BY <2>6, <2>9, <3>1 DEF Counted
  <2>11. Counted(update) = a
    BY <1>1, <1>5, <2>1 DEF CountsUpTo, Sent
  <2>12. Sent(update', size) = IF k = c THEN n ELSE b
    <3>1. (k + 1 - 1) * size = b
      BY <1>4, <1>5, <2>2
    <3>2. QED BY <1>5, <2>9, <3>1 DEF Sent
  <2>13. Counted(update') = Sent(update', size)
    BY <1>5, <2>2, <2>3, <2>4, <2>10, <2>11, <2>12
  <2>14. update.outcome = "running" /\ update.committed = k - 1
    BY <1>0, <1>1, <1>5 DEF CountsUpTo
  <2>15. CountsUpTo(update', size)
    BY <1>5, <2>9, <2>13, <2>14 DEF CountsUpTo
  <2>16. QED BY <2>8, <2>15 DEF UpdateInv
<1>7. CASE update' = [update EXCEPT !.outcome = "refused", !.told = update.next - 1]
  <2>1. update' \in Updates
    <3>1. PICK told \in Nat : told = update.next - 1
      BY <1>5
    <3>2. QED BY <1>2, <1>7, <3>1 DEF Updates
  <2>2. CountsUpTo(update', size)
    BY <1>0, <1>1, <1>2, <1>5, <1>7 DEF CountsUpTo, Sent, Counted, Updates
  <2>3. QED BY <2>1, <2>2 DEF UpdateInv
<1>8. CASE update' = [update EXCEPT !.outcome = "threw"]
  <2>1. update' \in Updates
    BY <1>2, <1>8 DEF Updates
  <2>2. CountsUpTo(update', size)
    BY <1>0, <1>1, <1>2, <1>5, <1>8 DEF CountsUpTo, Sent, Counted, Updates
  <2>3. QED BY <2>1, <2>2 DEF UpdateInv
<1>9. QED BY <1>6, <1>7, <1>8 DEF AllFates, UpdateChunk

LEMMA UpdateFinishes ==
  ASSUME UpdateInv, UpdateEnds
  PROVE  UpdateInv'
<1>1. PICK size \in ChunkSizes : CountsUpTo(update, size)
  BY DEF UpdateInv, UpdateEnds
<1>2. update \in Updates
  BY DEF UpdateInv, UpdateEnds
<1>3. update.items \in UpdateSheets
  BY <1>2 DEF Updates
<1>4. PICK T : update.items \in Seq(T)
  BY <1>3, SheetsAreSequences
<1>5. Len(update.items) \in Nat
  BY <1>4
<1>6. update' \in Updates
  BY <1>2, <1>5 DEF Updates, UpdateEnds
<1>7. CountsUpTo(update', size)
  BY <1>1, <1>2 DEF CountsUpTo, Sent, Counted, Updates, UpdateEnds
<1>8. QED BY <1>6, <1>7 DEF UpdateInv

LEMMA UpdateStep ==
  ASSUME UpdateInv, [Next]_vars
  PROVE  UpdateInv'
<1>1. CASE UNCHANGED update
  BY <1>1 DEF UpdateInv
<1>2. ASSUME NEW items \in UpdateSheets, NEW size \in ChunkSizes, NEW flags \in UpdateFlags, NEW token \in BOOLEAN,
             StartUpdate(items, size, flags, token)
      PROVE  UpdateInv'
  BY <1>2, UpdateStarts
<1>3. CASE UpdateChunk
  BY <1>3, UpdateSends
<1>4. CASE UpdateEnds
  BY <1>4, UpdateFinishes
<1>5. CASE \E addressed \in BOOLEAN : FindVariations(addressed)
  BY <1>1, <1>5 DEF FindVariations
<1>6. CASE \E dryRun \in BOOLEAN : SubmitVariationsReport(dryRun)
  BY <1>1, <1>6 DEF SubmitVariationsReport
<1>7. CASE Decide
  BY <1>1, <1>7 DEF Decide, SubmitVariationDecisions
<1>8. CASE OtherUser \/ ProviderChanges
  BY <1>1, <1>8 DEF OtherUser, ProviderChanges
<1>9. CASE UNCHANGED vars
  BY <1>1, <1>9 DEF vars
<1>10. QED BY <1>2, <1>3, <1>4, <1>5, <1>6, <1>7, <1>8, <1>9 DEF Next

(* What update-variations says of the store is so, for every sheet and     *)
(* size of a chunk: when it ends well each suggestion landed or is counted *)
(* as refused, and when a chunk is refused it tells how many chunks were   *)
(* committed before.                                                       *)
THEOREM CommittedCounted == Spec => []CommittedIsCounted
<1>1. Init => UpdateInv
  BY DEF Init, UpdateInv
<1>2. UpdateInv /\ [Next]_vars => UpdateInv'
  BY UpdateStep
<1>3. UpdateInv => CommittedIsCounted
  BY UpdateInvImplies
<1>4. QED BY <1>1, <1>2, <1>3, PTL DEF Spec

-----------------------------------------------------------------------------
(* What a report can be asked about. *)

Given(metadata, mappings) ==
  [provider |-> MetadataMap(metadata), standard |-> MetadataMap(StandardMetadata),
   mappings |-> mappings, applyIntEnumFix |-> TRUE]

(* Where the walk stops: at a resource, at a field, or at the values of a  *)
(* lookup, which are displayed or are OData names.                         *)
StopsAtResource(r, ctx) ==
  MappingAt(ctx.mappings, <<r>>).suggestions # <<>> \/ r \notin DOMAIN ctx.standard

StopsAtField(r, f, ctx) ==
  MappingAt(ctx.mappings, <<r, f>>).suggestions # <<>> \/ f \notin DOMAIN ctx.standard[r]

HasStrings(r, f, ctx) == \E l \in ctx.provider[r][f].lookupValues : l.string

OfResource(v) == v.bucket = "resources" /\ v.field = None /\ v.lookup = None /\ v.odata = None

OfField(v, ctx) ==
  /\ v.bucket = IF ctx.provider[v.resource][v.field].expansion THEN "expansions" ELSE "fields"
  /\ v.field # None /\ v.lookup = None /\ v.odata = None

OfValue(v, ctx) ==
  /\ v.bucket = "lookups" /\ v.field # None
  /\ IF HasStrings(v.resource, v.field, ctx) THEN v.lookup # None /\ v.odata = None
     ELSE v.lookup = None /\ v.odata # None

IsOneOf(v, ctx) ==
  IF StopsAtResource(v.resource, ctx) THEN OfResource(v)
  ELSE IF StopsAtField(v.resource, v.field, ctx) THEN OfField(v, ctx)
  ELSE OfValue(v, ctx)

(* The elements of the provider's map are named by the metadata.           *)
LEMMA MapIsNamed ==
  ASSUME NEW metadata \in Reviewed, NEW mappings,
         NEW r \in DOMAIN Given(metadata, mappings).provider,
         NEW f \in DOMAIN Given(metadata, mappings).provider[r]
  PROVE  /\ f # None
         /\ \E type, expansion :
              Given(metadata, mappings).provider[r][f] = FieldEntry(LookupsOf(metadata, type), expansion)
<1>1. Given(metadata, mappings).provider = MetadataMap(metadata)
  BY DEF Given
<1>2. r \in {d.resource : d \in metadata.fields}
  BY <1>1 DEF MetadataMap
<1>3. f \in {d.field : d \in {e \in metadata.fields : e.resource = r}}
  BY <1>1, <1>2 DEF MetadataMap
<1>4. f # None
  BY <1>3, ReviewAssumption
<1>5. \E type, expansion : MetadataMap(metadata)[r][f] = FieldEntry(LookupsOf(metadata, type), expansion)
  BY <1>2, <1>3 DEF MetadataMap
<1>6. QED BY <1>1, <1>4, <1>5

(* A value that is displayed is a string of its lookup, and an OData name  *)
(* is a value of a lookup that has no strings.                             *)
LEMMA ValuesOfOneKind ==
  ASSUME NEW metadata \in Reviewed, NEW type, NEW expansion
  PROVE  /\ \A l \in FieldEntry(LookupsOf(metadata, type), expansion).lookupValues : l.string => l.value # None
         /\ \A v \in FieldEntry(LookupsOf(metadata, type), expansion).odataValues :
              v # None /\ \A l \in FieldEntry(LookupsOf(metadata, type), expansion).lookupValues : ~l.string
<1> DEFINE members == LookupsOf(metadata, type)
           entry == FieldEntry(members, expansion)
<1>1. \A m \in members : m.value # None
  BY ReviewAssumption DEF LookupsOf
<1>2. \A m, o \in members : m.string = o.string
  BY ReviewAssumption DEF LookupsOf
<1>3. ASSUME NEW l \in entry.lookupValues, l.string
      PROVE  \E m \in members : m.string /\ l.value = m.value
  <2>1. CASE l \in {[value |-> m.value, standardName |-> m.standardName, string |-> TRUE] : m \in {o \in members : o.string}}
    BY <2>1
  <2>2. CASE l \in {[value |-> m.standardName, standardName |-> None, string |-> FALSE] :
                      m \in {o \in members : ~o.string /\ o.standardName # None}}
    BY <1>3, <2>2
  <2>3. QED BY <2>1, <2>2 DEF FieldEntry
<1>4. ASSUME NEW v \in entry.odataValues
      PROVE  \E m \in members : ~m.string /\ v = m.value
  BY DEF FieldEntry
<1> HIDE DEF members, entry
<1>5. \A l \in entry.lookupValues : l.string => l.value # None
  BY <1>1, <1>3
<1>6. ASSUME NEW v \in entry.odataValues, NEW l \in entry.lookupValues
      PROVE  v # None /\ ~l.string
  <2>1. PICK m \in members : ~m.string /\ v = m.value
    BY <1>4
  <2>2. ASSUME l.string PROVE FALSE
    <3>1. PICK o \in members : o.string
      BY <1>3, <2>2
    <3>2. QED BY <1>2, <2>1, <3>1
  <2>3. QED BY <1>1, <2>1, <2>2
<1>7. \A v \in entry.odataValues : v # None
  BY <1>1, <1>4
<1>8. QED BY <1>5, <1>6, <1>7 DEF entry, members

(* What is found of the values of a field is of one kind.                  *)
LEMMA LookupsAreValues ==
  ASSUME NEW metadata \in Reviewed, NEW mappings, NEW ctx, ctx = Given(metadata, mappings),
         NEW r \in DOMAIN ctx.provider, NEW f \in DOMAIN ctx.provider[r],
         NEW v \in resolveLookups(r, f, ctx)
  PROVE  v.resource = r /\ v.field = f /\ OfValue(v, ctx)
<1> DEFINE mapping(l) == MappingAt(ctx.mappings, <<r, f, l.value>>)
           suggestions(l) ==
             IF mapping(l).suggestions # <<>>
             THEN emitUnlessSatisfied(FirstOfEachTarget(mapping(l).suggestions),
                    \E s \in Suggested(mapping(l)) : isSuggestedLookupTargetPresent(ctx.provider, s))
             ELSE IF l.value \in Displayed(ctx.standard[r][f]) THEN {}
             ELSE machineMatch(l.value, Displayed(ctx.standard[r][f]) \ Displayed(ctx.provider[r][f]), "lookup")
           considered == {l \in ctx.provider[r][f].lookupValues : considerable(l, r, f, ctx)}
<1>0. resolveLookups(r, f, ctx) =
        UNION {{Record("lookups", r, f, l.value, None, s) : s \in suggestions(l)} : l \in considered}
  BY DEF resolveLookups
<1> HIDE DEF suggestions
<1>1. PICK l \in ctx.provider[r][f].lookupValues :
        considerable(l, r, f, ctx) /\ \E s : v = Record("lookups", r, f, l.value, None, s)
  <2>1. PICK l \in considered : v \in {Record("lookups", r, f, l.value, None, s) : s \in suggestions(l)}
    BY <1>0, Zenon
  <2>2. l \in ctx.provider[r][f].lookupValues /\ considerable(l, r, f, ctx)
    OBVIOUS
  <2>3. QED BY <2>1, <2>2
<1>2. l.string
  BY <1>1 DEF considerable, Given
<1>3. l.value # None
  <2>1. PICK type, expansion : ctx.provider[r][f] = FieldEntry(LookupsOf(metadata, type), expansion)
    BY MapIsNamed
  <2>2. l.string => l.value # None
    BY <2>1, ValuesOfOneKind
  <2>3. QED BY <1>2, <2>2
<1>4. f # None
  BY MapIsNamed
<1>5. HasStrings(r, f, ctx)
  BY <1>2 DEF HasStrings
<1>6. QED BY <1>1, <1>3, <1>4, <1>5 DEF OfValue, Record

LEMMA ODataAreValues ==
  ASSUME NEW metadata \in Reviewed, NEW mappings, NEW ctx, ctx = Given(metadata, mappings),
         NEW r \in DOMAIN ctx.provider, NEW f \in DOMAIN ctx.provider[r],
         NEW v \in resolveLegacyOData(r, f, ctx)
  PROVE  v.resource = r /\ v.field = f /\ OfValue(v, ctx)
<1> DEFINE mapping(o) == MappingAt(ctx.mappings, <<r, f, o>>)
           suggestions(o) ==
             IF mapping(o).suggestions # <<>>
             THEN emitUnlessSatisfied(FirstOfEachTarget(mapping(o).suggestions),
                    \E s \in Suggested(mapping(o)) : isSuggestedLookupTargetPresent(ctx.provider, s))
             ELSE IF o \in ctx.standard[r][f].odataValues THEN {}
             ELSE machineMatch(o, ctx.standard[r][f].odataValues \ ctx.provider[r][f].odataValues, "odata")
           considered == {o \in ctx.provider[r][f].odataValues : ~MappingAt(ctx.mappings, <<r, f, o>>).ignored}
<1>0. resolveLegacyOData(r, f, ctx) =
        UNION {{Record("lookups", r, f, None, o, s) : s \in suggestions(o)} : o \in considered}
  BY DEF resolveLegacyOData
<1> HIDE DEF suggestions
<1>1. PICK o \in ctx.provider[r][f].odataValues : \E s : v = Record("lookups", r, f, None, o, s)
  <2>1. PICK o \in considered : v \in {Record("lookups", r, f, None, o, s) : s \in suggestions(o)}
    BY <1>0, Zenon
  <2>2. o \in ctx.provider[r][f].odataValues
    OBVIOUS
  <2>3. QED BY <2>1, <2>2
<1>2. f # None
  BY MapIsNamed
<1>3. o # None /\ ~HasStrings(r, f, ctx)
  <2>1. PICK type, expansion : ctx.provider[r][f] = FieldEntry(LookupsOf(metadata, type), expansion)
    BY MapIsNamed
  <2>2. o # None /\ \A l \in ctx.provider[r][f].lookupValues : ~l.string
    BY <2>1, ValuesOfOneKind
  <2>3. QED BY <2>2 DEF HasStrings
<1>4. QED BY <1>1, <1>2, <1>3 DEF OfValue, Record

LEMMA FieldsAreOne ==
  ASSUME NEW metadata \in Reviewed, NEW mappings, NEW ctx, ctx = Given(metadata, mappings),
         NEW r \in DOMAIN ctx.provider, NEW f \in DOMAIN ctx.provider[r],
         NEW v \in resolveField(r, f, ctx)
  PROVE  /\ v.resource = r /\ v.field = f
         /\ IF StopsAtField(r, f, ctx) THEN OfField(v, ctx) ELSE OfValue(v, ctx)
<1>1. f # None
  BY MapIsNamed
<1>2. CASE StopsAtField(r, f, ctx)
  <2>1. PICK s : v = Record(IF ctx.provider[r][f].expansion THEN "expansions" ELSE "fields", r, f, None, None, s)
    BY <1>2, Zenon DEF resolveField, StopsAtField
  <2>2. QED BY <1>1, <1>2, <2>1 DEF OfField, Record
<1>3. CASE ~StopsAtField(r, f, ctx)
  <2>1. v \in resolveLookups(r, f, ctx) \cup resolveLegacyOData(r, f, ctx)
    BY <1>3, Zenon DEF resolveField, StopsAtField
  <2>2. QED BY <1>3, <2>1, LookupsAreValues, ODataAreValues
<1>4. QED BY <1>2, <1>3

LEMMA VariationsAreOne ==
  ASSUME NEW metadata \in Reviewed, NEW mappings, NEW v \in Variation(metadata, mappings)
  PROVE  IsOneOf(v, Given(metadata, mappings))
<1> DEFINE ctx == Given(metadata, mappings)
<1>1. PICK r \in DOMAIN ctx.provider : v \in resolveResource(r, ctx)
  BY Zenon DEF Variation, computeVariationsV2, Given
<1> HIDE DEF ctx
<1>2. CASE StopsAtResource(r, ctx)
  <2>1. PICK s : v = Record("resources", r, None, None, None, s)
    BY <1>1, <1>2, Zenon DEF resolveResource, StopsAtResource
  <2>2. QED BY <1>2, <2>1 DEF OfResource, IsOneOf, Record, ctx
<1>3. CASE ~StopsAtResource(r, ctx)
  <2>1. PICK f \in DOMAIN ctx.provider[r] : v \in resolveField(r, f, ctx)
    BY <1>1, <1>3, Zenon DEF resolveResource, StopsAtResource
  <2>2. /\ v.resource = r /\ v.field = f
        /\ IF StopsAtField(r, f, ctx) THEN OfField(v, ctx) ELSE OfValue(v, ctx)
    BY <2>1, FieldsAreOne DEF ctx
  <2>3. QED BY <1>3, <2>2 DEF IsOneOf, ctx
<1>4. QED BY <1>2, <1>3

(* What a row of one can be taken for is at the same coordinates.          *)
Coordinates(v) == <<v.bucket, v.resource, v.field, v.lookup, v.odata>>

TakenFor(v, w) ==
  /\ w.resource = v.resource
  /\ v.field # None => w.field = v.field
  /\ ValueOf(v) # None => ValueOf(v) \in {w.lookup, w.odata}

LEMMA TakenForItself ==
  ASSUME NEW ctx, NEW v, NEW w, IsOneOf(v, ctx), IsOneOf(w, ctx), TakenFor(v, w)
  PROVE  Coordinates(v) = Coordinates(w)
<1>1. w.resource = v.resource
  BY DEF TakenFor
<1>2. CASE StopsAtResource(v.resource, ctx)
  BY <1>1, <1>2 DEF IsOneOf, OfResource, Coordinates
<1>3. CASE ~StopsAtResource(v.resource, ctx)
  <2>1. v.field # None
    BY <1>3 DEF IsOneOf, OfField, OfValue
  <2>2. w.field = v.field
    BY <2>1 DEF TakenFor
  <2>3. CASE StopsAtField(v.resource, v.field, ctx)
    BY <1>1, <1>3, <2>2, <2>3 DEF IsOneOf, OfField, Coordinates
  <2>4. CASE ~StopsAtField(v.resource, v.field, ctx)
    <3>1. OfValue(v, ctx) /\ OfValue(w, ctx)
      BY <1>1, <1>3, <2>2, <2>4 DEF IsOneOf
    <3>2. v.lookup = w.lookup /\ v.odata = w.odata /\ v.bucket = w.bucket
      BY <1>1, <2>2, <3>1 DEF OfValue, TakenFor, ValueOf
    <3>3. QED BY <1>1, <2>2, <3>2 DEF Coordinates
  <2>5. QED BY <2>3, <2>4
<1>4. QED BY <1>2, <1>3

(* An entry of a report is given by its coordinates.                       *)
EntryOf(v, records) ==
  LET suggestions == {o.suggestion : o \in {p \in records : Coordinates(p) = Coordinates(v)}}
  IN [bucket |-> v.bucket, resource |-> v.resource, field |-> v.field, lookup |-> v.lookup, odata |-> v.odata,
      suggestions |-> suggestions, enforcement |-> bucketEnforcement(suggestions, CurrentMajor)]

LEMMA EntriesOfRecords ==
  ASSUME NEW records
  PROVE  prepareResults(records, CurrentMajor) = {EntryOf(v, records) : v \in records}
BY DEF prepareResults, EntryOf, Coordinates

LEMMA EntryByCoordinates ==
  ASSUME NEW records, NEW v, NEW w, Coordinates(v) = Coordinates(w)
  PROVE  EntryOf(v, records) = EntryOf(w, records)
<1>1. {o.suggestion : o \in {p \in records : Coordinates(p) = Coordinates(v)}}
        = {o.suggestion : o \in {p \in records : Coordinates(p) = Coordinates(w)}}
  OBVIOUS
<1>2. v.bucket = w.bucket /\ v.resource = w.resource /\ v.field = w.field /\ v.lookup = w.lookup /\ v.odata = w.odata
  BY DEF Coordinates
<1>3. QED BY <1>1, <1>2 DEF EntryOf

LEMMA ReportsAreAddressable ==
  ASSUME NEW metadata \in Reviewed, NEW mappings, NEW entries,
         entries = prepareResults(Variation(metadata, mappings), CurrentMajor), NEW e \in entries
  PROVE  matchEntries(entries, ReviewRow(e, Unmarked)) = {e}
<1> DEFINE records == Variation(metadata, mappings)
<1>1. entries = {EntryOf(v, records) : v \in records}
  BY EntriesOfRecords
<1> HIDE DEF records
<1>2. PICK v \in records : e = EntryOf(v, records)
  BY <1>1
<1> DEFINE row == ReviewRow(e, Unmarked)
<1>3. row.resource = e.resource /\ row.field = e.field /\ row.value = ValueOf(e)
  BY DEF ReviewRow
<1> HIDE DEF row
<1>4. e \in matchEntries(entries, row)
  BY <1>3 DEF matchEntries, ValueOf
<1>5. ASSUME NEW o \in matchEntries(entries, row)
      PROVE  o = e
  <2>1. o \in entries /\ TakenFor(e, o)
    BY <1>3 DEF matchEntries, TakenFor
  <2>2. PICK w \in records : o = EntryOf(w, records)
    BY <1>1, <2>1
  <2>3. TakenFor(v, w)
    BY <1>2, <2>1, <2>2 DEF TakenFor, EntryOf, ValueOf
  <2>4. IsOneOf(v, Given(metadata, mappings)) /\ IsOneOf(w, Given(metadata, mappings))
    BY <1>2, <2>2, VariationsAreOne DEF records
  <2>5. QED BY <1>2, <2>2, <2>3, <2>4, TakenForItself, EntryByCoordinates
<1>6. QED BY <1>4, <1>5 DEF row

LEMMA AddressableStep ==
  ASSUME EveryEntryIsAddressable, [Next]_vars
  PROVE  EveryEntryIsAddressable'
<1>1. CASE UNCHANGED reportFile
  BY <1>1 DEF EveryEntryIsAddressable, matchEntries, ReviewRow
<1>2. ASSUME NEW addressed \in BOOLEAN, FindVariations(addressed)
      PROVE  EveryEntryIsAddressable'
  <2>1. PICK entries :
          /\ provider \in Reviewed
          /\ entries = prepareResults(Variation(provider, store), CurrentMajor)
          /\ reportFile' = reportFile \/ reportFile' = written(addressed, entries)
    BY <1>2 DEF FindVariations, mayRun
  <2>2. CASE reportFile' = reportFile
    BY <1>1, <2>2
  <2>3. CASE reportFile' = [addressed |-> addressed, marks |-> [e \in entries |-> Unmarked]]
    <3>1. DOMAIN reportFile'.marks = entries
      BY <2>3
    <3>2. \A e \in entries : matchEntries(entries, ReviewRow(e, Unmarked)) = {e}
      BY <2>1, ReportsAreAddressable
    <3>3. QED BY <3>1, <3>2 DEF EveryEntryIsAddressable
  <2>4. QED BY <2>1, <2>2, <2>3 DEF written
<1>3. CASE \E dryRun \in BOOLEAN : SubmitVariationsReport(dryRun)
  BY <1>1, <1>3 DEF SubmitVariationsReport
<1>4. CASE Decide
  BY <1>1, <1>4 DEF Decide, SubmitVariationDecisions
<1>5. CASE \E items \in UpdateSheets, size \in ChunkSizes, flags \in UpdateFlags, token \in BOOLEAN :
             StartUpdate(items, size, flags, token)
  BY <1>1, <1>5 DEF StartUpdate
<1>6. CASE UpdateChunk \/ UpdateEnds
  BY <1>1, <1>6 DEF UpdateChunk, UpdateEnds
<1>7. CASE OtherUser \/ ProviderChanges
  BY <1>1, <1>7 DEF OtherUser, ProviderChanges
<1>8. CASE UNCHANGED vars
  BY <1>1, <1>8 DEF vars
<1>9. QED BY <1>2, <1>3, <1>4, <1>5, <1>6, <1>7, <1>8 DEF Next

(* A sheet can speak of every entry of a report alone, whatever the        *)
(* metadata and the mappings the report was made of: of an element the     *)
(* walk reports the resource, or the field, or its values, which are of    *)
(* one kind.                                                               *)
THEOREM EntriesAddressable == Spec => []EveryEntryIsAddressable
<1>1. Init => EveryEntryIsAddressable
  BY DEF Init, EveryEntryIsAddressable
<1>2. EveryEntryIsAddressable /\ [Next]_vars => EveryEntryIsAddressable'
  BY AddressableStep
<1>3. QED BY <1>1, <1>2, PTL DEF Spec

-----------------------------------------------------------------------------
(* What a sheet asks for. *)

(* The rows kept of the first ones of a sheet.                             *)
KeptOf(items, kept) ==
  kept = [i \in 0..Len(items) |->
           IF i = 0 THEN <<>>
           ELSE IF asksNothing(items[i]) THEN kept[i - 1] ELSE Append(kept[i - 1], items[i])]

LEMMA KeptExists ==
  ASSUME NEW items, Len(items) \in Nat
  PROVE  \E kept : KeptOf(items, kept)
<1> DEFINE upTo(n, g) ==
             g = [i \in 0..n |->
                   IF i = 0 THEN <<>>
                   ELSE IF asksNothing(items[i]) THEN g[i - 1] ELSE Append(g[i - 1], items[i])]
           without == {n \in Nat : ~\E g : upTo(n, g)}
<1>1. SUFFICES ASSUME without # {} PROVE FALSE
  <2>1. \E g : upTo(Len(items), g)
    BY <1>1
  <2>2. QED BY <2>1 DEF KeptOf
<1>2. PICK n \in without : \A m \in without : n <= m
  BY <1>1, LeastExists
<1>3. n # 0
  <2>1. upTo(0, [i \in 0..0 |-> <<>>])
    OBVIOUS
  <2>2. QED BY <1>2, <2>1
<1>4. n \in Nat /\ n - 1 \in Nat /\ n - 1 \notin without
  <2>1. n \in Nat
    OBVIOUS
  <2> HIDE DEF without
  <2>2. QED BY <1>2, <1>3, <2>1
<1>5. PICK g : upTo(n - 1, g)
  BY <1>4
<1> DEFINE step == IF asksNothing(items[n]) THEN g[n - 1] ELSE Append(g[n - 1], items[n])
           h == [i \in 0..n |-> IF i = n THEN step ELSE g[i]]
<1>6. upTo(n, h)
  <2> HIDE DEF step
  <2>1. \A i \in 0..n : i # n => i \in 0..n - 1
    BY <1>4
  <2>2. \A i \in 0..n : i # 0 => i - 1 \in 0..n - 1 /\ i - 1 \in 0..n /\ i - 1 # n
    BY <1>4
  <2>3. ASSUME NEW i \in 0..n
        PROVE  h[i] = IF i = 0 THEN <<>>
                      ELSE IF asksNothing(items[i]) THEN h[i - 1] ELSE Append(h[i - 1], items[i])
    <3>1. CASE i = n
      <4>1. h[i - 1] = g[n - 1]
        BY <1>3, <2>2, <3>1
      <4>2. h[i] = step
        BY <3>1
      <4>3. QED BY <1>3, <3>1, <4>1, <4>2 DEF step
    <3>2. CASE i # n
      <4>1. h[i] = g[i] /\ i \in 0..n - 1
        BY <2>1, <3>2
      <4>2. i # 0 => h[i - 1] = g[i - 1]
        BY <2>2
      <4>3. g[i] = IF i = 0 THEN <<>>
                   ELSE IF asksNothing(items[i]) THEN g[i - 1] ELSE Append(g[i - 1], items[i])
        <5> HIDE DEF h
        <5>1. QED BY <1>5, <4>1
      <4>4. QED BY <4>1, <4>2, <4>3
    <3>3. QED BY <3>1, <3>2
  <2>4. h = [i \in 0..n |-> h[i]]
    OBVIOUS
  <2> HIDE DEF h
  <2>5. QED BY <2>3, <2>4
<1>7. QED BY <1>2, <1>6

LEMMA AskingIsKept ==
  ASSUME NEW items, Len(items) \in Nat
  PROVE  \E kept : KeptOf(items, kept) /\ asking(items) = kept[Len(items)]
<1>1. KeptOf(items, CHOOSE kept : KeptOf(items, kept))
  BY KeptExists
<1>2. asking(items) = (CHOOSE kept : KeptOf(items, kept))[Len(items)]
  BY DEF asking, KeptOf
<1>3. QED BY <1>1, <1>2

(* A sheet's rows that ask for something are kept, and no others.          *)
LEMMA AskingRows ==
  ASSUME NEW items, Len(items) \in Nat
  PROVE  /\ Len(asking(items)) \in Nat
         /\ \A j \in 1..Len(asking(items)) :
              \E i \in 1..Len(items) : ~asksNothing(items[i]) /\ asking(items)[j] = items[i]
         /\ \A i \in 1..Len(items) :
              ~asksNothing(items[i]) => \E j \in 1..Len(asking(items)) : asking(items)[j] = items[i]
<1> DEFINE n == Len(items)
           wanted == {i \in 1..n : ~asksNothing(items[i])}
           T == {items[i] : i \in wanted}
<1>1. PICK kept : KeptOf(items, kept) /\ asking(items) = kept[n]
  BY AskingIsKept
<1> DEFINE good(m) == /\ kept[m] \in Seq(T)
                      /\ \A i \in wanted : i <= m => \E j \in 1..Len(kept[m]) : kept[m][j] = items[i]
           bad == {m \in Nat : m <= n /\ ~good(m)}
<1>2. kept[0] = <<>>
  BY <1>1 DEF KeptOf
<1>3. ASSUME NEW m \in 1..n
      PROVE  kept[m] = IF asksNothing(items[m]) THEN kept[m - 1] ELSE Append(kept[m - 1], items[m])
  <2>1. m \in 0..n /\ m # 0
    OBVIOUS
  <2>2. QED BY <1>1, <2>1 DEF KeptOf
<1>4. good(0)
  BY <1>2
<1>5. ASSUME NEW m \in 1..n, good(m - 1)
      PROVE  good(m)
  <2>1. CASE asksNothing(items[m])
    <3>1. kept[m] = kept[m - 1]
      BY <1>3, <2>1
    <3>2. ASSUME NEW i \in wanted, i <= m
          PROVE  \E j \in 1..Len(kept[m]) : kept[m][j] = items[i]
      <4>1. i # m /\ i <= m - 1
        BY <2>1, <3>2
      <4>2. QED BY <1>5, <3>1, <4>1
    <3>3. QED BY <1>5, <3>1, <3>2
  <2>2. CASE ~asksNothing(items[m])
    <3>1. kept[m] = Append(kept[m - 1], items[m])
      BY <1>3, <2>2
    <3>2. items[m] \in T
      BY <2>2
    <3> HIDE DEF T
    <3>3. PICK s \in Seq(T) : s = kept[m - 1]
      BY <1>5
    <3>4. Len(s) \in Nat /\ kept[m] \in Seq(T) /\ Len(kept[m]) = Len(s) + 1
      BY <3>1, <3>2, <3>3
    <3>5. \A j \in 1..Len(s) : kept[m][j] = s[j]
      BY <3>1, <3>2, <3>3
    <3>6. kept[m][Len(s) + 1] = items[m]
      BY <3>1, <3>2, <3>3
    <3>7. ASSUME NEW i \in wanted, i <= m
          PROVE  \E j \in 1..Len(kept[m]) : kept[m][j] = items[i]
      <4>1. CASE i = m
        BY <3>4, <3>6, <4>1
      <4>2. CASE i # m
        <5>1. i <= m - 1
          BY <3>7, <4>2
        <5>2. PICK j \in 1..Len(s) : s[j] = items[i]
          BY <1>5, <3>3, <5>1
        <5>3. j \in 1..Len(kept[m])
          BY <3>4
        <5>4. QED BY <3>5, <5>2, <5>3
      <4>3. QED BY <4>1, <4>2
    <3>8. QED BY <3>4, <3>7
  <2>3. QED BY <2>1, <2>2
<1> HIDE DEF good
<1>6. good(n)
  <2>1. SUFFICES ASSUME bad # {} PROVE FALSE
    OBVIOUS
  <2>2. PICK m \in bad : \A o \in bad : m <= o
    BY <2>1, LeastExists
  <2>3. m \in Nat /\ m <= n /\ ~good(m)
    OBVIOUS
  <2>4. m \in 1..n /\ m - 1 \in Nat /\ m - 1 <= n
    BY <1>4, <2>3
  <2>5. m - 1 \notin bad
    <3> HIDE DEF bad
    <3>1. QED BY <2>2, <2>3
  <2>6. good(m - 1)
    BY <2>4, <2>5
  <2>7. QED BY <1>5, <2>3, <2>4, <2>6
<1>7. asking(items) \in Seq(T) /\ \A i \in wanted : \E j \in 1..Len(asking(items)) : asking(items)[j] = items[i]
  <2>1. \A i \in wanted : i <= n
    OBVIOUS
  <2>2. QED BY <1>1, <1>6, <2>1 DEF good
<1>8. Len(asking(items)) \in Nat /\ \A j \in 1..Len(asking(items)) : asking(items)[j] \in T
  <2> HIDE DEF T
  <2>1. QED BY <1>7
<1>9. QED BY <1>7, <1>8

(* A row taken up names one entry, of which it has its say: what was asked *)
(* of the entry before still holds, and what is asked of it was asked.     *)
Edited(state, entries) ==
  /\ state = [edits |-> state.edits, wrong |-> state.wrong]
  /\ state.edits = [e \in entries |-> state.edits[e]]
  /\ state.wrong \in BOOLEAN

Extends(new, old, row) ==
  /\ old.action \in {None, new.action}
  /\ old.target \in {None, new.target}
  /\ old.comments \subseteq new.comments
  /\ row.action \in {None, new.action}
  /\ mappingFrom(row) \in {None, new.target}
  /\ row.comment \in new.comments \cup {None}
  /\ new.action \in {old.action, row.action}
  /\ new.target \in {old.target, mappingFrom(row)}

LEMMA RowTakenUp ==
  ASSUME NEW entries, NEW state, Edited(state, entries), NEW row, ~asksNothing(row)
  PROVE  /\ Edited(ApplyRow(state, row), entries)
         /\ ~ApplyRow(state, row).wrong =>
              /\ ~state.wrong
              /\ \E e \in entries :
                   /\ matchEntries(entries, row) = {e}
                   /\ Extends(ApplyRow(state, row).edits[e], state.edits[e], row)
                   /\ \A o \in entries : o # e => ApplyRow(state, row).edits[o] = state.edits[o]
<1> DEFINE new == ApplyRow(state, row)
           matched == matchEntries(DOMAIN state.edits, row)
           mapping == mappingFrom(row)
           refused == [state EXCEPT !.wrong = TRUE]
           entry == CHOOSE e \in matched : TRUE
           existing == state.edits[entry]
           clash == \/ None \notin {row.action, existing.action} /\ row.action # existing.action
                    \/ None \notin {mapping, existing.target} /\ mapping # existing.target
           edit == [action |-> IF row.action # None THEN row.action ELSE existing.action,
                    target |-> IF mapping # None THEN mapping ELSE existing.target,
                    comments |-> existing.comments \cup ({row.comment} \ {None})]
<1>1. DOMAIN state.edits = entries
  BY DEF Edited
<1>2. new = refused \/ (~unusable(matched) /\ ~clash /\ new = [state EXCEPT !.edits[entry] = edit])
  <2>1. new = IF row.action \notin Actions \cup {None} \/ depthMismatch(row) THEN refused
              ELSE IF asksNothing(row) /\ mapping = None THEN state
              ELSE IF unusable(matched) THEN refused
              ELSE IF clash THEN refused ELSE [state EXCEPT !.edits[entry] = edit]
    BY Zenon DEF ApplyRow
  <2> HIDE DEF new, matched, mapping, refused, clash, entry, edit
  <2>2. QED BY <2>1
<1>3. refused.wrong /\ Edited(refused, entries)
  <2>1. refused = [edits |-> state.edits, wrong |-> TRUE]
    <3>1. PICK x, y : state = [edits |-> x, wrong |-> y]
      BY DEF Edited
    <3>2. x = state.edits
      BY <3>1
    <3>3. \A z : [[edits |-> x, wrong |-> y] EXCEPT !.wrong = z] = [edits |-> x, wrong |-> z]
      OBVIOUS
    <3>4. refused = [[edits |-> x, wrong |-> y] EXCEPT !.wrong = TRUE]
      BY <3>1
    <3>5. QED BY <3>2, <3>3, <3>4
  <2> HIDE DEF refused
  <2>2. QED BY <2>1 DEF Edited
<1>4. ASSUME ~unusable(matched), ~clash, new = [state EXCEPT !.edits[entry] = edit]
      PROVE  /\ Edited(new, entries)
             /\ new.wrong = state.wrong
             /\ entry \in entries /\ matched = {entry}
             /\ Extends(new.edits[entry], existing, row)
             /\ \A o \in entries : o # entry => new.edits[o] = state.edits[o]
  <2>1. matched = {entry} /\ entry \in entries
    BY <1>1, <1>4 DEF unusable, matchEntries
  <2> HIDE DEF new, edit, entry
  <2>2. /\ new = [edits |-> [state.edits EXCEPT ![entry] = edit], wrong |-> state.wrong]
    BY <1>4 DEF Edited
  <2>3. new.edits[entry] = edit /\ new.wrong = state.wrong
    BY <1>1, <2>1, <2>2
  <2>4. \A o \in entries : o # entry => new.edits[o] = state.edits[o]
    BY <1>1, <2>2
  <2>5. Edited(new, entries)
    BY <1>1, <2>2 DEF Edited
  <2>6. Extends(edit, existing, row)
    BY <1>4 DEF Extends, edit
  <2>7. QED BY <2>1, <2>3, <2>4, <2>5, <2>6
<1> HIDE DEF new, refused, edit, entry, clash
<1>5. CASE new = refused
  BY <1>3, <1>5 DEF new
<1>6. CASE ~unusable(matched) /\ ~clash /\ new = [state EXCEPT !.edits[entry] = edit]
  BY <1>1, <1>4, <1>6 DEF new
<1>7. QED BY <1>2, <1>5, <1>6

(* The edits after each row.                                               *)
Unedited(entries) == [edits |-> [e \in entries |-> NoEdit], wrong |-> FALSE]

EditsOf(entries, rows, after) ==
  after = [i \in 0..Len(rows) |-> IF i = 0 THEN Unedited(entries) ELSE ApplyRow(after[i - 1], rows[i])]

LEMMA EditsExist ==
  ASSUME NEW entries, NEW rows, Len(rows) \in Nat
  PROVE  \E after : EditsOf(entries, rows, after)
<1> DEFINE upTo(n, g) == g = [i \in 0..n |-> IF i = 0 THEN Unedited(entries) ELSE ApplyRow(g[i - 1], rows[i])]
           without == {n \in Nat : ~\E g : upTo(n, g)}
<1>1. SUFFICES ASSUME without # {} PROVE FALSE
  <2>1. \E g : upTo(Len(rows), g)
    BY <1>1
  <2>2. QED BY <2>1 DEF EditsOf
<1>2. PICK n \in without : \A m \in without : n <= m
  BY <1>1, LeastExists
<1>3. n # 0
  <2>1. upTo(0, [i \in 0..0 |-> Unedited(entries)])
    OBVIOUS
  <2>2. QED BY <1>2, <2>1
<1>4. n \in Nat /\ n - 1 \in Nat /\ n - 1 \notin without
  <2>1. n \in Nat
    OBVIOUS
  <2> HIDE DEF without
  <2>2. QED BY <1>2, <1>3, <2>1
<1>5. PICK g : upTo(n - 1, g)
  BY <1>4
<1> DEFINE step == ApplyRow(g[n - 1], rows[n])
           h == [i \in 0..n |-> IF i = n THEN step ELSE g[i]]
<1>6. upTo(n, h)
  <2> HIDE DEF step
  <2>1. \A i \in 0..n : i # n => i \in 0..n - 1
    BY <1>4
  <2>2. \A i \in 0..n : i # 0 => i - 1 \in 0..n - 1 /\ i - 1 \in 0..n /\ i - 1 # n
    BY <1>4
  <2>3. ASSUME NEW i \in 0..n
        PROVE  h[i] = IF i = 0 THEN Unedited(entries) ELSE ApplyRow(h[i - 1], rows[i])
    <3>1. CASE i = n
      <4>1. h[i - 1] = g[n - 1]
        BY <1>3, <2>2, <3>1
      <4>2. h[i] = step
        BY <3>1
      <4>3. QED BY <1>3, <3>1, <4>1, <4>2 DEF step
    <3>2. CASE i # n
      <4>1. h[i] = g[i] /\ i \in 0..n - 1
        BY <2>1, <3>2
      <4>2. i # 0 => h[i - 1] = g[i - 1]
        BY <2>2
      <4>3. g[i] = IF i = 0 THEN Unedited(entries) ELSE ApplyRow(g[i - 1], rows[i])
        <5> HIDE DEF h
        <5>1. QED BY <1>5, <4>1
      <4>4. QED BY <4>1, <4>2, <4>3
    <3>3. QED BY <3>1, <3>2
  <2>4. h = [i \in 0..n |-> h[i]]
    OBVIOUS
  <2> HIDE DEF h
  <2>5. QED BY <2>3, <2>4
<1>7. QED BY <1>2, <1>6

LEMMA EditsAreLast ==
  ASSUME NEW entries, NEW rows, Len(rows) \in Nat
  PROVE  \E after : EditsOf(entries, rows, after) /\ Edits(entries, rows) = after[Len(rows)]
<1>1. EditsOf(entries, rows, CHOOSE after : EditsOf(entries, rows, after))
  BY EditsExist
<1>2. Edits(entries, rows) = (CHOOSE after : EditsOf(entries, rows, after))[Len(rows)]
  BY DEF Edits, EditsOf, Unedited
<1>3. QED BY <1>1, <1>2

(* A sheet with nothing wrong: each row is heard, and an entry has the     *)
(* action of a row that names it, and the target of a row.                 *)
Heard(edit, row) ==
  /\ row.action \in {None, edit.action}
  /\ mappingFrom(row) \in {None, edit.target}
  /\ row.comment \in edit.comments \cup {None}

HeardUpTo(n, state, entries, rows) ==
  /\ \A j \in 1..n : \E e \in entries : matchEntries(entries, rows[j]) = {e} /\ Heard(state.edits[e], rows[j])
  /\ \A e \in entries : state.edits[e].action # None =>
       \E j \in 1..n : matchEntries(entries, rows[j]) = {e} /\ rows[j].action = state.edits[e].action
  /\ \A e \in entries : state.edits[e].target # None => \E j \in 1..n : mappingFrom(rows[j]) = state.edits[e].target

LEMMA NextRowHeard ==
  ASSUME NEW entries, NEW rows, NEW n \in Nat \ {0}, NEW state, Edited(state, entries),
         ~asksNothing(rows[n]), ~ApplyRow(state, rows[n]).wrong,
         HeardUpTo(n - 1, state, entries, rows)
  PROVE  HeardUpTo(n, ApplyRow(state, rows[n]), entries, rows)
<1> DEFINE row == rows[n]
           new == ApplyRow(state, row)
<1>1. PICK e \in entries :
        /\ matchEntries(entries, row) = {e}
        /\ Extends(new.edits[e], state.edits[e], row)
        /\ \A o \in entries : o # e => new.edits[o] = state.edits[o]
  BY RowTakenUp
<1> HIDE DEF new
<1>2. \A o \in entries : \A r : Heard(state.edits[o], r) => Heard(new.edits[o], r)
  <2>1. \A r : Heard(state.edits[e], r) => Heard(new.edits[e], r)
    BY <1>1 DEF Heard, Extends
  <2>2. QED BY <1>1, <2>1
<1>3. Heard(new.edits[e], row)
  BY <1>1 DEF Heard, Extends
<1>4. \A j \in 1..n : j = n \/ j \in 1..n - 1
  OBVIOUS
<1>5. ASSUME NEW j \in 1..n
      PROVE  \E o \in entries : matchEntries(entries, rows[j]) = {o} /\ Heard(new.edits[o], rows[j])
  <2>1. CASE j = n
    BY <1>1, <1>3, <2>1
  <2>2. CASE j \in 1..n - 1
    <3>1. PICK o \in entries : matchEntries(entries, rows[j]) = {o} /\ Heard(state.edits[o], rows[j])
      BY <2>2 DEF HeardUpTo
    <3>2. QED BY <1>2, <3>1
  <2>3. QED BY <1>4, <2>1, <2>2
<1>6. ASSUME NEW o \in entries, new.edits[o].action # None
      PROVE  \E j \in 1..n : matchEntries(entries, rows[j]) = {o} /\ rows[j].action = new.edits[o].action
  <2>1. CASE o = e /\ new.edits[o].action = row.action
    <3>1. n \in 1..n
      OBVIOUS
    <3>2. QED BY <1>1, <2>1, <3>1
  <2>2. CASE new.edits[o].action = state.edits[o].action
    <3>1. PICK j \in 1..n - 1 : matchEntries(entries, rows[j]) = {o} /\ rows[j].action = state.edits[o].action
      BY <1>6, <2>2 DEF HeardUpTo
    <3>2. j \in 1..n
      OBVIOUS
    <3>3. QED BY <2>2, <3>1, <3>2
  <2>3. QED BY <1>1, <2>1, <2>2 DEF Extends
<1>7. ASSUME NEW o \in entries, new.edits[o].target # None
      PROVE  \E j \in 1..n : mappingFrom(rows[j]) = new.edits[o].target
  <2>1. CASE o = e /\ new.edits[o].target = mappingFrom(row)
    <3>1. n \in 1..n
      OBVIOUS
    <3>2. QED BY <2>1, <3>1
  <2>2. CASE new.edits[o].target = state.edits[o].target
    <3>1. PICK j \in 1..n - 1 : mappingFrom(rows[j]) = state.edits[o].target
      BY <1>7, <2>2 DEF HeardUpTo
    <3>2. j \in 1..n
      OBVIOUS
    <3>3. QED BY <2>2, <3>1, <3>2
  <2>3. QED BY <1>1, <2>1, <2>2 DEF Extends
<1>8. QED BY <1>5, <1>6, <1>7 DEF HeardUpTo, new

LEMMA SheetHeard ==
  ASSUME NEW entries, NEW rows, Len(rows) \in Nat, \A j \in 1..Len(rows) : ~asksNothing(rows[j]),
         ~Edits(entries, rows).wrong
  PROVE  HeardUpTo(Len(rows), Edits(entries, rows), entries, rows)
<1> DEFINE n == Len(rows)
<1>1. PICK after : EditsOf(entries, rows, after) /\ Edits(entries, rows) = after[n]
  BY EditsAreLast
<1> DEFINE good(m) == /\ Edited(after[m], entries)
                      /\ ~after[m].wrong => HeardUpTo(m, after[m], entries, rows)
           bad == {m \in Nat : m <= n /\ ~good(m)}
<1>2. after[0] = Unedited(entries)
  BY <1>1 DEF EditsOf
<1>3. ASSUME NEW m \in 1..n
      PROVE  after[m] = ApplyRow(after[m - 1], rows[m])
  <2>1. m \in 0..n /\ m # 0
    OBVIOUS
  <2>2. QED BY <1>1, <2>1 DEF EditsOf
<1>4. good(0)
  <2>1. Edited(Unedited(entries), entries)
    BY DEF Edited, Unedited
  <2>2. HeardUpTo(0, Unedited(entries), entries, rows)
    BY DEF HeardUpTo, Unedited, NoEdit
  <2>3. QED BY <1>2, <2>1, <2>2
<1>5. ASSUME NEW m \in 1..n, good(m - 1)
      PROVE  good(m)
  <2>1. after[m] = ApplyRow(after[m - 1], rows[m]) /\ ~asksNothing(rows[m])
    BY <1>3
  <2>2. /\ Edited(after[m], entries)
        /\ ~after[m].wrong => ~after[m - 1].wrong
    BY <1>5, <2>1, RowTakenUp
  <2>3. ASSUME ~after[m].wrong PROVE HeardUpTo(m, after[m], entries, rows)
    <3>1. HeardUpTo(m - 1, after[m - 1], entries, rows)
      BY <1>5, <2>2, <2>3
    <3>2. m \in Nat \ {0}
      OBVIOUS
    <3>3. QED BY <1>5, <2>1, <2>3, <3>1, <3>2, NextRowHeard
  <2>4. QED BY <2>2, <2>3
<1> HIDE DEF good
<1>6. good(n)
  <2>1. SUFFICES ASSUME bad # {} PROVE FALSE
    OBVIOUS
  <2>2. PICK m \in bad : \A o \in bad : m <= o
    BY <2>1, LeastExists
  <2>3. m \in Nat /\ m <= n /\ ~good(m)
    OBVIOUS
  <2>4. m \in 1..n /\ m - 1 \in Nat /\ m - 1 <= n
    BY <1>4, <2>3
  <2>5. m - 1 \notin bad
    <3> HIDE DEF bad
    <3>1. QED BY <2>2, <2>3
  <2>6. good(m - 1)
    BY <2>4, <2>5
  <2>7. QED BY <1>5, <2>3, <2>4, <2>6
<1>7. QED BY <1>1, <1>6 DEF good

-----------------------------------------------------------------------------
(* What comes of a sheet that was submitted.  A sheet is a sequence of     *)
(* rows, of six columns each; the target has three of its own.  What is    *)
(* absent is not a target.                                                 *)
IsTarget(t) == t = [resource |-> t.resource, field |-> t.field, value |-> t.value]

IsRow(row) ==
  /\ row = [resource |-> row.resource, field |-> row.field, value |-> row.value,
            action |-> row.action, comment |-> row.comment, target |-> row.target]
  /\ IsTarget(row.target)

WellMade(sheet) ==
  /\ sheet.rows \in Seq({sheet.rows[i] : i \in DOMAIN sheet.rows})
  /\ \A i \in DOMAIN sheet.rows : IsRow(sheet.rows[i])

SheetsAreMadeOfRows ==
  /\ \A rows : (\A row \in rows : IsRow(row)) => \A sheet \in Sheets(rows) : WellMade(sheet)
  /\ \A t : IsTarget(t) => t # None

(* A report is written with nothing asked yet; what the service holds has  *)
(* the target of a row.                                                    *)
ReportInv ==
  reportFile # None =>
    \E addressed, entries : reportFile = [addressed |-> addressed, marks |-> [e \in entries |-> Unmarked]]

PoolInv == \A e \in DOMAIN pool : pool[e].target # None => IsTarget(pool[e].target)

LEMMA RowsAtHandAreRows ==
  ASSUME PoolInv, NEW row \in RowsAtHand
  PROVE  IsRow(row)
<1>1. IsTarget(NoTarget)
  BY DEF IsTarget, NoTarget
<1>2. CASE row \in ReviewRows
  <2>1. PICK e \in DOMAIN pool : row = ReviewRow(e, pool[e])
    BY <1>2 DEF ReviewRows
  <2>2. IsTarget(TargetOf(e, pool[e]))
    <3>1. CASE pool[e].target # None
      BY <3>1 DEF TargetOf, PoolInv
    <3>2. CASE pool[e].target = None
      BY <1>1, <3>2 DEF TargetOf, IsTarget
    <3>3. QED BY <3>1, <3>2
  <2>3. QED BY <2>1, <2>2 DEF IsRow, ReviewRow
<1>3. CASE row \in {[ReviewRow(e, Unmarked) EXCEPT !.target = NoTarget] : e \in DOMAIN reportFile.marks}
  BY <1>1, <1>3 DEF IsRow, ReviewRow
<1>4. QED BY <1>2, <1>3 DEF RowsAtHand

(* The rows of a sheet that is taken up are what was asked for.            *)
Items(sheet) == [i \in DOMAIN sheet.rows |-> ParsedRow(sheet, sheet.rows[i])]

LEMMA AskedIsKept ==
  ASSUME NEW sheet, WellMade(sheet)
  PROVE  /\ Len(asking(Items(sheet))) \in Nat
         /\ \A row : row \in Asked(sheet) <=> \E j \in 1..Len(asking(Items(sheet))) : row = asking(Items(sheet))[j]
         /\ \A row \in Asked(sheet) : ~asksNothing(row) /\ IsTarget(row.target)
<1> DEFINE items == Items(sheet)
           n == Len(sheet.rows)
<1>1. n \in Nat /\ DOMAIN sheet.rows = 1..n
  BY DEF WellMade
<1>2. items = [i \in 1..n |-> ParsedRow(sheet, sheet.rows[i])] /\ Len(items) = n
  BY <1>1 DEF Items
<1>3. ASSUME NEW i \in 1..n
      PROVE  LET row == sheet.rows[i] IN
             /\ ParsedRow(sheet, row) =
                  [row EXCEPT !.action = IF "Action" \in sheet.columns THEN @ ELSE None,
                              !.comment = IF {"Comment", "Comments"} \cap sheet.columns # {} THEN @ ELSE None]
             /\ IsTarget(ParsedRow(sheet, row).target)
  <2>1. IsRow(sheet.rows[i])
    BY <1>1 DEF WellMade
  <2>2. "Action" \in sheet.columns <=> {"Action"} \cap sheet.columns # {}
    OBVIOUS
  <2>3. QED BY <2>1, <2>2 DEF ParsedRow, Cell, IsRow
<1> DEFINE heard(row) ==
             [row EXCEPT !.action = IF "Action" \in sheet.columns THEN @ ELSE None,
                         !.comment = IF {"Comment", "Comments"} \cap sheet.columns # {} THEN @ ELSE None]
<1>4. Asked(sheet) = {row \in {items[i] : i \in 1..n} : ~asksNothing(row)}
  <2>1. \A i \in 1..n : items[i] = heard(sheet.rows[i])
    BY <1>2, <1>3
  <2>2. Asked(sheet) = {row \in {heard(r) : r \in {sheet.rows[i] : i \in 1..n}} : <<row.action, row.comment>> # <<None, None>>}
    BY <1>1 DEF Asked
  <2> HIDE DEF items, heard
  <2>3. {heard(r) : r \in {sheet.rows[i] : i \in 1..n}} = {items[i] : i \in 1..n}
    BY <2>1
  <2>4. \A row : asksNothing(row) <=> <<row.action, row.comment>> = <<None, None>>
    BY DEF asksNothing
  <2>5. QED BY <2>2, <2>3, <2>4
<1>5. \A i \in 1..n : IsTarget(items[i].target)
  BY <1>2, <1>3
<1> HIDE DEF items
<1>6. \A row \in Asked(sheet) : ~asksNothing(row) /\ IsTarget(row.target)
  BY <1>4, <1>5
<1> DEFINE kept == asking(items)
<1>7. /\ Len(kept) \in Nat
      /\ \A j \in 1..Len(kept) : \E i \in 1..n : ~asksNothing(items[i]) /\ kept[j] = items[i]
      /\ \A i \in 1..n : ~asksNothing(items[i]) => \E j \in 1..Len(kept) : kept[j] = items[i]
  <2>1. Len(items) \in Nat /\ Len(items) = n
    BY <1>1, <1>2
  <2> HIDE DEF n
  <2>2. QED BY <2>1, AskingRows, Zenon
<1> HIDE DEF kept
<1>8. ASSUME NEW row
      PROVE  row \in Asked(sheet) <=> \E j \in 1..Len(kept) : row = kept[j]
  <2>1. row \in Asked(sheet) <=> ~asksNothing(row) /\ \E i \in 1..n : row = items[i]
    BY <1>4
  <2>2. QED BY <1>7, <2>1, Zenon
<1>9. QED BY <1>6, <1>7, <1>8 DEF items, kept

(* Decisions that reach the pool: nothing was wrong with the sheet, and    *)
(* the service holds what the edits say.                                   *)
Holds(held, edit, thread) ==
  /\ held.actions = {edit.action} \ {None}
  /\ held.target = edit.target
  /\ held.thread = edit.comments \cup thread

LEMMA DecisionsReachPool ==
  ASSUME ReportInv, reportFile # None, NEW sheet, NEW preview, SubmitVariationDecisions(sheet, preview), pool' # pool,
         NEW entries, entries = DOMAIN reportFile.marks, NEW rows, rows = asking(Items(sheet)),
         NEW result, result = Edits(entries, rows)
  PROVE  /\ ~result.wrong
         /\ last'.sheet = sheet
         /\ DOMAIN pool' = entries
         /\ \A e \in entries :
              Holds(pool'[e], result.edits[e], IF e \in DOMAIN pool THEN pool[e].thread ELSE {})
<1>1. PICK given : /\ given = parseDecisionsCsv(sheet)
                   /\ given # None
                   /\ \E marked : /\ marked = applySheetToReport(reportFile, given)
                                  /\ marked # None
                                  /\ Submit("decisions", marked, sheet)
  BY Zenon DEF SubmitVariationDecisions
<1>2. given = rows
  BY <1>1 DEF parseDecisionsCsv, Items
<1>3. PICK marked : /\ marked = applySheetToReport(reportFile, rows)
                    /\ marked # None
                    /\ Submit("decisions", marked, sheet)
  BY <1>1, <1>2
<1>4. PICK addressed, found : reportFile = [addressed |-> addressed, marks |-> [e \in found |-> Unmarked]]
  BY DEF ReportInv
<1>5. found = entries /\ \A e \in entries : reportFile.marks[e] = Unmarked
  BY <1>4
<1>6. /\ ~result.wrong
      /\ marked = [reportFile EXCEPT !.marks =
                     [e \in entries |-> MarkedBy(reportFile.marks[e], result.edits[e])]]
  BY <1>3 DEF applySheetToReport
<1>7. marked.marks = [e \in entries |-> MarkedBy(Unmarked, result.edits[e])]
  BY <1>4, <1>5, <1>6
<1>8. pool' = Stored(marked.marks) /\ last'.sheet = sheet
  BY <1>3 DEF Submit, ends
<1>9. DOMAIN pool' = entries
  BY <1>7, <1>8 DEF Stored
<1>10. ASSUME NEW e \in entries
       PROVE  Holds(pool'[e], result.edits[e], IF e \in DOMAIN pool THEN pool[e].thread ELSE {})
  <2>1. pool'[e] = [MarkedBy(Unmarked, result.edits[e]) EXCEPT
                      !.thread = @ \cup (IF e \in DOMAIN pool THEN pool[e].thread ELSE {})]
    BY <1>7, <1>8 DEF Stored
  <2>2. QED BY <2>1 DEF Holds, MarkedBy, Unmarked
<1>11. QED BY <1>6, <1>8, <1>9, <1>10

TakenUp(asked, entries) ==
  /\ DOMAIN pool' = entries
  /\ \A e \in entries : pool'[e].target # None => IsTarget(pool'[e].target)
  /\ \A row \in asked : \E e \in entries :
       /\ {o \in entries : Names(row, o)} = {e}
       /\ row.action \in pool'[e].actions \cup {None}
       /\ row.comment \in pool'[e].thread \cup {None}
       /\ row.target \in {NoTarget, pool'[e].target}
  /\ \A e \in entries :
       /\ \A a \in pool'[e].actions : \E row \in asked : Names(row, e) /\ row.action = a
       /\ \E a : pool'[e].actions \subseteq {a}
       /\ e \in DOMAIN pool => pool[e].thread \subseteq pool'[e].thread

LEMMA SheetLands ==
  ASSUME SheetsAreMadeOfRows, ReportInv, reportFile # None, NEW sheet, WellMade(sheet), NEW preview,
         SubmitVariationDecisions(sheet, preview), pool' # pool,
         NEW entries, entries = DOMAIN reportFile.marks
  PROVE  last'.sheet = sheet /\ TakenUp(Asked(sheet), entries)
<1> DEFINE rows == asking(Items(sheet))
           result == Edits(entries, rows)
           asked == Asked(sheet)
           threads(e) == IF e \in DOMAIN pool THEN pool[e].thread ELSE {}
<1>1. /\ ~result.wrong /\ last'.sheet = sheet /\ DOMAIN pool' = entries
      /\ \A e \in entries : Holds(pool'[e], result.edits[e], threads(e))
  BY DecisionsReachPool
<1>2. /\ Len(rows) \in Nat
      /\ \A row : row \in asked <=> \E j \in 1..Len(rows) : row = rows[j]
      /\ \A row \in asked : ~asksNothing(row) /\ IsTarget(row.target)
  BY AskedIsKept
<1> HIDE DEF rows, asked, threads
<1>3. \A j \in 1..Len(rows) : rows[j] \in asked /\ ~asksNothing(rows[j]) /\ IsTarget(rows[j].target)
  BY <1>2
<1>4. HeardUpTo(Len(rows), result, entries, rows)
  BY <1>1, <1>2, <1>3, SheetHeard
<1> HIDE DEF result
<1>5. \A row, e : e \in entries => (Names(row, e) <=> e \in matchEntries(entries, row))
  BY DEF Names, matchEntries
<1>6. \A row : {o \in entries : Names(row, o)} = matchEntries(entries, row)
  BY <1>5 DEF matchEntries
<1>7. \A t : IsTarget(t) => t # None
  BY DEF SheetsAreMadeOfRows
<1>8. ASSUME NEW row \in asked
      PROVE  \E e \in entries :
               /\ {o \in entries : Names(row, o)} = {e}
               /\ row.action \in pool'[e].actions \cup {None}
               /\ row.comment \in pool'[e].thread \cup {None}
               /\ row.target \in {NoTarget, pool'[e].target}
  <2>1. PICK j \in 1..Len(rows) : row = rows[j]
    BY <1>2
  <2>2. PICK e \in entries : matchEntries(entries, row) = {e} /\ Heard(result.edits[e], row)
    BY <1>4, <2>1 DEF HeardUpTo
  <2>3. Holds(pool'[e], result.edits[e], threads(e))
    BY <1>1
  <2>4. row.action \in pool'[e].actions \cup {None} /\ row.comment \in pool'[e].thread \cup {None}
    BY <2>2, <2>3 DEF Heard, Holds
  <2>5. row.target \in {NoTarget, pool'[e].target}
    <3>1. IsTarget(row.target) /\ row.target # None
      BY <1>2, <1>7
    <3>2. CASE NamedDepths(row) = {}
      <4>1. 1 \notin NamedDepths(row) /\ 2 \notin NamedDepths(row) /\ 3 \notin NamedDepths(row)
        BY <3>2
      <4>2. row.target.resource = None /\ row.target.field = None /\ row.target.value = None
        BY <4>1 DEF NamedDepths
      <4>3. QED BY <3>1, <4>2 DEF IsTarget, NoTarget
    <3>3. CASE NamedDepths(row) # {}
      BY <2>2, <2>3, <3>1, <3>3 DEF Heard, Holds, mappingFrom
    <3>4. QED BY <3>2, <3>3
  <2>6. QED BY <1>6, <2>2, <2>4, <2>5
<1>9. ASSUME NEW e \in entries
      PROVE  /\ \A a \in pool'[e].actions : \E row \in asked : Names(row, e) /\ row.action = a
             /\ \E a : pool'[e].actions \subseteq {a}
             /\ e \in DOMAIN pool => pool[e].thread \subseteq pool'[e].thread
             /\ pool'[e].target # None => IsTarget(pool'[e].target)
  <2>1. Holds(pool'[e], result.edits[e], threads(e))
    BY <1>1
  <2>2. ASSUME NEW a \in pool'[e].actions
        PROVE  \E row \in asked : Names(row, e) /\ row.action = a
    <3>1. a = result.edits[e].action /\ a # None
      BY <2>1 DEF Holds
    <3>2. PICK j \in 1..Len(rows) : matchEntries(entries, rows[j]) = {e} /\ rows[j].action = a
      BY <1>4, <3>1 DEF HeardUpTo
    <3>3. QED BY <1>3, <1>5, <3>2
  <2>3. pool'[e].actions \subseteq {result.edits[e].action}
    BY <2>1 DEF Holds
  <2>4. e \in DOMAIN pool => pool[e].thread \subseteq pool'[e].thread
    BY <2>1 DEF Holds, threads
  <2>5. ASSUME pool'[e].target # None PROVE IsTarget(pool'[e].target)
    <3>1. PICK j \in 1..Len(rows) : mappingFrom(rows[j]) = pool'[e].target
      BY <1>4, <2>1, <2>5 DEF HeardUpTo, Holds
    <3>2. QED BY <1>3, <2>5, <3>1 DEF mappingFrom
  <2>6. QED BY <2>2, <2>3, <2>4, <2>5
<1>10. QED BY <1>1, <1>8, <1>9 DEF asked, TakenUp

ReviewInv == ReportInv /\ PoolInv

(* What a sheet does to the review, whole or not at all.                   *)
Lands(asked, held) ==
  /\ DOMAIN pool' = DOMAIN held
  /\ \A row \in asked : \E e \in DOMAIN held :
       /\ {o \in DOMAIN held : Names(row, o)} = {e}
       /\ row.action \in pool'[e].actions \cup {None}
       /\ row.comment \in pool'[e].thread \cup {None}
       /\ row.target \in {NoTarget, pool'[e].target}
  /\ \A e \in DOMAIN held :
       /\ \A a \in pool'[e].actions \ held[e].actions : \E row \in asked : Names(row, e) /\ row.action = a
       /\ Cardinality(pool'[e].actions \ held[e].actions) <= 1
       /\ e \in DOMAIN pool => pool[e].thread \subseteq pool'[e].thread

LandsWhole ==
  last'.command = "decisions" /\ commands' = commands + 1 /\ pool' # pool =>
    \A asked \in {Asked(last'.sheet)} : \A held \in {reportFile.marks} : Lands(asked, held)

LEMMA DecideStep ==
  ASSUME SheetsAreMadeOfRows, ReviewInv, Decide
  PROVE  ReviewInv' /\ LandsWhole
<1>1. PICK sheet \in Sheets(RowsAtHand), preview \in BOOLEAN : SubmitVariationDecisions(sheet, preview)
  BY DEF Decide
<1>2. reportFile # None /\ UNCHANGED reportFile
  BY <1>1 DEF Decide, SubmitVariationDecisions
<1>3. WellMade(sheet)
  BY RowsAtHandAreRows DEF SheetsAreMadeOfRows, ReviewInv
<1>4. ReportInv'
  BY <1>2 DEF ReviewInv, ReportInv
<1>5. CASE pool' = pool
  BY <1>4, <1>5 DEF ReviewInv, PoolInv, LandsWhole
<1>6. CASE pool' # pool
  <2> DEFINE held == reportFile.marks
             entries == DOMAIN held
  <2>1. \A e \in entries : held[e].actions = {}
    <3>1. PICK addressed, found : reportFile = [addressed |-> addressed, marks |-> [e \in found |-> Unmarked]]
      BY <1>2 DEF ReviewInv, ReportInv
    <3>2. QED BY <3>1 DEF Unmarked
  <2>2. last'.sheet = sheet /\ TakenUp(Asked(sheet), entries)
    BY <1>1, <1>2, <1>3, <1>6, SheetLands DEF ReviewInv
  <2>3. PoolInv'
    BY <2>2 DEF PoolInv, TakenUp
  <2>4. \A e \in entries : Cardinality(pool'[e].actions \ held[e].actions) <= 1
    <3>1. \A S, a : S \subseteq {a} => Cardinality(S) <= 1
      <4> SUFFICES ASSUME NEW S, NEW a, S \subseteq {a} PROVE Cardinality(S) <= 1
        OBVIOUS
      <4>1. S = {} \/ S = {a}
        OBVIOUS
      <4>2. Cardinality({}) = 0 /\ Cardinality({a}) = 1
        BY FS_EmptySet, FS_Singleton
      <4>3. QED BY <4>1, <4>2
    <3>2. \A e \in entries : \E a : pool'[e].actions \ held[e].actions \subseteq {a}
      BY <2>2 DEF TakenUp
    <3> HIDE DEF held
    <3>3. QED BY <3>1, <3>2
  <2>5. LandsWhole
    <3> HIDE DEF held
    <3>1. SUFFICES Lands(Asked(sheet), held)
      BY <2>2 DEF LandsWhole, held
    <3>2. ASSUME NEW e \in entries
          PROVE  /\ \A a \in pool'[e].actions \ held[e].actions : \E row \in Asked(sheet) : Names(row, e) /\ row.action = a
                 /\ Cardinality(pool'[e].actions \ held[e].actions) <= 1
                 /\ e \in DOMAIN pool => pool[e].thread \subseteq pool'[e].thread
      <4>1. pool'[e].actions \ held[e].actions \subseteq pool'[e].actions
        OBVIOUS
      <4>2. /\ \A a \in pool'[e].actions : \E row \in Asked(sheet) : Names(row, e) /\ row.action = a
            /\ e \in DOMAIN pool => pool[e].thread \subseteq pool'[e].thread
        BY <2>2 DEF TakenUp
      <4>3. QED BY <2>4, <4>1, <4>2
    <3>3. QED BY <2>2, <3>2 DEF Lands, TakenUp
  <2>6. QED BY <1>4, <2>3, <2>5 DEF ReviewInv
<1>7. QED BY <1>5, <1>6

LEMMA ReviewStep ==
  ASSUME SheetsAreMadeOfRows, ReviewInv, [Next]_vars
  PROVE  ReviewInv' /\ LandsWhole
<1>1. CASE UNCHANGED <<reportFile, pool>>
  BY <1>1 DEF ReviewInv, ReportInv, PoolInv, LandsWhole
<1>2. ASSUME NEW addressed \in BOOLEAN, FindVariations(addressed)
      PROVE  ReviewInv' /\ LandsWhole
  <2>1. pool' = pool
    BY <1>2 DEF FindVariations
  <2>2. PICK entries : reportFile' = reportFile \/ reportFile' = [addressed |-> addressed, marks |-> [e \in entries |-> Unmarked]]
    BY <1>2 DEF FindVariations, written
  <2>3. ReportInv'
    BY <2>2 DEF ReviewInv, ReportInv
  <2>4. QED BY <2>1, <2>3 DEF ReviewInv, PoolInv, LandsWhole
<1>3. ASSUME NEW dryRun \in BOOLEAN, SubmitVariationsReport(dryRun)
      PROVE  ReviewInv' /\ LandsWhole
  <2>1. reportFile # None /\ reportFile' = reportFile
    BY <1>3 DEF SubmitVariationsReport
  <2>2. CASE pool' = pool
    BY <1>1, <2>1, <2>2
  <2>3. CASE pool' # pool
    <3>1. pool' = Stored(reportFile.marks) /\ last'.command = "submit-report"
      BY <1>3, <2>3 DEF SubmitVariationsReport, Submit, ends
    <3>2. PICK addressed, found : reportFile = [addressed |-> addressed, marks |-> [e \in found |-> Unmarked]]
      BY <2>1 DEF ReviewInv, ReportInv
    <3>3. \A e \in DOMAIN pool' : pool'[e].target = None
      BY <3>1, <3>2 DEF Stored, Unmarked
    <3>4. PoolInv' /\ LandsWhole
      BY <3>1, <3>3 DEF PoolInv, LandsWhole
    <3>5. QED BY <2>1, <3>4 DEF ReviewInv, ReportInv
  <2>4. QED BY <2>2, <2>3
<1>4. CASE Decide
  BY <1>4, DecideStep
<1>5. CASE \E items \in UpdateSheets, size \in ChunkSizes, flags \in UpdateFlags, token \in BOOLEAN :
             StartUpdate(items, size, flags, token)
  BY <1>1, <1>5 DEF StartUpdate
<1>6. CASE UpdateChunk \/ UpdateEnds
  BY <1>1, <1>6 DEF UpdateChunk, UpdateEnds
<1>7. CASE OtherUser \/ ProviderChanges
  BY <1>1, <1>7 DEF OtherUser, ProviderChanges
<1>8. CASE UNCHANGED vars
  BY <1>1, <1>8 DEF vars
<1>9. QED BY <1>2, <1>3, <1>4, <1>5, <1>6, <1>7, <1>8 DEF Next

(* A sheet lands whole or not at all, whatever the reviewer writes and     *)
(* whatever the service answers: nothing was wrong with the sheet that     *)
(* reached the pool, so each of its rows was taken up, by one entry, and   *)
(* no later row took back what an earlier one asked.                       *)
THEOREM SheetsLandWhole ==
  ASSUME SheetsAreMadeOfRows
  PROVE  Spec => SheetLandsWhole
<1>1. Init => ReviewInv
  BY DEF Init, ReviewInv, ReportInv, PoolInv
<1>2. ReviewInv /\ [Next]_vars => ReviewInv'
  BY ReviewStep
<1>3. ReviewInv /\ [Next]_vars => [LandsWhole]_vars
  BY ReviewStep
<1>4. Spec => [][LandsWhole]_vars
  BY <1>1, <1>2, <1>3, PTL DEF Spec
<1>5. QED BY <1>4 DEF SheetLandsWhole, LandsWhole, Lands
=============================================================================
