----------------------------- MODULE RangeList -----------------------------
(***************************************************************************)
(* The list of message numbers waiting to be acknowledged                  *)
(* (raknet/rangelist.rs): a vector of inclusive ranges, kept sorted, into  *)
(* which every reliable packet's message number is inserted, and which     *)
(* SendPart::write_acks (raknet/send.rs) serializes and clears whenever a  *)
(* datagram leaves for the client.                                         *)
(*                                                                         *)
(* The history variables say what the list stands for: pending holds the   *)
(* numbers inserted since the last clear, fresh says whether each of them  *)
(* was inserted once, that is whether no duplicate of a reliable packet    *)
(* arrived before the first copy was acknowledged.  reported and           *)
(* wireFresh keep both for the acknowledgement last written.               *)
(***************************************************************************)
EXTENDS Integers, Sequences, SequencesExt

CONSTANTS MaxItem,      \* u32::max_value(), the largest message number
          CountMod      \* 2^16: the number of ranges is written as a u16

ASSUME MaxItemAssumption  == MaxItem \in Nat
ASSUME CountModAssumption == CountMod \in Nat \ {0}

VARIABLES ranges,       \* RangeList::ranges
          wire,         \* the acknowledgement last written
          pending, fresh, reported, wireFresh   \* history

vars == <<ranges, wire, pending, fresh, reported, wireFresh>>

Item == 0..MaxItem
RangeType == [min : Item, max : Item]
Single(item) == [min |-> item, max |-> item]

(***************************************************************************)
(* insert.  The loop passes over every range that ends before item - 1 and *)
(* stops at the first one that contains item, ends at item - 1 or starts   *)
(* after item; position Len(rs) + 1 stands for running off the end.        *)
(***************************************************************************)
Stops(r, item) == r.min > item \/ r.max >= item \/ r.max = item - 1

StopsAt(rs, item, i) ==
  /\ i \in 1..Len(rs) + 1
  /\ \A j \in 1..Len(rs) : j < i => ~Stops(rs[j], item)
  /\ i <= Len(rs) => Stops(rs[i], item)

\* Mutant: the removal test looks for the range that the item now touches.
Extend_RemovesNeighbour(rs, item, i) ==
  LET grown == [rs EXCEPT ![i].max = item]
  IN  IF i < Len(rs) /\ rs[i + 1].min = item + 1
      THEN RemoveAt(grown, i + 1)
      ELSE grown

\* Mutant: the range is grown by one more than the item.
Extend_TooFar(rs, item, i) == [rs EXCEPT ![i].max = item + 1]

\* Lines 49-55 and 67-72: the range grows by one, and the range after it is
\* removed if it starts at item - 1.
Extend(rs, item, i) ==
  LET grown == [rs EXCEPT ![i].max = item]
  IN  IF i < Len(rs) /\ rs[i + 1].min = item - 1
      THEN RemoveAt(grown, i + 1)
      ELSE grown

\* Mutant: a range grown downwards is grown by one too many.
InsertedAt_TooLow(rs, item, i) ==
  IF i > Len(rs) THEN Append(rs, Single(item))
  ELSE CASE rs[i].min <= item -> rs
         [] rs[i].min > item  -> [rs EXCEPT ![i].min = item - 1]

\* Mutant: a range that starts after the item is never grown downwards, the
\* item goes behind it.
InsertedAt_Behind(rs, item, i) ==
  IF i > Len(rs) THEN Append(rs, Single(item))
  ELSE CASE rs[i].min <= item /\ rs[i].max >= item -> rs
         [] rs[i].min <= item /\ rs[i].max < item  -> Extend(rs, item, i)
         [] rs[i].min > item -> InsertAt(rs, i + 1, Single(item))

InsertedAt(rs, item, i) ==
  IF i > Len(rs) THEN Append(rs, Single(item))
  ELSE CASE rs[i].min <= item /\ rs[i].max >= item -> rs
         [] rs[i].min <= item /\ rs[i].max < item  -> Extend(rs, item, i)
         [] rs[i].min = item + 1 -> [rs EXCEPT ![i].min = item]
         [] rs[i].min > item + 1 -> InsertAt(rs, i, Single(item))

\* Non-empty ranges, each of which ends before the next one begins.
SortedList(rs) ==
  /\ \A i \in 1..Len(rs) : rs[i].min <= rs[i].max
  /\ \A i, j \in 1..Len(rs) : i < j => rs[i].max < rs[j].min

\* What into_iter enumerates.
Items(rs) == {x \in Item : \E i \in 1..Len(rs) : rs[i].min <= x /\ x <= rs[i].max}

\* Mutant: the end of a range is written as the first number after it.
Serialize_PastEnd(rs) ==
  [count |-> Len(rs) % CountMod,
   body  |-> [i \in 1..Len(rs) |->
                IF rs[i].min = rs[i].max THEN <<TRUE, rs[i].min>>
                                         ELSE <<FALSE, rs[i].min, rs[i].max + 1>>]]

(***************************************************************************)
(* The wire form: the number of ranges as a u16, then per range a bit that *)
(* says whether min = max, min, and max unless the bit was set.  Reading   *)
(* takes as many ranges as the count says.                                 *)
(***************************************************************************)
Serialize(rs) ==
  [count |-> Len(rs) % CountMod,
   body  |-> [i \in 1..Len(rs) |->
                IF rs[i].min = rs[i].max THEN <<TRUE, rs[i].min>>
                                         ELSE <<FALSE, rs[i].min, rs[i].max>>]]

Deserialize(w) ==
  [i \in 1..w.count |-> [min |-> w.body[i][2],
                         max |-> IF w.body[i][1] THEN w.body[i][2]
                                                 ELSE w.body[i][3]]]

-----------------------------------------------------------------------------
Init ==
  /\ ranges = <<>>
  /\ wire = Serialize(<<>>)
  /\ pending = {} /\ fresh = TRUE
  /\ reported = {} /\ wireFresh = TRUE

Insert(item) ==
  /\ \E i \in 1..Len(ranges) + 1 :
        /\ StopsAt(ranges, item, i)
        /\ ranges' = InsertedAt(ranges, item, i)
  /\ pending' = pending \cup {item}
  /\ fresh' = (fresh /\ item \notin pending)
  /\ UNCHANGED <<wire, reported, wireFresh>>

\* Mutant: the list is cleared before it is written.
WriteAcks_ClearFirst ==
  /\ ranges # <<>>
  /\ wire' = Serialize(<<>>)
  /\ ranges' = <<>>
  /\ reported' = pending /\ wireFresh' = fresh
  /\ pending' = {} /\ fresh' = TRUE

\* write_acks with acks to write: serialize, then clear.
WriteAcks ==
  /\ ranges # <<>>
  /\ wire' = Serialize(ranges)
  /\ ranges' = <<>>
  /\ reported' = pending /\ wireFresh' = fresh
  /\ pending' = {} /\ fresh' = TRUE

Next == WriteAcks \/ \E item \in Item : Insert(item)

Spec == Init /\ [][Next]_vars

-----------------------------------------------------------------------------
\* The variables hold what the Rust types allow.
TypeOK ==
  /\ ranges \in Seq(RangeType)
  /\ pending \subseteq Item /\ reported \subseteq Item
  /\ fresh \in BOOLEAN /\ wireFresh \in BOOLEAN
  /\ wire.body \in Seq({<<TRUE, x>> : x \in Item}
                        \cup {<<FALSE, x, y>> : x, y \in Item})

\* Every range is non-empty and ends before the next one begins: the list is
\* sorted and no number is listed twice, as the comment at rangelist.rs:62
\* ("the list is auto-sorted") relies on.  It fails when a duplicate follows a
\* range that was grown up to its neighbour.
Sorted == SortedList(ranges)

\* The list is sorted and free of overlaps while no number was inserted twice:
\* neither growing a range nor inserting one ever runs into a neighbour
\* (RangeList::insert).
FreshSorted == fresh => SortedList(ranges)

\* While no number was inserted twice, none that was inserted is missing from
\* the list: the acknowledgement names every packet received since the last one.
NothingLost == fresh => pending \subseteq Items(ranges)

\* The list only names numbers that were inserted, duplicates or not: the
\* client is never told that a packet arrived which did not, so it never stops
\* resending a packet that the shim lacks.
NothingInvented == Items(ranges) \subseteq pending

\* What the client reads from an acknowledgement was inserted before it was
\* written: the 16-bit count may cut ranges off but never adds any.
WireSound == Items(Deserialize(wire)) \subseteq reported

\* While no number was inserted twice, the client reads every number that was
\* inserted, unless there were more ranges than the 16-bit count can say.
WireExact ==
  wireFresh /\ Len(wire.body) < CountMod => reported \subseteq Items(Deserialize(wire))
=============================================================================
