------------------------------ MODULE RlpReader ------------------------------
(***************************************************************************)
(* rlp's Rlp, a view of a slice that remembers where its last item was     *)
(* found and how many items it has, and RlpIterator, which reads through   *)
(* it.  The slice is one that RlpStream wrote, or one that came from       *)
(* elsewhere (Received).                                                   *)
(***************************************************************************)
EXTENDS RlpStream

CONSTANTS
    Received,   \* slices from elsewhere
    MaxIndex    \* bound on the indexes a client asks for

ASSUME ReceivedAssumption ==
    /\ Received \subseteq Seq(Byte)
    /\ MaxIndex \in Nat

VARIABLES
    reading,    \* {} while the stream is written, then {"written"} or {"input"}
    bytes, offset_cache, count_cache,   \* Rlp
    index,      \* {RlpIterator.index} while item_count runs its iterator
    item        \* the item the slice is, if it was written (history)

rlp == <<bytes, offset_cache, count_cache, index>>
vars == <<streamVars, reading, rlp, item>>

NewRlp(slice) ==
    /\ bytes' = slice
    /\ offset_cache' = {}
    /\ count_cache' = {}
    /\ index' = {}

NoItem == DataItem(<<>>)

Init ==
    /\ StreamInit
    /\ reading = {}
    /\ bytes = <<>>
    /\ offset_cache = {} /\ count_cache = {} /\ index = {}
    /\ item = NoItem
------------------------------------------------------------------------------
NoOffset == [ok |-> FALSE, offset |-> 0]

(* Where the item behind the one at an offset begins. *)
Behind(offset, info) == IF info.ok THEN [ok |-> TRUE, offset |-> offset + Total(info)] ELSE NoOffset

SkipItem(slice, before) ==
    IF before.ok
    THEN Behind(before.offset, PayloadInfo(SubSeq(slice, before.offset + 1, Len(slice))))
    ELSE NoOffset

(* consume_items: n items from start are passed over, if they fit. *)

ConsumeItems(slice, start, n) ==
    LET from[i \in 0..n] ==
            IF i = 0 THEN [ok |-> start <= Len(slice), offset |-> start]
            ELSE SkipItem(slice, from[i - 1])
    IN  from[n]

(* Item i of a list, from its first item to the end of its payload. *)
FindFirst(slice, info, i) ==
    IF ~info.ok THEN NoOffset ELSE ConsumeItems(SubSeq(slice, 1, Total(info)), info.header_len, i)

(* Faulty variant of FindFrom: the item counts as found where the search began. *)
FindFromUnmoved(slice, c, i) == ConsumeItems(slice, c.offset, 0)

(* Item i, from a cached one to the end of the slice. *)
FindFrom(slice, c, i) == ConsumeItems(slice, c.offset, i - c.index)

(***************************************************************************)
(* Where at_with_offset looks for item i: from the cached item, to the end *)
(* of the slice, or from the list's first, to the end of its payload.      *)
(***************************************************************************)
Find(slice, cache, i) ==
    LET near == {c \in cache : c.index <= i}
    IN  IF ~IsList(slice) THEN NoOffset
        ELSE IF near # {} THEN FindFrom(slice, CHOOSE c \in near : TRUE, i)
        ELSE FindFirst(slice, PayloadInfo(slice), i)

(* What the item is read from. *)
Rest(slice, cache, found, i) ==
    LET end == IF \E c \in cache : c.index <= i THEN Len(slice) ELSE Total(PayloadInfo(slice))
    IN  SubSeq(slice, found.offset + 1, end)

NotThere == [ok |-> FALSE, bytes |-> <<>>, offset |-> 0]

ItemOf(rest, info, offset) ==
    IF info.ok THEN [ok |-> TRUE, bytes |-> SubSeq(rest, 1, Total(info)), offset |-> offset]
    ELSE NotThere

ReadItem(rest, offset) == ItemOf(rest, PayloadInfo(rest), offset)

ItemFound(slice, cache, found, i) ==
    IF found.ok THEN ReadItem(Rest(slice, cache, found, i), found.offset) ELSE NotThere

(* at_with_offset: the item, if there is one. *)
ItemAt(slice, cache, i) == ItemFound(slice, cache, Find(slice, cache, i), i)

(* The cache is set before the item is looked at. *)
Cached(found, cache, i) == IF found.ok THEN {[index |-> i, offset |-> found.offset]} ELSE cache
CacheAfter(slice, cache, i) == Cached(Find(slice, cache, i), cache, i)
------------------------------------------------------------------------------
(* out, when no list is unfinished: all of the buffer, also what it held before the stream. *)
Out == buffer

(* A stream is done with, and Rlp::new of what out returned behind what was there before. *)
ReadBack ==
    /\ reading = {} /\ noting = {} /\ frames = <<>>
    /\ unfinished_lists = <<>> /\ Len(written[1]) = 1
    /\ reading' = {"written"}
    /\ NewRlp(SubSeq(Out, start_pos + 1, Len(Out)))
    /\ item' = written[1][1]
    /\ UNCHANGED streamVars

NewInput ==
    /\ reading = {} /\ steps = 0 /\ buffer = <<>> /\ frames = <<>>
    /\ reading' = {"input"}
    /\ \E slice \in Received : NewRlp(slice)
    /\ UNCHANGED <<streamVars, item>>

Write ==
    /\ reading = {}
    /\ StreamNext
    /\ UNCHANGED <<reading, rlp, item>>

At(i) ==
    /\ reading # {} /\ index = {}
    /\ offset_cache' = CacheAfter(bytes, offset_cache, i)
    /\ UNCHANGED <<streamVars, reading, bytes, count_cache, index, item>>

(* A client goes on with what at returned. *)
Descend(i) ==
    /\ reading # {} /\ index = {}
    /\ \E at \in {ItemAt(bytes, offset_cache, i)} : at.ok /\ NewRlp(at.bytes)
    /\ item' = IF i < Len(item.kids) THEN item.kids[i + 1] ELSE NoItem
    /\ UNCHANGED <<streamVars, reading>>

(* item_count of a list whose items were not counted yet. *)
ItemCount ==
    /\ reading # {} /\ index = {}
    /\ IsList(bytes) /\ count_cache = {}
    /\ index' = {0}
    /\ UNCHANGED <<streamVars, reading, bytes, offset_cache, count_cache, item>>

(* RlpIterator::next, under the count of item_count. *)
IterNext ==
    \E i \in index :
        /\ offset_cache' = CacheAfter(bytes, offset_cache, i)
        /\ IF ItemAt(bytes, offset_cache, i).ok
           THEN index' = {i + 1} /\ UNCHANGED count_cache
           ELSE index' = {} /\ count_cache' = {i}
        /\ UNCHANGED <<streamVars, reading, bytes, item>>

Next ==
    \/ Write
    \/ ReadBack
    \/ NewInput
    \/ \E i \in 0..MaxIndex : At(i) \/ Descend(i)
    \/ ItemCount
    \/ IterNext

Spec == Init /\ [][Next]_vars
------------------------------------------------------------------------------
(* An item that is data is decoded to it, also as a number if it has no leading zeros. *)
Decodes ==
    IF IsList(bytes)
    THEN ~DecodeValue(bytes).ok /\ ~DecodeUint(bytes, Wide).ok
    ELSE /\ DecodeValue(bytes) = [ok |-> TRUE, data |-> item.data]
         /\ Len(item.data) <= Wide /\ BigEndian(Number(item.data)) = item.data
              => DecodeUint(bytes, Wide) = [ok |-> TRUE, value |-> Number(item.data)]

(***************************************************************************)
(* What RlpStream wrote is read back: at every index, after whatever was   *)
(* read before, the item appended there with its offset, and an error past *)
(* the last one; item_count is their number.  Data is decoded to itself,   *)
(* as bytes and as a number, and a list is not data.                       *)
(***************************************************************************)
ReadsExact ==
    reading = {"written"} =>
        /\ bytes = item.bytes
        /\ \A i \in 0..MaxIndex :
              \E found \in {ItemAt(bytes, offset_cache, i)} :
                  IF i < Len(item.kids)
                  THEN /\ found.ok /\ found.bytes = item.kids[i + 1].bytes
                       /\ SubSeq(bytes, found.offset + 1, found.offset + Len(found.bytes)) = found.bytes
                  ELSE ~found.ok
        /\ \A c \in count_cache : c = Len(item.kids)
        /\ Decodes

(***************************************************************************)
(* "This is an immutable structure. No operations change it": an item that *)
(* at finds on a new view of a slice, it finds at the same place whatever  *)
(* was read before, also when more bytes follow the list; and on a slice   *)
(* that ends with its list, an index it refuses it always refuses.         *)
(*                                                                         *)
(* Of a slice with bytes behind its list the second is not so: a search    *)
(* from a cached item goes on to the end of the slice, so an index out of  *)
(* range, for which at should return an error, may give those bytes.       *)
(***************************************************************************)
CacheTransparent ==
    \A i \in 0..MaxIndex :
        \E fresh \in {ItemAt(bytes, {}, i)} :
            fresh.ok \/ Exact(bytes) => ItemAt(bytes, offset_cache, i) = fresh
==============================================================================
