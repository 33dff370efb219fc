------------------------------ MODULE RlpStream ------------------------------
(***************************************************************************)
(* rlp's RlpStream: items are appended to one buffer, an open list has a   *)
(* placeholder byte that its header replaces when the list is complete,    *)
(* and completing a list may complete the ones around it.                  *)
(*                                                                         *)
(* append(&value) is three steps, as in the code: it is entered, the       *)
(* value's rlp_append writes data or begins a list, and on the way out     *)
(* finished_list tells whether the value still has to be counted.          *)
(* note_appended is one step per level of its recursion.                   *)
(***************************************************************************)
EXTENDS RlpFormat

CONSTANTS
    Data,       \* what values hold
    RawItems,   \* items that were serialised elsewhere, with their own items
    Raw,        \* pre-serialised pieces: sequences of such items
    Prior,      \* what a buffer passed to new_with_buffer may hold
    MaxLen,     \* bound on the lengths given to begin_list
    MaxDepth,   \* bound on nested lists
    MaxSteps    \* bound on items and lists begun

ASSUME DataAssumption ==
    /\ \A v \in Data : Sized(v)
    /\ \A prior \in Prior : prior \in Seq(Byte)

VARIABLES
    buffer, start_pos, unfinished_lists, finished_list,     \* RlpStream
    frames,     \* calls of append under way, innermost last
    noting,     \* {the call of note_appended under way}
    written,    \* level by level, the items a client appended (history)
    steps       \* items and lists begun (bound)

stream == <<buffer, start_pos, unfinished_lists, finished_list>>
streamVars == <<stream, frames, noting, written, steps>>

(* An encoded item: its bytes, its data if it is data, its items if it is a list. *)
DataItem(v) == [bytes |-> EncodeValue(v), data |-> v, kids |-> <<>>]
ListItem(kids) ==
    [bytes |-> EncodeList(FlattenSeq([i \in DOMAIN kids |-> kids[i].bytes])), data |-> <<>>,
     kids |-> kids]

BytesOf(items) == FlattenSeq([i \in DOMAIN items |-> items[i].bytes])

(* An item as RlpStream writes it: data, or a list of items of a set. *)
WellMade(x, items) ==
    \/ Sized(x.data) /\ x = DataItem(x.data)
    \/ x.kids \in Seq(items) /\ Sized(BytesOf(x.kids)) /\ x = ListItem(x.kids)

ASSUME RawAssumption ==
    /\ \A x \in RawItems : WellMade(x, RawItems)
    /\ \A items \in Raw : items \in Seq(RawItems)

StreamInit ==
    /\ buffer \in Prior
    /\ start_pos = Len(buffer)
    /\ unfinished_lists = <<>>
    /\ finished_list = FALSE
    /\ frames = <<>>
    /\ noting = {}
    /\ written = << <<>> >>
    /\ steps = 0
------------------------------------------------------------------------------
TotalWritten == Len(buffer) - start_pos

ListInfo(position, max) == [position |-> position, current |-> 0, max |-> max]

Depth == Len(unfinished_lists)

(* A call of note_appended; decided is what finished_list will be, once that is known. *)
Note(items, decided) == {[items |-> items, decided |-> decided]}

(* Where a client, or the rlp_append of the innermost value, is. *)
InValue == frames # <<>> /\ Last(frames).made = "nothing"
AfterValue == frames # <<>> /\ Last(frames).made # "nothing" /\ Depth <= Last(frames).depth
InList == ~InValue /\ ~AfterValue

(* The innermost value is now this kind of item. *)
Made(kind) ==
    IF InValue THEN [frames EXCEPT ![Len(frames)].made = kind] ELSE frames

(* The history: items appended to the innermost list, and that list completed. *)
Wrote(items) == [written EXCEPT ![Len(written)] = @ \o items]
Completed ==
    [i \in 1..(Len(written) - 1) |->
        IF i = Len(written) - 1 THEN Append(written[i], ListItem(Last(written))) ELSE written[i]]

MayWrite == noting = {} /\ ~AfterValue /\ steps < MaxSteps

CountStep == steps' = steps + 1
------------------------------------------------------------------------------
(* append, up to the call of rlp_append. *)
EnterAppend ==
    /\ noting = {} /\ InList /\ steps < MaxSteps
    /\ finished_list' = FALSE
    /\ frames' = Append(frames, [depth |-> Depth, made |-> "nothing"])
    /\ UNCHANGED <<buffer, start_pos, unfinished_lists, noting, written, steps>>

(* The rlp_append of a value that holds data, and append_internal of one. *)
RlpAppendData(v) ==
    /\ MayWrite /\ InValue /\ CountStep
    /\ buffer' = buffer \o EncodeValue(v)
    /\ frames' = Made("data")
    /\ written' = Wrote(<<DataItem(v)>>)
    /\ UNCHANGED <<start_pos, unfinished_lists, finished_list, noting>>

(* Faulty variant of LeaveAppend: every value is counted. *)
LeaveAppendCounting ==
    /\ noting = {} /\ AfterValue
    /\ frames' = Front(frames)
    /\ noting' = Note(1, {})
    /\ UNCHANGED <<stream, written, steps>>

(* append, after the call of rlp_append: a list has counted itself when it was finished. *)
LeaveAppend ==
    /\ noting = {} /\ AfterValue
    /\ frames' = Front(frames)
    /\ noting' = IF finished_list THEN {} ELSE Note(1, {})
    /\ UNCHANGED <<stream, written, steps>>

AppendEmptyData ==
    /\ MayWrite /\ InList /\ CountStep
    /\ buffer' = Append(buffer, Single)
    /\ noting' = Note(1, {})
    /\ written' = Wrote(<<DataItem(<<>>)>>)
    /\ UNCHANGED <<start_pos, unfinished_lists, finished_list, frames>>

AppendRaw(items) ==
    /\ MayWrite /\ InList /\ CountStep
    /\ buffer' = buffer \o BytesOf(items)
    /\ noting' = Note(Len(items), {})
    /\ written' = Wrote(items)
    /\ UNCHANGED <<start_pos, unfinished_lists, finished_list, frames>>

(* A list is open: its placeholder is in the buffer. *)
Open(max) ==
    /\ Depth < MaxDepth
    /\ buffer' = Append(buffer, 0)
    /\ unfinished_lists' = Append(unfinished_lists, ListInfo(TotalWritten + 1, max))
    /\ written' = Append(written, <<>>)
    /\ UNCHANGED noting

EmptyList ==
    /\ buffer' = Append(buffer, ShortList)
    /\ noting' = Note(1, {TRUE})
    /\ written' = Wrote(<<ListItem(<<>>)>>)
    /\ UNCHANGED unfinished_lists

BeginList(len) ==
    /\ MayWrite /\ CountStep
    /\ finished_list' = FALSE
    /\ frames' = Made("list")
    /\ IF len = 0 THEN EmptyList ELSE Open({len})
    /\ UNCHANGED start_pos

BeginUnboundedList ==
    /\ MayWrite /\ CountStep
    /\ finished_list' = FALSE
    /\ frames' = Made("list")
    /\ Open({})
    /\ UNCHANGED start_pos

(* Faulty variant of InsertSize: the position is counted from the start of the buffer. *)
InsertSizeAbsolute(buf, size, pos) ==
    SubSeq(buf, 1, pos) \o BigEndian(Narrowed(size)) \o SubSeq(buf, pos + 1, Len(buf))

(* insert_size appends the size and rotates it to its place. *)
InsertSize(buf, size, pos) ==
    SubSeq(buf, 1, start_pos + pos) \o BigEndian(Narrowed(size))
        \o SubSeq(buf, start_pos + pos + 1, Len(buf))

(* insert_list_payload, for the last list. *)
InsertListPayload(x) ==
    LET len == TotalWritten - x.position
        at == start_pos + x.position
    IN  IF len <= Short
        THEN [buffer EXCEPT ![at] = ShortList + len]
        ELSE [InsertSize(buffer, len, x.position) EXCEPT ![at] = LongList + SizeBytes(Narrowed(len))]

(* The last list is taken off and its header put in; then the list around it is told. *)
Finish(decided) ==
    /\ unfinished_lists' = Front(unfinished_lists)
    /\ buffer' = InsertListPayload(Last(unfinished_lists))
    /\ written' = Completed
    /\ noting' = Note(1, decided)

FinalizeUnboundedList ==
    /\ noting = {} /\ InList
    /\ Depth > 0 /\ Last(unfinished_lists).max = {}
    /\ Finish({TRUE})
    /\ UNCHANGED <<start_pos, finished_list, frames, steps>>

(* note_appended, for one list.  More items than the list expects is a panic: no step. *)
NoteAppended ==
    \E n \in noting :
        /\ UNCHANGED <<start_pos, frames, steps>>
        /\ \/ /\ unfinished_lists = <<>>
              /\ noting' = {}
              /\ finished_list' = IF n.decided = {} THEN finished_list ELSE TRUE \in n.decided
              /\ UNCHANGED <<buffer, unfinished_lists, written>>
           \/ /\ unfinished_lists # <<>>
              /\ LET x == Last(unfinished_lists)
                     current == x.current + n.items
                 IN  \/ /\ \A max \in x.max : current < max
                        /\ unfinished_lists' = [unfinished_lists EXCEPT ![Depth].current = current]
                        /\ noting' = {}
                        /\ finished_list' = (TRUE \in n.decided)
                        /\ UNCHANGED <<buffer, written>>
                     \/ /\ current \in x.max
                        /\ Finish(IF n.decided = {} THEN {TRUE} ELSE n.decided)
                        /\ UNCHANGED finished_list

Clear ==
    /\ noting = {} /\ frames = <<>>
    /\ buffer' = SubSeq(buffer, 1, start_pos)
    /\ unfinished_lists' = <<>>
    /\ written' = << <<>> >>
    /\ UNCHANGED <<start_pos, finished_list, frames, noting, steps>>

StreamNext ==
    \/ EnterAppend \/ LeaveAppend
    \/ \E v \in Data : RlpAppendData(v)
    \/ AppendEmptyData
    \/ \E items \in Raw : AppendRaw(items)
    \/ \E len \in 0..MaxLen : BeginList(len)
    \/ BeginUnboundedList \/ FinalizeUnboundedList
    \/ NoteAppended
    \/ Clear
------------------------------------------------------------------------------
(* The bytes of the size that the header of a long payload has. *)
SizeField(len) == IF len > Short THEN SizeBytes(len) ELSE 0

(* estimate_size, on which append_raw_checked decides. *)
EstimateSize(add) ==
    LET size[i \in 0..Depth] ==
            IF i = 0 THEN TotalWritten + add
            ELSE size[i - 1] + SizeField(TotalWritten + add - unfinished_lists[i].position)
    IN  size[Depth]

(* Buffers hold bytes, and open lists nest. *)
StreamTypeOK ==
    /\ buffer \in Seq(Byte) /\ start_pos \in 0..Len(buffer)
    /\ finished_list \in BOOLEAN
    /\ \A i \in 1..Depth :
          /\ unfinished_lists[i].position \in 1..TotalWritten
          /\ \A j \in 1..(i - 1) : unfinished_lists[j].position < unfinished_lists[i].position
    /\ Cardinality(noting) <= 1 /\ Len(written) = Depth + 1

(***************************************************************************)
(* Well formed, the buffer is what was there before, and then the          *)
(* reference encoding of what was appended, with one placeholder per open  *)
(* list at the position that is remembered for it: headers of inner lists  *)
(* that grew to several bytes moved nothing but the items behind them.     *)
(* With at most one list open, estimate_size, which computes the size of   *)
(* the size field on its own, is exactly what finishing the list gives.    *)
(***************************************************************************)
StreamExact ==
    /\ StreamTypeOK
    /\ SubSeq(buffer, 1, start_pos) \in Prior
    /\ SubSeq(buffer, start_pos + 1, Len(buffer)) =
           FlattenSeq([i \in DOMAIN written |-> (IF i = 1 THEN <<>> ELSE <<0>>) \o BytesOf(written[i])])
    /\ \A i \in 1..Depth :
          buffer[start_pos + unfinished_lists[i].position] = 0
            /\ unfinished_lists[i].position =
                  Len(FlattenSeq([j \in 1..i |-> BytesOf(written[j])])) + i
    /\ Depth = 0 => EstimateSize(0) = Len(BytesOf(written[1]))
    /\ Depth = 1 => EstimateSize(0) = Len(BytesOf(written[1])) + Len(ListItem(written[2]).bytes)

(***************************************************************************)
(* Between calls, every open list has counted each of its items once,      *)
(* whether it was data, raw, or a list that counted itself, except the     *)
(* value append has yet to count; and a list that is full is not open.     *)
(***************************************************************************)
CountsExact ==
    noting = {} =>
        \A i \in 1..Depth :
            LET pending == i = Depth /\ frames # <<>> /\ Last(frames).made = "data"
            IN  /\ unfinished_lists[i].current = Len(written[i + 1]) - (IF pending THEN 1 ELSE 0)
                /\ \A max \in unfinished_lists[i].max : unfinished_lists[i].current < max
==============================================================================
