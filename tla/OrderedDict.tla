----------------------------- MODULE OrderedDict -----------------------------
(***************************************************************************)
(* RPython dictionaries: rpython/rtyper/lltypesystem/rordereddict.py.      *)
(*                                                                         *)
(* Items are in the array `entries' in their order, deleted ones between   *)
(* them; a hash table gives the position of a key.  Probing is abstracted: *)
(* a key has at most one slot, which holds the position plus VALID_OFFSET  *)
(* in the integer type that the table has been given by its size.  A new   *)
(* key is taken to need a free slot even if its probe sequence meets a     *)
(* deleted one.  Values go with the keys.                                  *)
(*                                                                         *)
(* Each allocation may fail: the actions ...Fails are the MemoryErrors     *)
(* that leave something changed, Lookup those that leave only the first    *)
(* index; all others leave the dictionary as it was.                       *)
(*                                                                         *)
(* Positions begin at 1 here and at 0 in the code; what is stored in a     *)
(* slot, `skip' and all lengths are the code's.                            *)
(***************************************************************************)
EXTENDS Integers, Sequences, SequencesExt, FiniteSets

CONSTANTS Key,
          Gone,        \* what stands for the key of a deleted entry
          Lost,        \* what stands for the keys of a dictionary that has lost them
          Estimates,   \* the lengths given to ll_newdict_size
          InitSize,    \* DICT_INITSIZE: 16
          Slack,       \* _overallocate_entries_len: 8
          Spare,       \* ll_dict_move_to_first: 16
          ByteSize     \* tables of up to so many slots have bytes: 256

VARIABLE d             \* the dictionary

ASSUME SizesAssumption == /\ Estimates \subseteq Nat /\ InitSize \in Nat \ {0} /\ Slack \in Nat /\ Slack >= 2
                          /\ Spare \in Nat /\ ByteSize \in Nat /\ ByteSize > 9
                          /\ Gone \notin Key
ASSUME LostAssumption == Lost \notin Seq(Key)

\* The live keys of a sequence of entries, in order.
Keys(entries) ==
    LET kept[i \in 0 .. Len(entries)] ==
            IF i = 0 THEN <<>>
            ELSE IF entries[i] = Gone THEN kept[i - 1] ELSE Append(kept[i - 1], entries[i])
    IN  kept[Len(entries)]

Ever(dict) == Len(dict.entries)              \* num_ever_used_items
Live(dict) == Len(Keys(dict.entries))        \* num_live_items

\* A clear() that runs out of memory has put an empty array in the place of the entries,
\* which the counters and the table still speak of: `entries' is then what they speak of.
\* What the code reads or writes past the end of the array is not defined.
Intact(dict) == Ever(dict) <= dict.size

\* What a slot of the table of n slots holds for position i.
Stored(n, i) == IF n <= ByteSize THEN (i + 1) % ByteSize ELSE i + 1

\* The dictionary: entries up to num_ever_used_items, len(entries), len(indexes) (0
\* while there are none: FUNC_MUST_REINDEX), resize_counter, the number of slots
\* that are not FREE, the high bits of lookup_function_no, the slots of the keys (0 is
\* FREE or DELETED).
Fresh(entries, size) ==
    [entries |-> entries, size |-> size, n |-> 0, rc |-> 0, taken |-> 0, skip |-> 0,
     slot |-> [k \in Key |-> 0]]

Overallocated(len) == len + len \div 8 + Slack

\* The smallest table of at least m slots: sizes are doubled until one is large enough.
TableOf[m \in Nat] ==
    IF m = 0 THEN InitSize
    ELSE LET n == TableOf[m - 1] IN IF n < m THEN 2 * n ELSE n

\* A table of bytes can number more entries than it is used for (16 slots: 10 entries,
\* 19 are allocated; 256 slots: 170 and 199), so that compaction makes room in it.
ASSUME BytesAssumption ==
    \A m \in 0 .. ByteSize : TableOf[m] <= ByteSize =>
        Overallocated((2 * TableOf[m]) \div 3) + 3 <= ByteSize

-----------------------------------------------------------------------------
(* The table. *)

\* Mutant: the high bits of lookup_function_no survive.
ReindexedKeepsSkip(dict, n) ==
    [dict EXCEPT !.n = n, !.rc = 2 * n - 3 * Live(dict), !.taken = Live(dict),
                 !.slot = [k \in Key |-> IF k \in ToSet(dict.entries)
                                         THEN Stored(n, CHOOSE i \in 1 .. Ever(dict) :
                                                            dict.entries[i] = k)
                                         ELSE 0]]

\* ll_dict_reindex
Reindexed(dict, n) ==
    [dict EXCEPT !.n = n, !.rc = 2 * n - 3 * Live(dict), !.taken = Live(dict), !.skip = 0,
                 !.slot = [k \in Key |-> IF k \in ToSet(dict.entries)
                                         THEN Stored(n, CHOOSE i \in 1 .. Ever(dict) :
                                                            dict.entries[i] = k)
                                         ELSE 0]]

\* ll_ensure_indexes, also at the beginning of a lookup
Ensured(dict) ==
    IF dict.n # 0 THEN dict
    ELSE IF Live(dict) = 0 THEN [dict EXCEPT !.n = InitSize, !.rc = 2 * InitSize]
    ELSE Reindexed(dict, TableOf[(3 * Live(dict)) \div 2 + 1])   \* 2 * n - 3 * Live(dict) > 0

\* A lookup finds the key if its slot leads to it.
Found(dict, k) ==
    /\ dict.slot[k] \in 2 .. Ever(dict) + 1
    /\ dict.entries[dict.slot[k] - 1] = k
Position(dict, k) == dict.slot[k] - 1

\* ll_dict_remove_deleted_items; the array of entries may become shorter.
Shrinks(dict) == Live(dict) < dict.size \div 4

Compacted(dict) ==
    Reindexed([dict EXCEPT !.entries = Keys(@),
                           !.size = IF Shrinks(dict) THEN Overallocated(Live(dict)) ELSE @],
              dict.n)

\* ll_dict_grow: whether it makes room by compaction, and what it does.
CompactsToGrow(dict) ==
    \/ Live(dict) < Ever(dict) \div 2
    \/ dict.n <= ByteSize /\ Overallocated(dict.size) > ByteSize - 3

Grown(dict) ==
    IF CompactsToGrow(dict) THEN Compacted(dict)
    ELSE [dict EXCEPT !.size = Overallocated(@)]

\* _ll_dict_resize_to and ll_dict_resize (which limits what it adds to 30000)
NewSize(dict, extra) == TableOf[2 * (Live(dict) + extra) + 1]

ResizedTo(dict, extra) ==
    LET n == NewSize(dict, extra)
    IN  IF n < dict.n THEN Compacted(dict) ELSE Reindexed(dict, n)

Resized(dict) == ResizedTo(dict, Live(dict) + 1)

-----------------------------------------------------------------------------
(* Storing. *)

Full(dict) == dict.size = Ever(dict)

\* _ll_dict_setitem_lookup_done for a key that is not there.  The lookup has
\* stored the next position in a slot: a FREE one, `more' = 1, or one that the key had.
Put(dict, k, more) ==
    LET grown == IF Full(dict) THEN Grown(dict) ELSE dict
        resizes == grown.rc - 3 <= 0
        room == IF resizes THEN Resized(grown) ELSE grown
        reindexed == resizes \/ (Full(dict) /\ CompactsToGrow(dict))
    IN  [room EXCEPT !.entries = Append(@, k),
                     !.rc = @ - 3,
                     !.taken = @ + (IF reindexed THEN 1 ELSE more),
                     !.slot[k] = Stored(room.n, Ever(room) + 1)]

\* Growing and resizing allocate, unless they compact in place or keep the table.
GrowAllocates(dict) == Full(dict) /\ (CompactsToGrow(dict) => Shrinks(dict))
ResizeAllocates(dict) ==
    LET n == NewSize(dict, Live(dict) + 1)
    IN  n > dict.n \/ (n < dict.n /\ Shrinks(dict))

\* What is left when there is no memory for the entries or for the table
\* (_ll_dict_rescue).
Failures(dict) ==
    LET grown == IF Full(dict) THEN Grown(dict) ELSE dict
    IN  {Reindexed(x, x.n) : x \in {y \in {dict} : GrowAllocates(y)} \cup
                                   {y \in {grown} : y.rc - 3 <= 0 /\ ResizeAllocates(y)}}

SetItem(dict, k) == IF Found(dict, k) THEN dict ELSE Put(dict, k, 1)

\* ll_dict_update with a dictionary of two items, after ll_prepare_dict_update
Prepared(dict) == IF dict.rc <= (2 - Live(dict)) * 3 THEN ResizedTo(dict, 2) ELSE dict
UpdatedBy(dict, j, k) == SetItem(SetItem(Prepared(dict), j), k)

-----------------------------------------------------------------------------
(* Deleting and moving. *)

\* The entries up to the last one that is valid.
Trimmed(entries) ==
    LET valid == {i \in 1 .. Len(entries) : entries[i] # Gone}
    IN  SubSeq(entries, 1, CHOOSE i \in valid : \A j \in valid : j <= i)

\* Mutant: a deletion gives its part of resize_counter back.
DeletedGivesBack(dict, i) ==
    [dict EXCEPT !.slot[dict.entries[i]] = 0,
                 !.entries = IF Live(dict) = 1 THEN <<>>
                             ELSE IF i = Ever(dict) THEN Trimmed([@ EXCEPT ![i] = Gone])
                             ELSE [@ EXCEPT ![i] = Gone],
                 !.skip = IF Live(dict) = 1 THEN 0 ELSE @,
                 !.rc = @ + 3]

\* _ll_dict_del, before it considers shrinking ...
Marked(dict, i) ==
    LET entries == [dict.entries EXCEPT ![i] = Gone]
    IN  [dict EXCEPT !.slot[dict.entries[i]] = 0,
                     !.entries = IF Live(dict) = 1 THEN <<>>
                                 ELSE IF i = Ever(dict) THEN Trimmed(entries)
                                 ELSE entries,
                     !.skip = IF Live(dict) = 1 THEN 0 ELSE @]

\* ... which it does when most of the items are dead ...
Dwindled(dict) == Live(dict) + InitSize <= dict.size \div 8

Deleted(dict, i) ==
    LET marked == Marked(dict, i) IN IF Dwindled(marked) THEN Resized(marked) ELSE marked

\* ... and for which there may be no memory.
DeletedOnly(dict, i) ==
    {marked \in {Marked(dict, i)} : Dwindled(marked) /\ ResizeAllocates(marked)}

\* The entry of a key that goes to the end, without it.
TakenOut(dict, i) == [dict EXCEPT !.entries[i] = Gone]

\* ll_dict_move_to_last
MovedToLast(dict, k) ==
    LET i == Position(dict, k)
    IN  IF i = Ever(dict) THEN dict ELSE Put(TakenOut(dict, i), k, 0)

\* The first entry that is valid, from a position that has none before it.
FirstValid(dict) ==
    CHOOSE i \in dict.skip + 1 .. Ever(dict) :
        /\ dict.entries[i] # Gone
        /\ \A j \in dict.skip + 1 .. i - 1 : dict.entries[j] = Gone

\* Mutant: the key goes to the place of the first one, not before it.
MovedToNewRoomOver(dict, k) ==
    LET i == Position(dict, k)
        size == Overallocated(Ever(dict))
        dst == ((size - Ever(dict)) * 3) \div 4
        shifted == [j \in 1 .. dst |-> Gone] \o [dict.entries EXCEPT ![i] = Gone]
    IN  Reindexed([dict EXCEPT !.entries = [shifted EXCEPT ![dst + 1] = k], !.size = size],
                  dict.n)

\* ll_dict_move_to_first, when it has to make room before the first entry
MovedToNewRoom(dict, k) ==
    LET i == Position(dict, k)
        size == Overallocated(Ever(dict))
        dst == ((size - Ever(dict)) * 3) \div 4
        shifted == [j \in 1 .. dst |-> Gone] \o [dict.entries EXCEPT ![i] = Gone]
    IN  Reindexed([dict EXCEPT !.entries = [shifted EXCEPT ![dst] = k], !.size = size],
                  dict.n)

\* Mutant: the slot gets the place of the first key.
MovedBeforeFirstOffByOne(dict, k) ==
    LET i == Position(dict, k)
        first == FirstValid(dict)
    IN  IF first = i THEN [dict EXCEPT !.skip = i - 1]
        ELSE [dict EXCEPT !.entries[first - 1] = k,
                          !.entries[i] = Gone,
                          !.skip = first - 2,
                          !.slot[k] = Stored(dict.n, first)]

\* and when there are deleted entries
MovedBeforeFirst(dict, k) ==
    LET i == Position(dict, k)
        first == FirstValid(dict)
    IN  IF first = i THEN [dict EXCEPT !.skip = i - 1]
        ELSE [dict EXCEPT !.entries[first - 1] = k,
                          !.entries[i] = Gone,
                          !.skip = first - 2,
                          !.slot[k] = Stored(dict.n, first - 1)]

MovedToFirst(dict, k) ==
    IF Position(dict, k) = 1 THEN dict
    ELSE IF dict.entries[1] # Gone THEN MovedToNewRoom(dict, k)
    ELSE MovedBeforeFirst(dict, k)

\* The compaction that it begins with.
Tidied(dict) ==
    IF Live(dict) < dict.size \div 2 - Spare THEN Compacted(dict) ELSE dict

\* ll_dictiter and the first _ll_dictnext: the deleted entries it finds at the
\* beginning are skipped by the next iterator.
Iterated(dict) ==
    [dict EXCEPT !.skip = IF Live(dict) = 0 THEN Ever(dict) ELSE FirstValid(dict) - 1]

-----------------------------------------------------------------------------
(* Operations. *)

\* ll_newdict_size
Sized(length) ==
    LET n == TableOf[(length \div 2) * 3]
    IN  [Fresh(<<>>, length) EXCEPT !.n = n, !.rc = 2 * n]

\* A new dictionary, one that is given a size, a prebuilt one.
DictInit ==
    \/ d = Fresh(<<>>, 0)
    \/ \E length \in Estimates : d = Sized(length)
    \/ \E j, k \in Key : j # k /\ d = Fresh(<<j, k>>, 2)

\* A lookup, of a key that is there or not; and what is left of an operation that raises
\* before it has changed anything but that it has made the first index.
Lookup == d' = Ensured(d)

Set(k) == d' = SetItem(Ensured(d), k)

SetFails(k) ==
    /\ ~Found(Ensured(d), k)
    /\ d' \in Failures(Ensured(d))

Update(j, k) == j # k /\ d' = UpdatedBy(Ensured(d), j, k)

\* There is no memory for the first of the two items, or for the second.
UpdateFails(j, k) ==
    LET before == Prepared(Ensured(d))
        between == SetItem(before, j)
    IN  /\ j # k
        /\ \/ ~Found(before, j) /\ d' \in Failures(before)
           \/ ~Found(between, k) /\ d' \in Failures(between)

Delete(k) ==
    /\ Found(Ensured(d), k)
    /\ d' = Deleted(Ensured(d), Position(Ensured(d), k))

DeleteFails(k) ==
    /\ Found(Ensured(d), k)
    /\ d' \in DeletedOnly(Ensured(d), Position(Ensured(d), k))

\* _ll_getnextitem
LastFound(dict) == [dict EXCEPT !.entries = Trimmed(@)]

\* ll_dict_popitem; it also allocates its result, before it deletes the item.
PopLast ==
    /\ Live(d) > 0
    /\ d' = LET dict == LastFound(Ensured(d)) IN Deleted(dict, Ever(dict))

PopLastFails ==
    /\ Live(d) > 0
    /\ LET dict == LastFound(Ensured(d)) IN d' \in {dict} \cup DeletedOnly(dict, Ever(dict))

\* An iterator is made for its first key, which is then deleted, as in popitem(last=False).
Iterate == d' = Iterated(d)
PopFirst ==
    /\ Live(d) > 0
    /\ d' = Deleted(Ensured(Iterated(d)), FirstValid(Ensured(Iterated(d))))

PopFirstFails ==
    /\ Live(d) > 0
    /\ d' \in DeletedOnly(Ensured(Iterated(d)), FirstValid(Ensured(Iterated(d))))

MoveToLast(k) ==
    /\ Found(Ensured(d), k)
    /\ d' = MovedToLast(Ensured(d), k)

\* When there is no memory the key is lost.
MoveToLastFails(k) ==
    /\ Found(Ensured(d), k)
    /\ LET i == Position(Ensured(d), k)
       IN  i # Ever(d) /\ d' \in Failures([TakenOut(Ensured(d), i) EXCEPT !.slot[k] = 0])

MoveToFirst(k) ==
    LET dict == Ensured(Tidied(d))
    IN  Found(dict, k) /\ d' = MovedToFirst(dict, k)

\* The key is not there, or there is no memory for new room.
MoveToFirstFails(k) ==
    LET dict == Ensured(Tidied(d))
    IN  /\ Found(dict, k) => Position(dict, k) # 1 /\ dict.entries[1] # Gone
        /\ d' = dict

\* ll_dict_clear
Clear ==
    /\ Ever(d) > 0
    /\ d' = [Fresh(<<>>, 0) EXCEPT !.n = InitSize, !.rc = 2 * InitSize]

\* It gives up the entries first; without memory for a table it resets nothing else.
ClearFails ==
    /\ Ever(d) > 0
    /\ d' = [d EXCEPT !.size = 0]

\* ll_dict_copy; the copy is used from here on.
Copy == d' = Reindexed(Ensured(d), Ensured(d).n)

\* What the code does with a dictionary that has lost its entries is not defined, except
\* that clear() makes it a dictionary again.
DictNext ==
    \/ /\ Intact(d)
       /\ \/ \E k \in Key : \/ Set(k)
                            \/ SetFails(k)
                            \/ Delete(k)
                            \/ DeleteFails(k)
                            \/ MoveToLast(k)
                            \/ MoveToLastFails(k)
                            \/ MoveToFirst(k)
                            \/ MoveToFirstFails(k)
          \/ \E j, k \in Key : Update(j, k) \/ UpdateFails(j, k)
          \/ PopLast \/ PopLastFails \/ PopFirst \/ PopFirstFails
          \/ Lookup \/ Iterate \/ Copy
    \/ Clear \/ ClearFails

DictSpec == DictInit /\ [][DictNext]_d

-----------------------------------------------------------------------------
(* Properties. *)

\* The types, and the bounds of the assertions: resize_counter is positive when there is a
\* table, and what iterators skip is among the entries that have been used.
DictTypeOK ==
    /\ d.entries \in Seq(Key \cup {Gone}) /\ d.size \in Nat
    /\ d.n = 0 \/ d.rc > 0
    /\ d.skip \in 0 .. Ever(d)
    /\ d.slot \in [Key -> Nat] /\ d.taken \in Nat

\* The slot of every key leads to it, also after compactions, moves and MemoryErrors, and
\* whatever the integers of the table can hold ("the indexes numeric type is too small to
\* store all the entry indexes" is detected in ll_dict_grow).  After the MemoryError of a
\* clear() nothing is claimed: slots lead past the end of the empty array.
IndexIsRight ==
    Intact(d) /\ d.n # 0 =>
       \A i \in 1 .. Ever(d) : d.entries[i] # Gone => d.slot[d.entries[i]] = i + 1

\* Probing ends: there is a free slot, however slots are taken by deleted items and
\* by items that move.
FreeSlotLeft == d.n # 0 => d.taken < d.n

\* An iterator that begins at the high bits of lookup_function_no misses no item.
SkippedAreDeleted == \A i \in 1 .. d.skip : d.entries[i] = Gone

\* The dictionary is an ordered map, until a clear() runs out of memory.
Map == INSTANCE OrderedMap WITH order <- IF Intact(d) THEN Keys(d.entries) ELSE Lost

\* No other operation and no other MemoryError loses the entries.
ImplementsOrderedMap == Map!Spec /\ [][Intact(d) /\ ~Intact(d)' => ClearFails]_d
=============================================================================
