-------------------------- MODULE RingBufferObjects --------------------------
(***************************************************************************)
(* Several ring_buffer objects, the storage they allocate, and the special *)
(* members (include/ring_buffer.h): construction, copying, moving,         *)
(* assignment and destruction, among pushes, pops and clears.  An object   *)
(* is the record of its data members; a block of the heap is a function    *)
(* from slots to contents.  A read of a dead slot is undefined in C++; the *)
(* element copied from one is Raw here, which no right sequence contains.  *)
(* allocate() may throw, in a constructor and in copy assignment, and so   *)
(* may the copying of an element, in both.                                 *)
(***************************************************************************)
EXTENDS Integers, Sequences

CONSTANTS
  Values, Raw,   \* the values of type T; content of a slot with no live T
  Objects,       \* the program's ring_buffer variables
  Absent,        \* a variable whose object is not constructed
  Blocks,        \* the addresses allocate() may return
  Null, Freed,   \* nullptr; a block that is not allocated
  Capacities     \* the capacities asked for

ASSUME CapacitiesAssumption == Capacities \subseteq Nat

Cells == Values \cup {Raw}

(* A moved-from object has no capacity, and copies of it have none.        *)
Sizes == Capacities \cup {0}

Contents == UNION {[0 .. n - 1 -> Cells] : n \in Sizes}

(* An index is 0 or lies in storage of one of the capacities.              *)
Indices == {0} \cup UNION {0 .. n - 1 : n \in Capacities}

Members ==
  [capacity_ : Sizes, buffer_ : Blocks \cup {Null},
   head_ : Indices, tail_ : Indices, count_ : Nat,
   full_ : BOOLEAN, just_overwrote_ : BOOLEAN, overwrite_position_ : Indices]

ASSUME MarkersAssumption ==
  Null \notin Blocks /\ Absent \notin Members /\ Freed \notin Contents

VARIABLES
  objects,  \* the members of each object
  heap,     \* the content of each block
  ideal,    \* history: the elements each object should hold, oldest first
  torn,     \* history: the objects a push or a copy has misplaced slots of,
            \* or an element that threw has left half copied
  stale,    \* history: the objects whose mark for back() was not theirs
  misfreed, \* history: a block was freed twice or with a wrong size
  thrown    \* history: what has thrown: "nothing", the "allocation" of a copy
            \* assignment, or the copying of an "element"

vars == <<objects, heap, ideal, torn, stale, misfreed, thrown>>

Alive == {o \in Objects : objects[o] # Absent}

FreeBlocks(h) == {b \in Blocks : h[b] = Freed}

NewBlock(n) == [s \in 0 .. n - 1 |-> Raw]

(* What operator[] and the iterators read from an object.                  *)
Elements(m) ==
  [i \in 1 .. m.count_ |-> heap[m.buffer_][(m.head_ + i - 1) % m.capacity_]]

(* The slot back() reads.                                                  *)
BackSlot(m) ==
  IF m.just_overwrote_ THEN m.overwrite_position_
  ELSE IF m.tail_ = 0 THEN m.capacity_ - 1 ELSE m.tail_ - 1

Init ==
  /\ objects = [o \in Objects |-> Absent]
  /\ heap = [b \in Blocks |-> Freed]
  /\ ideal = [o \in Objects |-> <<>>]
  /\ torn = {}
  /\ stale = {}
  /\ misfreed = FALSE
  /\ thrown = "nothing"

-----------------------------------------------------------------------------
(* Parts the special members share.                                        *)

Fresh(n, b) ==
  [capacity_ |-> n, buffer_ |-> b, head_ |-> 0, tail_ |-> 0, count_ |-> 0,
   full_ |-> FALSE, just_overwrote_ |-> FALSE, overwrite_position_ |-> 0]

(* clear() as far as the members go.                                       *)
Cleared(m) ==
  [m EXCEPT !.head_ = 0, !.tail_ = 0, !.count_ = 0, !.full_ = FALSE]

(* Mutants: the source of a move keeps its pointer, or its indices.        *)
MovedFrom_keeps_indices(m) == [m EXCEPT !.buffer_ = Null, !.capacity_ = 0]

MovedFrom_shares(m) == [Cleared(m) EXCEPT !.capacity_ = 0]

(* What a move leaves in its source: no storage, the mark untouched.       *)
MovedFrom(m) == [Cleared(m) EXCEPT !.buffer_ = Null, !.capacity_ = 0]

(* The members m with the mark of back() that another record holds.        *)
Mark(b, position) == [just_overwrote_ |-> b, overwrite_position_ |-> position]

WithMark(m, mark) ==
  [m EXCEPT !.just_overwrote_ = mark.just_overwrote_,
            !.overwrite_position_ = mark.overwrite_position_]

(* The heap after clear() and deallocate(buffer_, capacity_), and whether  *)
(* that call breaks the allocator's contract.                              *)
Released(m) ==
  IF m.buffer_ = Null THEN heap ELSE [heap EXCEPT ![m.buffer_] = Freed]

WrongFree(m) ==
  /\ m.buffer_ # Null
  /\ \/ heap[m.buffer_] = Freed
     \/ DOMAIN heap[m.buffer_] # 0 .. m.capacity_ - 1

Release(o, m) ==
  /\ o \in Alive
  /\ misfreed' = (misfreed \/ WrongFree(m))

(* Mutant: a slot is left out.                                             *)
CopiedBlock_short(m, n) ==
  [s \in 0 .. m.capacity_ - 1 |->
     IF s + 1 < n THEN heap[m.buffer_][s] ELSE Raw]

(* The copying loops construct slot i from slot i, wherever the elements   *)
(* start; this is the new block after n rounds.                            *)
CopiedBlock(m, n) ==
  [s \in 0 .. m.capacity_ - 1 |->
     IF s < n THEN heap[m.buffer_][s] ELSE Raw]

(* Those slots hold all elements if they start at slot 0 or fill the       *)
(* storage.                                                                *)
CopiesAll(m) == m.head_ = 0 \/ m.full_ \/ m.count_ = 0

(* History: o should hold what p held.  Its mark is right if neither had   *)
(* one.                                                                    *)
Inherit(o, p, intact, mark) ==
  /\ torn' = (torn \ {o}) \cup (IF p \in torn \/ ~intact THEN {o} ELSE {})
  /\ stale' = (stale \ {o}) \cup
       (IF p \in stale \/ mark.just_overwrote_ \/ objects[p].just_overwrote_
        THEN {o} ELSE {})

Forget(o) ==
  /\ ideal' = [ideal EXCEPT ![o] = <<>>]
  /\ torn' = torn \ {o}
  /\ stale' = stale \ {o}

(* Copies the members and elements of p to o, in a block free in h.        *)
CopyTo(o, p, h, mark) ==
  /\ \E b \in FreeBlocks(h) :
       /\ heap' = [h EXCEPT ![b] = CopiedBlock(objects[p], objects[p].count_)]
       /\ objects' = [objects EXCEPT
            ![o] = WithMark([objects[p] EXCEPT !.buffer_ = b], mark)]
  /\ ideal' = [ideal EXCEPT ![o] = ideal[p]]
  /\ Inherit(o, p, CopiesAll(objects[p]), mark)
  /\ UNCHANGED thrown

(* The copying of an element of p throws: the new block holds those copied *)
(* before, and o is left as `left', with that block.                       *)
CopyThrows(o, p, h, left) ==
  /\ \E b \in FreeBlocks(h), n \in 0 .. objects[p].count_ - 1 :
       /\ heap' = [h EXCEPT ![b] = CopiedBlock(objects[p], n)]
       /\ objects' = [objects EXCEPT
            ![o] = IF left = Absent THEN Absent ELSE [left EXCEPT !.buffer_ = b]]
  /\ thrown' = "element"
  /\ ideal' = [ideal EXCEPT ![o] = <<>>]
  /\ torn' = torn \cup {o}
  /\ UNCHANGED stale

MoveTo(o, p, mark) ==
  /\ objects' = [objects EXCEPT ![o] = WithMark(objects[p], mark),
                                ![p] = MovedFrom(objects[p])]
  /\ ideal' = [ideal EXCEPT ![o] = ideal[p], ![p] = <<>>]
  /\ Inherit(o, p, TRUE, mark)
  /\ UNCHANGED thrown

-----------------------------------------------------------------------------
(* Special members.  Assigning an object to itself changes nothing.        *)

(* A capacity of 0 is rejected after allocate(0): no object is constructed *)
(* and nobody frees that block.                                            *)
Construct(o, n) ==
  /\ o \notin Alive
  /\ \E b \in FreeBlocks(heap) :
       /\ heap' = [heap EXCEPT ![b] = NewBlock(n)]
       /\ objects' = IF n = 0 THEN objects
                     ELSE [objects EXCEPT ![o] = Fresh(n, b)]
  /\ UNCHANGED <<ideal, torn, stale, misfreed, thrown>>

(* allocate() throws in a constructor: there is no object.                 *)
ConstructThrows(o) == o \notin Alive /\ UNCHANGED vars

(* If an element throws there is no object, and nobody frees its block.    *)
CopyConstruct(o, p) ==
  /\ o \notin Alive /\ p \in Alive
  /\ \/ CopyTo(o, p, heap, Mark(FALSE, 0))
     \/ CopyThrows(o, p, heap, Absent)
  /\ UNCHANGED misfreed

MoveConstruct(o, p) ==
  /\ o \notin Alive /\ p \in Alive
  /\ MoveTo(o, p, Mark(FALSE, 0))
  /\ UNCHANGED <<heap, misfreed>>

(* The old storage is gone before the new one is asked for: if allocate()  *)
(* throws, o keeps the pointer to it, with the capacity of p.  If the copy *)
(* of an element throws, o has the new storage, all indices of p, and its  *)
(* own mark.                                                               *)
CopyAssign(o, p) ==
  /\ Release(o, objects[o]) /\ p \in Alive /\ o # p
  /\ \/ CopyTo(o, p, Released(objects[o]),
               Mark(FALSE, objects[o].overwrite_position_))
     \/ /\ heap' = Released(objects[o])
        /\ objects' = [objects EXCEPT
             ![o] = [Cleared(@) EXCEPT !.capacity_ = objects[p].capacity_]]
        /\ thrown' = "allocation"
        /\ Forget(o)
     \/ CopyThrows(o, p, Released(objects[o]), WithMark(objects[p], objects[o]))

(* Mutant: the capacity is taken over before the old storage is freed.     *)
MoveAssign_capacity_first(o, p) ==
  /\ p \in Alive /\ o \in Alive /\ o # p
  /\ Release(o, [objects[o] EXCEPT !.capacity_ = objects[p].capacity_])
  /\ heap' = Released(objects[o])
  /\ MoveTo(o, p, objects[o])

(* The mark for back() is not moved: o keeps its own.                      *)
MoveAssign(o, p) ==
  /\ Release(o, objects[o]) /\ p \in Alive /\ o # p
  /\ heap' = Released(objects[o])
  /\ MoveTo(o, p, objects[o])

Destroy(o) ==
  /\ Release(o, objects[o])
  /\ heap' = Released(objects[o])
  /\ objects' = [objects EXCEPT ![o] = Absent]
  /\ Forget(o)
  /\ UNCHANGED thrown

-----------------------------------------------------------------------------
(* Modifiers (see RingBuffer), of objects that have storage.               *)

Usable(o) == o \in Alive /\ objects[o].capacity_ > 0

Write(o, slot, cell) ==
  heap' = [heap EXCEPT ![objects[o].buffer_] = [@ EXCEPT ![slot] = cell]]

(* Mutant: appending leaves an old mark in use.                            *)
Appended_keeps_mark(m) ==
  [m EXCEPT !.tail_ = (@ + 1) % m.capacity_, !.count_ = @ + 1,
            !.full_ = m.count_ + 1 = m.capacity_]

Appended(m) ==
  [m EXCEPT !.tail_ = (@ + 1) % m.capacity_, !.count_ = @ + 1,
            !.full_ = m.count_ + 1 = m.capacity_, !.just_overwrote_ = FALSE]

Overwritten(m) ==
  WithMark([m EXCEPT !.head_ = (@ + 1) % m.capacity_], Mark(TRUE, m.head_))

Popped(m) ==
  [m EXCEPT !.head_ = (@ + 1) % m.capacity_, !.count_ = @ - 1,
            !.full_ = FALSE, !.just_overwrote_ = FALSE]

TailInPlace(m) == m.tail_ = (m.head_ + m.count_) % m.capacity_

PushBack(o, v) ==
  LET m == objects[o] IN
  /\ Usable(o)
  /\ \/ /\ m.full_
        /\ Write(o, m.head_, v)
        /\ objects' = [objects EXCEPT ![o] = Overwritten(m)]
        /\ ideal' = [ideal EXCEPT ![o] = Append(Tail(@), v)]
        /\ UNCHANGED torn
     \/ /\ ~m.full_
        /\ Write(o, m.tail_, v)
        /\ objects' = [objects EXCEPT ![o] = Appended(m)]
        /\ ideal' = [ideal EXCEPT ![o] = Append(@, v)]
        /\ torn' = IF TailInPlace(m) THEN torn ELSE torn \cup {o}
  /\ stale' = stale \ {o}
  /\ UNCHANGED <<misfreed, thrown>>

PopFront(o) ==
  LET m == objects[o] IN
  /\ Usable(o) /\ m.count_ > 0
  /\ Write(o, m.head_, Raw)
  /\ objects' = [objects EXCEPT ![o] = Popped(m)]
  /\ ideal' = [ideal EXCEPT ![o] = Tail(@)]
  /\ UNCHANGED <<torn, stale, misfreed, thrown>>

(* Of an object without storage too: there is nothing to destroy.          *)
Clear(o) ==
  LET m == objects[o] IN
  /\ o \in Alive
  /\ heap' = IF m.count_ = 0 THEN heap
             ELSE [heap EXCEPT ![m.buffer_] =
                     [s \in DOMAIN @ |->
                        IF \E i \in 0 .. m.count_ - 1 :
                             s = (m.head_ + i) % m.capacity_
                        THEN Raw ELSE @[s]]]
  /\ objects' = [objects EXCEPT ![o] = Cleared(m)]
  /\ Forget(o)
  /\ UNCHANGED <<misfreed, thrown>>

-----------------------------------------------------------------------------
(* Once a copy has thrown, the program unwinds: what is left to see is the *)
(* destruction of its objects.                                             *)
Use ==
  \/ \E o \in Objects, n \in Capacities : Construct(o, n)
  \/ \E o \in Objects : ConstructThrows(o)
  \/ \E o, p \in Objects : CopyConstruct(o, p)
  \/ \E o, p \in Objects : MoveConstruct(o, p)
  \/ \E o, p \in Objects : CopyAssign(o, p)
  \/ \E o, p \in Objects : MoveAssign(o, p)
  \/ \E o \in Objects, v \in Values : PushBack(o, v)
  \/ \E o \in Objects : PopFront(o)
  \/ \E o \in Objects : Clear(o)

Next == (thrown = "nothing" /\ Use) \/ \E o \in Objects : Destroy(o)

Spec == Init /\ [][Next]_vars

-----------------------------------------------------------------------------
(* Members keep their ranges: head_ and tail_ lie in the object's own      *)
(* storage, after assignments between different capacities too, or all is  *)
(* 0 in a moved-from object and its copies.  overwrite_position_ is some   *)
(* index of some object: a move assignment changes the capacity and keeps  *)
(* the target's own mark, which may then lie outside its new storage.      *)
TypeOK ==
  /\ objects \in [Objects -> Members \cup {Absent}]
  /\ \A o \in Alive :
       LET m == objects[o] IN
       \/ {m.head_, m.tail_} \subseteq 0 .. m.capacity_ - 1 /\ m.count_ <= m.capacity_
       \/ {m.head_, m.tail_, m.count_, m.capacity_} = {0}
  /\ heap \in [Blocks -> Contents \cup {Freed}]
  /\ torn \subseteq Objects /\ stale \subseteq Objects

(* Ownership: unless an allocation has thrown inside a copy assignment,    *)
(* every object that has storage owns an allocated block of its capacity,  *)
(* and no two objects the same one.  As long as no copy has thrown, only   *)
(* the zero-sized blocks of rejected constructions are owned by nobody.    *)
StorageOwned ==
  /\ thrown # "allocation" =>
       \A o \in Alive : objects[o].buffer_ # Null =>
         /\ ~WrongFree(objects[o])
         /\ \A p \in Alive \ {o} : objects[o].buffer_ # objects[p].buffer_
  /\ thrown = "nothing" =>
       \A b \in Blocks :
         heap[b] \in {Freed, NewBlock(0)} \/ \E o \in Alive : objects[o].buffer_ = b

(* No chain of copies, moves, assignments and destructions frees a block   *)
(* twice or with another size than it was allocated with, an element that  *)
(* throws while it is copied included, unless an allocation has thrown     *)
(* inside a copy assignment.                                               *)
FreedRight == thrown # "allocation" => ~misfreed

(* Value semantics: an object holds the elements that the calls before,    *)
(* the copies and moves included, should have given it, unless they, or    *)
(* those of the object they were taken from, included a push at a          *)
(* displaced tail or a copy of elements that did not start at slot 0.  If  *)
(* the copying of an element throws, all objects but the target still do.  *)
ValuesFollow ==
  \A o \in Alive : o \notin torn => Elements(objects[o]) = ideal[o]

(* back() finds the newest element in copied, moved and assigned objects   *)
(* too, unless the source or the target of the operation carried the mark  *)
(* of an overwrite, which is dropped or kept, never handed over.           *)
BackFollows ==
  \A o \in Alive \ (torn \cup stale) :
    LET m == objects[o] IN
    m.count_ > 0 /\ (m.full_ \/ TailInPlace(m)) =>
      heap[m.buffer_][BackSlot(m)] = ideal[o][Len(ideal[o])]

(* The README promises safe copy semantics: a copy, if no element throws,  *)
(* has the elements of its source.                                         *)
CopyIsEqual ==
  [][\A o, p \in Objects :
       CopyConstruct(o, p) /\ UNCHANGED thrown =>
         Elements(objects[o])' = Elements(objects[p])]_vars
=============================================================================
