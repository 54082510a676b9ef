------------------------------ MODULE LruCache ------------------------------
(***************************************************************************)
(* The cache of chunks (src/tools/lru_cache.rs): a map from keys to nodes  *)
(* of a doubly linked list that is kept by hand with raw pointers.  The    *)
(* heap is modelled: a node has an address, and one that was freed is not  *)
(* read or written again.                                                  *)
(***************************************************************************)
EXTENDS Integers, Sequences, FiniteSets, SequencesExt

CONSTANTS CacheKeys,     \* the keys
          CacheValues,   \* the values
          LruCapacity,   \* the number of entries, at least one
          Addresses      \* where nodes may be allocated

\* There is memory for one node more than the cache keeps, and 0 is the null pointer.
ASSUME CacheAssumption ==
  /\ LruCapacity \in Nat \ {0} /\ IsFiniteSet(Addresses) /\ Cardinality(Addresses) > LruCapacity
  /\ 0 \notin Addresses /\ 0 \notin CacheKeys

VARIABLES heap,    \* [address -> node], Free where there is none
          map,     \* [key -> address], Null for a key that is not cached
          head, tail,
          broken,  \* a freed node was used
          recent   \* the entries, most recently used first: what the cache promises

lruVars == <<heap, map, head, tail, broken, recent>>

Null == 0
Free == [key |-> Null, value |-> Null, prev |-> Null, next |-> Null]
Live(p) == p # Null /\ heap[p] # Free

\* the list with the heap it is in: what the list operations change
List == [heap |-> heap, head |-> head, tail |-> tail, bad |-> broken]
Install(l) == heap' = l.heap /\ head' = l.head /\ tail' = l.tail /\ broken' = l.bad
\* writing a field of a node that is not there is a use after free
SetPrev(l, p, q) == IF p = Null \/ l.heap[p] = Free THEN [l EXCEPT !.bad = TRUE] ELSE [l EXCEPT !.heap[p].prev = q]
SetNext(l, p, q) == IF p = Null \/ l.heap[p] = Free THEN [l EXCEPT !.bad = TRUE] ELSE [l EXCEPT !.heap[p].next = q]

----------------------------------------------------------------------------
Tail_Kept(l, node) == l
TailMoved(l, node) == IF node.next # Null THEN SetPrev(l, node.next, node.prev) ELSE [l EXCEPT !.tail = node.prev]

bring_to_front(l, p) ==
  IF p = l.head THEN l
  ELSE LET node == l.heap[p]
           out == TailMoved(SetNext(l, node.prev, node.next), node)
           first == SetNext(SetPrev(out, p, Null), p, l.head)
       IN [SetPrev(first, l.head, p) EXCEPT !.head = p]

push_front(l, p) ==
  LET in == SetNext(l, p, l.head)
      linked == IF l.head # Null THEN SetPrev(in, l.head, p) ELSE in
  IN [linked EXCEPT !.head = p, !.tail = IF l.tail = Null THEN p ELSE @]

remove_node(l, p) ==
  LET node == l.heap[p]
      out == IF node.prev # Null THEN SetNext(l, node.prev, node.next) ELSE [l EXCEPT !.head = node.next]
  IN [TailMoved(out, node) EXCEPT !.heap[p] = Free]

\* the head is not changed: there is another node whenever this is called
pop_tail(l) ==
  LET old == l.heap[l.tail]
      short == [l EXCEPT !.tail = old.prev, !.heap[l.tail] = Free]
  IN IF old.prev # Null THEN SetNext(short, old.prev, Null) ELSE short

----------------------------------------------------------------------------
Cached(m) == {k \in DOMAIN m : m[k] # Null}
FirstFree == CHOOSE p \in Addresses : heap[p] = Free
\* the entry of a key in what the cache promises
Position(s, k) == CHOOSE i \in DOMAIN s : s[i][1] = k
Without(s, k) == RemoveAt(s, Position(s, k))

(* A new entry, and the least recently used one leaves when there are too  *)
(* many.                                                                   *)
AddNode(k, v) ==
  LET p == FirstFree
      l == push_front([List EXCEPT !.heap[p] = [Free EXCEPT !.key = k, !.value = v]], p)
      m == [map EXCEPT ![k] = p]
      full == Cardinality(Cached(m)) > LruCapacity
      s == <<<<k, v>>>> \o recent
  IN /\ Install(IF full THEN pop_tail(l) ELSE l)
     /\ map' = IF full THEN [m EXCEPT ![l.heap[l.tail].key] = Null] ELSE m
     /\ recent' = IF Len(s) > LruCapacity THEN SubSeq(s, 1, LruCapacity) ELSE s

Insert(k, v) ==
  \/ /\ map[k] # Null
     /\ LET l == bring_to_front(List, map[k]) IN Install([l EXCEPT !.heap[map[k]].value = v])
     /\ recent' = <<<<k, v>>>> \o Without(recent, k)
     /\ UNCHANGED map
  \/ map[k] = Null /\ AddNode(k, v)

(* get_mut and access: the value is read through the head of the list.     *)
GetMut(k) ==
  /\ map[k] # Null
  /\ LET l == bring_to_front(List, map[k]) IN
     Install([l EXCEPT !.bad = @ \/ l.heap[l.head].key # k])
  /\ recent' = <<recent[Position(recent, k)]>> \o Without(recent, k)
  /\ UNCHANGED map
\* a fetch may find nothing or fail: nothing changes then
Access(k, v) == map[k] = Null /\ AddNode(k, v)

RemoveEntry(k) ==
  /\ map[k] # Null
  /\ Install(remove_node(List, map[k]))
  /\ map' = [map EXCEPT ![k] = Null]
  /\ recent' = Without(recent, k)

Clear ==
  /\ map' = [k \in CacheKeys |-> Null]
  /\ heap' = [p \in Addresses |-> Free] /\ head' = Null /\ tail' = Null
  /\ recent' = <<>>
  /\ UNCHANGED broken

LruInit ==
  /\ heap = [p \in Addresses |-> Free] /\ map = [k \in CacheKeys |-> Null]
  /\ head = Null /\ tail = Null /\ broken = FALSE /\ recent = <<>>
LruNext ==
  \/ \E k \in CacheKeys, v \in CacheValues : Insert(k, v) \/ Access(k, v)
  \/ \E k \in CacheKeys : GetMut(k) \/ RemoveEntry(k)
  \/ Clear
LruSpec == LruInit /\ [][LruNext]_lruVars

----------------------------------------------------------------------------
(* The list and the map are what the cache promises: no freed node is used *)
(* or reachable, following next from the head gives the entries most       *)
(* recently used first, prev is the inverse of next and ends at the tail,  *)
(* the map leads to these nodes and no node leaks.                         *)
LruMatches ==
  LET at == [i \in 0..Len(recent) + 1 |-> IF i \in DOMAIN recent THEN map[recent[i][1]] ELSE Null] IN
  /\ ~broken
  /\ head = at[1] /\ tail = at[Len(recent)]
  /\ \A i \in DOMAIN recent :
       /\ Live(at[i])
       /\ heap[at[i]] = [key |-> recent[i][1], value |-> recent[i][2], prev |-> at[i - 1], next |-> at[i + 1]]
  /\ Cached(map) = {recent[i][1] : i \in DOMAIN recent}
  /\ Cardinality({p \in Addresses : Live(p)}) = Len(recent)
=============================================================================
